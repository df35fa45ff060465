----------------------------- MODULE ObjectsProof -----------------------------
(***************************************************************************)
(* What several processes may do to one another's objects, for any number  *)
(* of processes, cache ids and objects.                                    *)
(*                                                                         *)
(* Whether or not two processes share a cache id, a row is inserted once:  *)
(* what a transaction holds is not stored, and no other holds it           *)
(* (InsertionsOK).  That is enough for OneOwner and EventsLoad.  If none   *)
(* do, the counter of a range is the next_guid of the one process that has *)
(* it, and above every id stored (RangesOK), so an id is new when it is    *)
(* handed out, and what a process lists is an event or its own (ListsOK).  *)
(***************************************************************************)
EXTENDS Objects, TLAPS

Working == {"alloc", "insert", "taken"}
NotUp   == {"down", "creating"}

\* A handler at work has the last id its process handed out.
AllocatedOK ==
    \A p \in Procs :
        /\ pc[p] \in Working => id[p] = <<space[p], next[p] - 1>> /\ next[p] > 1
        /\ pc[p] = "insert" => <<id[p], want[p]>> \in tx[p]

\* What a process has inserted and not committed.
InsertionsOK ==
    /\ \A p \in Procs : pc[p] \in NotUp => tx[p] = {} /\ list[p] = {}
    /\ \A p \in Procs : \A e \in tx[p] :
            /\ rows[e[1]] = NoRow
            /\ e[1][1] = space[p] /\ e[1][2] < next[p]
            /\ pc[p] \in {"alloc", "taken"} => e[1] # id[p]
    /\ \A p, q \in Procs : \A e \in tx[p], f \in tx[q] : e[1] = f[1] => p = q /\ e = f

\* Without sharing, the counter in the database is its process's own.
RangesOK ==
    /\ \A p \in Procs : pc[p] \notin NotUp => counter[space[p]] = next[p]
    /\ \A i \in Stored : i[2] < counter[i[1]]
    /\ \A p \in Procs : pc[p] = "alloc" => id[p] \notin Stored

\* An event p has started and nobody has stored.
Own(p, i) ==
    /\ rows[i] = NoRow
    /\ i[1] = space[p] /\ i[2] < next[p]
    /\ pc[p] \in Working => i # id[p]
    /\ \A e \in tx[p] : e[1] = i => e[2] = "Event"

\* Without sharing, a list has events, stored or the process's own.
ListsOK == \A p \in Procs : \A i \in list[p] : rows[i].type = "Event" \/ Own(p, i)

ApartInv == ~Shared => turned = {} /\ RangesOK /\ ListsOK

IInv ==
    /\ TypeOK /\ AllocatedOK /\ InsertionsOK
    /\ OneOwner /\ EventsLoad
    /\ ApartInv /\ Intact

-----------------------------------------------------------------------------
(* Rows.                                                                   *)

\* A row is not the absence of one.
LEMMA RowIsNot == NoRow \notin Row
BY Nobody DEF NoRow, Row

\* A row that was saved again.
LEMMA SavedAgain ==
    ASSUME NEW r \in Row, NEW t \in Types
    PROVE  LET n == [r EXCEPT !.text = t]
           IN  n \in Row /\ n.type = r.type /\ n.by = r.by /\ n.text = t
BY DEF Row

\* What a process sees in its transaction: its own insertions, and the rest.
LEMMA InsertedRow ==
    ASSUME TypeOK, InsertionsOK, NEW p \in Procs, NEW i \in Ids
    PROVE  \/ /\ \A e \in tx[p] : e[1] # i
              /\ Inserted(p)[i] = rows[i]
           \/ \E e \in tx[p] : /\ e[1] = i /\ e[2] \in Types
                               /\ Inserted(p)[i] = [type |-> e[2], text |-> e[2], by |-> p]
<1>1. ASSUME NEW e \in tx[p]
      PROVE  e[2] \in Types /\ e = <<e[1], e[2]>>
  BY DEF TypeOK
<1>2. CASE \E t \in Types : <<i, t>> \in tx[p]
  <2>1. PICK t \in Types : /\ <<i, t>> \in tx[p]
                           /\ Inserted(p)[i] = [type |-> t, text |-> t, by |-> p]
    BY <1>2 DEF Inserted
  <2> QED
    BY <2>1
<1>3. CASE ~\E t \in Types : <<i, t>> \in tx[p]
  BY <1>1, <1>3 DEF Inserted
<1> QED
  BY <1>2, <1>3

\* A row the transaction has no insertion for stays as it was.
LEMMA UntouchedRow ==
    ASSUME TypeOK, InsertionsOK, NEW p \in Procs, NEW i \in Ids,
           \A e \in tx[p] : e[1] # i
    PROVE  Inserted(p)[i] = rows[i]
<1>1. ~\E e \in tx[p] : e[1] = i
  OBVIOUS
<1>2. \/ Inserted(p)[i] = rows[i]
      \/ \E e \in tx[p] : e[1] = i
  <2>1. \/ /\ \A e \in tx[p] : e[1] # i
           /\ Inserted(p)[i] = rows[i]
        \/ \E e \in tx[p] : /\ e[1] = i /\ e[2] \in Types
                            /\ Inserted(p)[i] = [type |-> e[2], text |-> e[2], by |-> p]
    BY InsertedRow
  <2> QED
    BY <2>1
<1> QED
  BY <1>1, <1>2

\* What a commit of p does to row i: an insertion, of which the list may have
\* saved the text already, or nothing, or a text that the list or setavatar saves.
CommittedRow(p, i, r) ==
    \/ \E e \in tx[p] :
          /\ e[1] = i /\ r \in Row /\ r.type = e[2] /\ r.by = p
          /\ r.text # e[2] => r.text = "Event" /\ i \in list[p]
    \/ /\ \A e \in tx[p] : e[1] # i
       /\ \/ r = rows[i]
          \/ /\ rows[i] \in Row /\ r \in Row /\ r.type = rows[i].type /\ r.by = rows[i].by
             /\ \/ r.text = "Event" /\ i \in list[p]
                \/ r.text = "Player" /\ <<i, p>> \in registered

\* The insertions themselves are one of the things a commit may do to a row.
LEMMA CommitInserted ==
    ASSUME TypeOK, InsertionsOK, NEW p \in Procs, NEW i \in Ids
    PROVE  /\ Inserted(p)[i] \in Row \cup {NoRow}
           /\ CommittedRow(p, i, Inserted(p)[i])
<1>1. CASE (\A e \in tx[p] : e[1] # i) /\ Inserted(p)[i] = rows[i]
  BY <1>1 DEF CommittedRow, TypeOK
<1>2. ASSUME NEW e \in tx[p], e[1] = i, e[2] \in Types,
             Inserted(p)[i] = [type |-> e[2], text |-> e[2], by |-> p]
      PROVE  Inserted(p)[i] \in Row /\ CommittedRow(p, i, Inserted(p)[i])
  BY <1>2 DEF CommittedRow, Row
<1> QED
  BY <1>1, <1>2, InsertedRow

\* The texts that are saved in the same transaction, or behind it.
LEMMA CommitSaved ==
    ASSUME TypeOK, InsertionsOK, NEW p \in Procs, NEW i \in Ids, NEW S \in SUBSET list[p]
    PROVE  /\ saveEvents(Inserted(p), S)[i] \in Row \cup {NoRow}
           /\ CommittedRow(p, i, saveEvents(Inserted(p), S)[i])
<1> DEFINE r == Inserted(p)[i]
<1>1. r \in Row \cup {NoRow} /\ CommittedRow(p, i, r)
  BY CommitInserted
<1>2. CASE i \in S /\ r # NoRow
  <2>1. saveEvents(Inserted(p), S)[i] = [r EXCEPT !.text = "Event"]
    BY <1>2 DEF saveEvents
  <2>2. r \in Row /\ "Event" \in Types
    BY <1>1, <1>2 DEF Types
  <2>3. /\ saveEvents(Inserted(p), S)[i] \in Row
        /\ saveEvents(Inserted(p), S)[i].type = r.type
        /\ saveEvents(Inserted(p), S)[i].by = r.by
        /\ saveEvents(Inserted(p), S)[i].text = "Event"
    BY <2>1, <2>2, SavedAgain
  <2> QED
    BY <1>1, <1>2, <2>2, <2>3 DEF CommittedRow
<1>3. CASE ~(i \in S /\ r # NoRow)
  BY <1>1, <1>3 DEF saveEvents
<1> QED
  BY <1>2, <1>3

\* And setavatar's, of a player registered here.
LEMMA CommitAvatar ==
    ASSUME TypeOK, InsertionsOK, OneOwner, NEW p \in Procs, NEW i \in Ids,
           NEW j \in Ids, <<j, p>> \in registered
    PROVE  LET table == [Inserted(p) EXCEPT ![j].text = "Player"]
           IN  table[i] \in Row \cup {NoRow} /\ CommittedRow(p, i, table[i])
<1> DEFINE table == [Inserted(p) EXCEPT ![j].text = "Player"]
           r == Inserted(p)[i]
<1>1. r \in Row \cup {NoRow} /\ CommittedRow(p, i, r)
  BY CommitInserted
<1>2. CASE i = j
  <2>1. rows[i].type = "Player" /\ "Player" # "none"
    BY <1>2 DEF OneOwner
  <2>2. rows[i] \in Row
    BY <2>1 DEF TypeOK, NoRow
  <2>3. \A e \in tx[p] : e[1] # i
    BY <2>2, RowIsNot DEF InsertionsOK
  <2>4. r = rows[i]
    BY <2>3, UntouchedRow
  <2>5. table[i] = [r EXCEPT !.text = "Player"]
    BY <1>2 DEF Inserted
  <2>6. table[i] \in Row /\ table[i].type = r.type /\ table[i].by = r.by
        /\ table[i].text = "Player"
    <3>1. r \in Row /\ "Player" \in Types
      BY <2>2, <2>4 DEF Types
    <3> HIDE DEF table, r
    <3> QED
      BY <2>5, <3>1, SavedAgain
  <2> QED
    BY <1>2, <2>2, <2>3, <2>4, <2>6 DEF CommittedRow
<1>3. CASE i # j
  <2>1. table[i] = r
    BY <1>3 DEF Inserted
  <2>2. table[i] \in Row \cup {NoRow} /\ CommittedRow(p, i, table[i])
    <3> HIDE DEF table, r
    <3> QED
      BY <1>1, <2>1
  <2> QED
    BY <2>2
<1> QED
  BY <1>2, <1>3

\* The id of a handler at work is one.
LEMMA HandedOut ==
    ASSUME TypeOK, AllocatedOK, NEW p \in Procs, pc[p] \in Working
    PROVE  id[p] \in Ids /\ id[p][1] = space[p] /\ id[p][2] = next[p] - 1
<1>1. /\ id[p] = <<space[p], next[p] - 1>>
      /\ next[p] \in 1..MaxId + 1 /\ next[p] > 1 /\ space[p] \in Spaces
  BY DEF TypeOK, AllocatedOK
<1>2. next[p] - 1 \in 1..MaxId
  BY <1>1, Bound
<1> QED
  BY <1>1, <1>2 DEF Ids

\* A commit of p, and what holds after it.
Commit(p) ==
    /\ rows' \in [Ids -> Row \cup {NoRow}]
    /\ \A i \in Ids : CommittedRow(p, i, rows'[i])
    /\ pc[p] \notin NotUp

\* What is stored stays stored, with its type and its owner.
LEMMA CommitKeeps ==
    ASSUME IInv, NEW p \in Procs, Commit(p), NEW i \in Ids, rows[i] # NoRow
    PROVE  /\ rows'[i] # NoRow
           /\ rows'[i].type = rows[i].type /\ rows'[i].by = rows[i].by
<1>1. \A e \in tx[p] : e[1] # i
  BY DEF IInv, InsertionsOK
<1> QED
  BY <1>1, RowIsNot DEF Commit, CommittedRow

\* What was not and is, p has inserted.
LEMMA CommitStores ==
    ASSUME IInv, NEW p \in Procs, Commit(p), NEW i \in Ids, rows[i] = NoRow
    PROVE  \/ rows'[i] = NoRow /\ \A e \in tx[p] : e[1] # i
           \/ \E e \in tx[p] : /\ e[1] = i /\ e[1][1] = space[p] /\ e[1][2] < next[p]
                               /\ rows'[i] \in Row
                               /\ rows'[i].type = e[2] /\ rows'[i].by = p
                               /\ rows'[i].text # e[2] => rows'[i].text = "Event" /\ i \in list[p]
<1>1. CommittedRow(p, i, rows'[i])
  BY DEF Commit
<1>2. CASE \A e \in tx[p] : e[1] # i
  BY <1>1, <1>2, RowIsNot DEF CommittedRow
<1>3. ASSUME NEW e \in tx[p], e[1] = i, rows'[i] \in Row, rows'[i].type = e[2],
             rows'[i].by = p,
             rows'[i].text # e[2] => rows'[i].text = "Event" /\ i \in list[p]
      PROVE  e[1][1] = space[p] /\ e[1][2] < next[p]
  BY DEF IInv, InsertionsOK
<1> QED
  BY <1>1, <1>2, <1>3 DEF CommittedRow

\* A commit leaves the rows of registered players to them.
LEMMA CommitOwners ==
    ASSUME IInv, NEW p \in Procs, Commit(p), NEW r \in registered
    PROVE  rows'[r[1]].type = "Player" /\ rows'[r[1]].by = r[2]
<1>1. r[1] \in Ids /\ rows[r[1]].type = "Player" /\ rows[r[1]].by = r[2]
  BY DEF IInv, TypeOK, OneOwner
<1>2. rows[r[1]] # NoRow
  BY <1>1 DEF NoRow
<1> QED
  BY <1>1, <1>2, CommitKeeps

\* An event stored by a commit, or before it, has the text of an event.
LEMMA CommitEvents ==
    ASSUME IInv, NEW p \in Procs, Commit(p)
    PROVE  EventsLoad'
<1> SUFFICES ASSUME NEW i \in Ids, rows'[i] # NoRow, rows'[i].type = "Event"
             PROVE  rows'[i].text = "Event"
  BY DEF EventsLoad, Stored
<1>1. CASE rows[i] = NoRow
  BY <1>1, CommitStores
<1>2. CASE rows[i] # NoRow
  <2>1. rows[i].type = "Event" /\ rows[i].text = "Event"
    BY <1>2, CommitKeeps DEF IInv, EventsLoad, Stored
  <2>2. <<i, p>> \notin registered
    BY <2>1 DEF IInv, OneOwner
  <2>3. \A e \in tx[p] : e[1] # i
    BY <1>2 DEF IInv, InsertionsOK
  <2> QED
    BY <2>1, <2>2, <2>3 DEF Commit, CommittedRow
<1> QED
  BY <1>1, <1>2

\* Another's transaction, and lists, are left alone.
LEMMA CommitOthers ==
    ASSUME IInv, NEW p \in Procs, Commit(p), NEW q \in Procs, q # p
    PROVE  \A e \in tx[q] : rows'[e[1]] = NoRow
<1> SUFFICES ASSUME NEW e \in tx[q]
             PROVE  rows'[e[1]] = NoRow
  OBVIOUS
<1>1. e[1] \in Ids /\ rows[e[1]] = NoRow /\ \A f \in tx[p] : f[1] # e[1]
  BY DEF IInv, TypeOK, InsertionsOK
<1> QED
  BY <1>1, CommitStores

\* Without sharing a text is saved over no other object's, and a list stays one
\* of events.
LEMMA CommitApart ==
    ASSUME IInv, NEW p \in Procs, Commit(p), ~Shared
    PROVE  /\ \A i \in Ids : rows'[i] # NoRow => rows'[i].text = rows'[i].type
           /\ \A q \in Procs : \A i \in list[q] :
                 rows'[i].type = "Event" \/ (rows'[i] = NoRow /\ Own(q, i))
           /\ \A i \in Ids : rows'[i] # NoRow => i[2] < counter[i[1]]
           /\ \A q \in Procs : pc[q] = "alloc" => rows'[id[q]] = NoRow
<1>1. RangesOK /\ ListsOK
  BY DEF IInv, ApartInv
<1>2. counter[space[p]] = next[p]
  BY <1>1 DEF RangesOK, Commit
<1>3. ASSUME NEW i \in Ids, rows'[i] # NoRow
      PROVE  rows'[i].text = rows'[i].type
  <2>1. CASE rows[i] = NoRow
    <3>1. PICK e \in tx[p] :
             /\ e[1] = i /\ rows'[i].type = e[2]
             /\ rows'[i].text # e[2] => rows'[i].text = "Event" /\ i \in list[p]
      BY <1>3, <2>1, CommitStores
    <3>2. i \in list[p] => e[2] = "Event"
      BY <1>1, <2>1, <3>1 DEF ListsOK, Own, NoRow
    <3> QED
      BY <3>1, <3>2
  <2>2. CASE rows[i] # NoRow
    <3>1. rows[i].text = rows[i].type
      BY <2>2 DEF IInv, Intact, Stored
    <3>2. i \in list[p] => rows[i].type = "Event"
      BY <1>1, <2>2 DEF ListsOK, Own
    <3>3. <<i, p>> \in registered => rows[i].type = "Player"
      BY DEF IInv, OneOwner
    <3>4. \A e \in tx[p] : e[1] # i
      BY <2>2 DEF IInv, InsertionsOK
    <3> QED
      BY <3>1, <3>2, <3>3, <3>4 DEF Commit, CommittedRow
  <2> QED
    BY <2>1, <2>2
<1>4. ASSUME NEW q \in Procs, NEW i \in list[q]
      PROVE  rows'[i].type = "Event" \/ (rows'[i] = NoRow /\ Own(q, i))
  <2>1. i \in Ids
    BY DEF IInv, TypeOK
  <2>2. CASE rows[i] # NoRow
    BY <1>1, <2>1, <2>2, CommitKeeps DEF ListsOK, Own
  <2>3. CASE rows[i] = NoRow
    <3>1. Own(q, i)
      BY <1>1, <2>3 DEF ListsOK, NoRow
    <3>2. CASE rows'[i] = NoRow
      BY <3>1, <3>2
    <3>3. CASE rows'[i] # NoRow
      <4>1. PICK e \in tx[p] : e[1] = i /\ e[1][1] = space[p] /\ rows'[i].type = e[2]
        BY <2>1, <2>3, <3>3, CommitStores
      <4>2. q = p
        BY <3>1, <4>1 DEF Own, Shared
      <4> QED
        BY <3>1, <4>1, <4>2 DEF Own
    <3> QED
      BY <3>2, <3>3
  <2> QED
    BY <2>2, <2>3
<1>5. ASSUME NEW i \in Ids, rows'[i] # NoRow
      PROVE  i[2] < counter[i[1]]
  <2>1. CASE rows[i] # NoRow
    BY <1>1, <2>1 DEF RangesOK, Stored
  <2>2. CASE rows[i] = NoRow
    BY <1>2, <1>5, <2>2, CommitStores
  <2> QED
    BY <2>1, <2>2
<1>6. ASSUME NEW q \in Procs, pc[q] = "alloc"
      PROVE  rows'[id[q]] = NoRow
  <2>1. id[q] = <<space[q], next[q] - 1>>
    BY <1>6 DEF IInv, AllocatedOK, Working
  <2>2. id[q] \in Ids /\ rows[id[q]] = NoRow
    <3>1. id[q] \in Ids
      BY <1>6, HandedOut DEF IInv, Working
    <3> QED
      BY <1>1, <1>6, <3>1 DEF RangesOK, Stored
  <2>3. \A e \in tx[p] : e[1] # id[q]
    <3>1. CASE q = p
      BY <1>6, <3>1 DEF IInv, InsertionsOK
    <3>2. CASE q # p
      BY <2>1, <3>2 DEF IInv, InsertionsOK, Shared
    <3> QED
      BY <3>1, <3>2
  <2> QED
    BY <2>2, <2>3, CommitStores
<1> QED
  BY <1>3, <1>4, <1>5, <1>6

-----------------------------------------------------------------------------
(* The actions that write no row.                                          *)

\* With the rows as they were, what is said of them alone still holds.
LEMMA SameRows ==
    ASSUME IInv, UNCHANGED <<rows, given>>,
           \A r \in registered' : r \in registered
    PROVE  /\ OneOwner' /\ EventsLoad' /\ Intact'
           /\ Shared' <=> Shared
           /\ Stored' = Stored
BY DEF IInv, OneOwner, EventsLoad, Intact, Shared, Stored, given

\* The other processes' variables are as they were.
Others(p) ==
    \A q \in Procs \ {p} :
        /\ pc'[q] = pc[q] /\ next'[q] = next[q] /\ id'[q] = id[q] /\ want'[q] = want[q]
        /\ tx'[q] = tx[q] /\ list'[q] = list[q]

\* What the invariant says of one process and its range.
Alone(p) ==
    /\ pc[p] \notin NotUp => counter[space[p]] = next[p]
    /\ pc[p] = "alloc" => id[p] \notin Stored
    /\ \A i \in list[p] : rows[i].type = "Event" \/ Own(p, i)

\* A step of p that leaves the rows, and the counters of the others' ranges.
LEMMA ApartStep ==
    ASSUME IInv, NEW p \in Procs, Others(p), UNCHANGED <<rows, given>>,
           ~Shared => turned' = turned,
           ~Shared => \A q \in Procs \ {p} : counter'[space[q]] = counter[space[q]],
           ~Shared => \A i \in Stored : i[2] < counter'[i[1]],
           ~Shared => Alone(p)'
    PROVE  ApartInv'
<1> SUFFICES ASSUME ~Shared
             PROVE  turned' = {} /\ RangesOK' /\ ListsOK'
  BY DEF ApartInv, Shared, given
<1>1. turned = {} /\ RangesOK /\ ListsOK
  BY DEF IInv, ApartInv
<1>2. Stored' = Stored
  BY DEF Stored
<1>3. ASSUME NEW q \in Procs
      PROVE  /\ pc'[q] \notin NotUp => counter'[space'[q]] = next'[q]
             /\ pc'[q] = "alloc" => id'[q] \notin Stored'
             /\ \A i \in list'[q] : rows'[i].type = "Event" \/ Own(q, i)'
  <2>1. CASE q = p
    BY <2>1 DEF Alone
  <2>2. CASE q # p
    <3>1. \A i \in list'[q] : rows'[i].type = "Event" \/ Own(q, i)'
      BY <1>1, <2>2 DEF Others, ListsOK, Own, given
    <3>2. pc'[q] \notin NotUp => counter'[space'[q]] = next'[q]
      BY <1>1, <2>2 DEF Others, RangesOK, given
    <3>3. pc'[q] = "alloc" => id'[q] \notin Stored'
      BY <1>1, <1>2, <2>2 DEF Others, RangesOK
    <3> QED
      BY <3>1, <3>2, <3>3
  <2> QED
    BY <2>1, <2>2
<1>4. RangesOK'
  BY <1>2, <1>3 DEF RangesOK
<1>5. ListsOK'
  BY <1>3 DEF ListsOK
<1> QED
  BY <1>1, <1>4, <1>5

\* A process starts: its list is of events that are stored.
LEMMA BootStep ==
    ASSUME IInv, NEW p \in Procs, Boot(p) \/ Created(p)
    PROVE  IInv'
<1> USE Bound, Nobody
<1>1. /\ pc[p] \in NotUp /\ pc' = [pc EXCEPT ![p] = "up"]
      /\ list' = [list EXCEPT ![p] = loadEvents(p)]
      /\ UNCHANGED <<given, rows, id, want, tx, history>>
  BY DEF Boot, Created, Load, NotUp
<1>2. PICK n \in Nat : /\ n > 0 /\ n <= MaxId + 1
                       /\ next' = [next EXCEPT ![p] = n]
                       /\ counter' = [counter EXCEPT ![space[p]] = n]
                       /\ counter[space[p]] \in {0, n}
  <2>1. space[p] \in Spaces /\ counter \in [Spaces -> 0..MaxId + 1]
    BY DEF IInv, TypeOK
  <2>2. CASE Boot(p)
    <3>1. /\ counter[space[p]] \in Nat /\ counter[space[p]] > 0
          /\ counter[space[p]] <= MaxId + 1
      BY <2>1, <2>2 DEF Boot
    <3>2. counter' = [counter EXCEPT ![space[p]] = counter[space[p]]]
      BY <2>1, <2>2 DEF Boot
    <3>3. next' = [next EXCEPT ![p] = counter[space[p]]]
      BY <2>2 DEF Boot
    <3> QED
      BY <3>1, <3>2, <3>3
  <2>3. CASE Created(p)
    <3>1. /\ counter[space[p]] = 0 /\ counter' = [counter EXCEPT ![space[p]] = 1]
          /\ next' = [next EXCEPT ![p] = 1]
      BY <2>3 DEF Created
    <3>2. 1 \in Nat /\ 1 > 0 /\ 1 <= MaxId + 1 /\ counter[space[p]] \in {0, 1}
      BY <3>1
    <3> WITNESS 1 \in Nat
    <3> QED
      BY <3>1, <3>2
  <2> QED
    BY <2>2, <2>3
<1>3. loadEvents(p) \subseteq Ids /\ \A i \in loadEvents(p) : rows[i].type = "Event"
  BY DEF loadEvents, Stored
<1>4. cache' \in [Procs -> [Ids -> Types \cup {"none"}]]
  <2> DEFINE loaded == [i \in Ids |-> IF i \in loadEvents(p) THEN "Event" ELSE "none"]
  <2>1. loaded \in [Ids -> Types \cup {"none"}]
    BY DEF Types
  <2>2. cache' = [cache EXCEPT ![p] = loaded]
    BY DEF Boot, Created, Load
  <2>3. cache \in [Procs -> [Ids -> Types \cup {"none"}]]
    BY DEF IInv, TypeOK
  <2> HIDE DEF loaded
  <2> QED
    BY <2>1, <2>2, <2>3
<1>5. TypeOK'
  <2>1. /\ pc' \in [Procs -> {"down", "creating", "up", "alloc", "insert", "taken"}]
        /\ list' \in [Procs -> SUBSET Ids]
    BY <1>1, <1>3 DEF IInv, TypeOK
  <2>2. next' \in [Procs -> 1..MaxId + 1] /\ counter' \in [Spaces -> 0..MaxId + 1]
    BY <1>2 DEF IInv, TypeOK
  <2> QED
    BY <1>1, <1>4, <2>1, <2>2 DEF IInv, TypeOK, given, history
<1>6. AllocatedOK'
  BY <1>1, <1>2 DEF IInv, AllocatedOK, TypeOK, Working, given
<1>7. InsertionsOK'
  BY <1>1, <1>2 DEF IInv, InsertionsOK, TypeOK, NotUp, given
<1>8. Others(p)
  BY <1>1, <1>2 DEF Others, IInv, TypeOK
<1>9. ApartInv'
  <2>1. Alone(p)'
    BY <1>1, <1>2, <1>3 DEF Alone, IInv, TypeOK, given
  <2>2. ~Shared => \A q \in Procs \ {p} : counter'[space[q]] = counter[space[q]]
    BY <1>2 DEF Shared, IInv, TypeOK
  <2>3. ~Shared => \A i \in Stored : i[2] < counter'[i[1]]
    BY <1>2 DEF IInv, ApartInv, RangesOK, TypeOK, Stored, Ids
  <2> QED
    BY <1>1, <1>8, <2>1, <2>2, <2>3, ApartStep DEF history
<1>10. OneOwner' /\ EventsLoad' /\ Intact'
  BY <1>1, SameRows DEF history
<1> QED
  BY <1>5, <1>6, <1>7, <1>9, <1>10 DEF IInv

\* A process ends, or gives up starting: nothing of it is left.
LEMMA EndStep ==
    ASSUME IInv, NEW p \in Procs, Create(p) \/ NotCreated(p) \/ Crash(p)
    PROVE  IInv'
<1>1. /\ UNCHANGED <<given, counter, rows, next, want, history>>
      /\ \E w \in NotUp : pc' = [pc EXCEPT ![p] = w]
      /\ \/ UNCHANGED <<id, tx, cache, list>> /\ pc[p] \in NotUp
         \/ /\ id' = [id EXCEPT ![p] = NULL] /\ tx' = [tx EXCEPT ![p] = {}]
            /\ cache' = [cache EXCEPT ![p] = [i \in Ids |-> "none"]]
            /\ list' = [list EXCEPT ![p] = {}]
  BY DEF Create, NotCreated, Crash, Gone, NotUp
<1>2. PICK w \in NotUp : pc' = [pc EXCEPT ![p] = w]
  BY <1>1
<1>3. /\ pc' \in [Procs -> {"down", "creating", "up", "alloc", "insert", "taken"}]
      /\ id' \in [Procs -> Ids \cup {NULL}] /\ tx' \in [Procs -> SUBSET (Ids \X Types)]
      /\ list' \in [Procs -> SUBSET Ids]
      /\ tx'[p] = {} /\ list'[p] = {}
  <2>1. TypeOK /\ InsertionsOK
    BY DEF IInv
  <2>2. pc' \in [Procs -> {"down", "creating", "up", "alloc", "insert", "taken"}]
    BY <1>2, <2>1 DEF TypeOK, NotUp
  <2>3. id' \in [Procs -> Ids \cup {NULL}]
    BY <1>1, <2>1 DEF TypeOK
  <2>4. tx' \in [Procs -> SUBSET (Ids \X Types)] /\ tx'[p] = {}
    BY <1>1, <2>1 DEF TypeOK, NotUp, InsertionsOK
  <2>5. list' \in [Procs -> SUBSET Ids] /\ list'[p] = {}
    <3>1. list \in [Procs -> SUBSET Ids] /\ (pc[p] \in NotUp => list[p] = {})
      BY <2>1 DEF TypeOK, NotUp, InsertionsOK
    <3>2. (list' = list /\ pc[p] \in NotUp) \/ list' = [list EXCEPT ![p] = {}]
      BY <1>1
    <3> QED
      BY <3>1, <3>2
  <2> QED
    BY <2>2, <2>3, <2>4, <2>5
<1>4. cache' \in [Procs -> [Ids -> Types \cup {"none"}]]
  BY <1>1 DEF IInv, TypeOK
<1>5. Others(p)
  BY <1>1, <1>2 DEF Others, IInv, TypeOK
<1>6. TypeOK'
  BY <1>1, <1>3, <1>4 DEF IInv, TypeOK, given, history
<1>7. AllocatedOK'
  BY <1>1, <1>2, <1>5 DEF IInv, AllocatedOK, TypeOK, Working, NotUp, given, Others
<1>8. InsertionsOK'
  BY <1>1, <1>3, <1>5 DEF IInv, InsertionsOK, Others, given
<1>9. ApartInv'
  <2>1. Alone(p)'
    BY <1>2, <1>3 DEF Alone, NotUp, IInv, TypeOK
  <2>2. ~Shared => \A i \in Stored : i[2] < counter'[i[1]]
    BY <1>1 DEF IInv, ApartInv, RangesOK
  <2> QED
    BY <1>1, <1>5, <2>1, <2>2, ApartStep DEF history
<1>10. OneOwner' /\ EventsLoad' /\ Intact'
  BY <1>1, SameRows DEF history
<1> QED
  BY <1>6, <1>7, <1>8, <1>9, <1>10 DEF IInv

\* An id is handed out: it is new if no other process has its range.
LEMMA AllocStep ==
    ASSUME IInv, NEW p \in Procs, NEW t \in Types, Alloc(p, t)
    PROVE  IInv'
<1> USE Bound, Nobody
<1>1. /\ pc[p] = "up" /\ next[p] <= MaxId /\ next[p] \in Nat /\ next[p] > 0
      /\ space[p] \in Spaces
      /\ id' = [id EXCEPT ![p] = <<space[p], next[p]>>]
      /\ want' = [want EXCEPT ![p] = t]
      /\ next' = [next EXCEPT ![p] = next[p] + 1]
      /\ counter' = [counter EXCEPT ![space[p]] = next[p] + 1]
      /\ pc' = [pc EXCEPT ![p] = "alloc"]
      /\ UNCHANGED <<given, rows, tx, cache, list, history>>
  BY DEF Alloc, NewId, saved, IInv, TypeOK
<1>2. TypeOK'
  <2>1. <<space[p], next[p]>> \in Ids
    BY <1>1 DEF Ids
  <2>2. id' \in [Procs -> Ids \cup {NULL}] /\ want' \in [Procs -> Types]
    BY <1>1, <2>1 DEF IInv, TypeOK
  <2>3. next' \in [Procs -> 1..MaxId + 1] /\ counter' \in [Spaces -> 0..MaxId + 1]
    BY <1>1 DEF IInv, TypeOK
  <2>4. pc' \in [Procs -> {"down", "creating", "up", "alloc", "insert", "taken"}]
    BY <1>1 DEF IInv, TypeOK
  <2> QED
    BY <1>1, <2>2, <2>3, <2>4 DEF IInv, TypeOK, given, history
<1>3. Others(p)
  BY <1>1 DEF Others, IInv, TypeOK
<1>4. /\ pc'[p] = "alloc" /\ next'[p] = next[p] + 1 /\ id'[p] = <<space[p], next[p]>>
      /\ counter'[space[p]] = next'[p]
  BY <1>1 DEF IInv, TypeOK
<1>5. AllocatedOK'
  BY <1>1, <1>3, <1>4 DEF IInv, AllocatedOK, Others, Working, given
<1>6. InsertionsOK'
  <2>1. \A q \in Procs : \A e \in tx[q] :
           /\ rows[e[1]] = NoRow
           /\ e[1][1] = space[q] /\ e[1][2] < next'[q]
           /\ pc'[q] \in {"alloc", "taken"} => e[1] # id'[q]
    <3> SUFFICES ASSUME NEW q \in Procs, NEW e \in tx[q]
                 PROVE  /\ e[1][2] < next'[q]
                        /\ pc'[q] \in {"alloc", "taken"} => e[1] # id'[q]
      BY DEF IInv, InsertionsOK
    <3>1. e[1][2] < next[q] /\ e[1] \in Ids
      BY DEF IInv, InsertionsOK, TypeOK
    <3>2. CASE q = p
      BY <1>1, <1>4, <3>1, <3>2 DEF Ids
    <3>3. CASE q # p
      BY <1>3, <3>3 DEF IInv, InsertionsOK, Others
    <3> QED
      BY <3>2, <3>3
  <2>2. \A q \in Procs : pc'[q] \in NotUp => pc[q] \in NotUp
    BY <1>3, <1>4 DEF Others, NotUp
  <2> QED
    BY <1>1, <2>1, <2>2 DEF IInv, InsertionsOK, given
<1>7. ApartInv'
  <2>1. ASSUME ~Shared
        PROVE  Alone(p)' /\ \A i \in Stored : i[2] < counter'[i[1]]
    <3>1. RangesOK /\ ListsOK /\ counter[space[p]] = next[p]
      BY <1>1, <2>1 DEF IInv, ApartInv, RangesOK, NotUp
    <3>2. \A i \in Stored : i[2] < counter[i[1]] /\ i \in Ids
      BY <3>1 DEF RangesOK, Stored
    <3>3. \A i \in Stored : i[2] < counter'[i[1]]
      BY <1>1, <3>1, <3>2 DEF IInv, TypeOK, Ids
    <3>4. id'[p] \notin Stored'
      BY <1>1, <1>4, <3>1, <3>2 DEF Stored
    <3>5. ASSUME NEW i \in list[p]
          PROVE  rows[i].type = "Event" \/ Own(p, i)'
      <4>1. CASE Own(p, i)
        <5>1. i[2] # next[p] /\ i[2] < next[p] + 1
          <6>1. i \in Ids /\ i[2] < next[p]
            BY <4>1 DEF IInv, TypeOK, Own
          <6> QED
            BY <1>1, <6>1 DEF Ids
        <5> QED
          BY <1>1, <1>4, <4>1, <5>1 DEF Own, given
      <4> QED
        BY <3>1, <4>1 DEF ListsOK
    <3> QED
      BY <1>1, <1>4, <3>3, <3>4, <3>5 DEF Alone, given
  <2>2. ~Shared => \A q \in Procs \ {p} : counter'[space[q]] = counter[space[q]]
    BY <1>1 DEF Shared, IInv, TypeOK
  <2> QED
    BY <1>1, <1>3, <2>1, <2>2, ApartStep DEF history
<1>8. OneOwner' /\ EventsLoad' /\ Intact'
  BY <1>1, SameRows DEF history
<1> QED
  BY <1>2, <1>5, <1>6, <1>7, <1>8 DEF IInv

\* An id refused, or waited for: two processes have its range.
LEMMA TurnedStep ==
    ASSUME IInv, NEW p \in Procs, Waits(p) \/ Taken(p)
    PROVE  IInv'
<1> USE Bound, Nobody
<1>1. /\ pc[p] = "alloc" /\ turned' = turned \cup {p}
      /\ pc' = pc \/ pc' = [pc EXCEPT ![p] = "taken"]
      /\ UNCHANGED <<given, counter, rows, next, id, want, tx, cache, list, registered>>
  BY DEF Waits, Taken, proc
<1>2. Shared
  <2>1. id[p] \in Ids /\ id[p][1] = space[p]
    BY <1>1, HandedOut DEF IInv, Working
  <2>2. CASE Waits(p)
    <3>1. PICK q \in Procs \ {p}, t \in Types : <<id[p], t>> \in tx[q]
      BY <2>2 DEF Waits, Locked
    <3>2. <<id[p], t>>[1][1] = space[q]
      BY <3>1 DEF IInv, InsertionsOK
    <3> QED
      BY <2>1, <3>1, <3>2 DEF Shared
  <2>3. CASE Taken(p)
    BY <1>1, <2>3 DEF Taken, taken, IInv, ApartInv, RangesOK
  <2> QED
    BY <2>2, <2>3
<1>3. Others(p) /\ pc'[p] \in {"alloc", "taken"}
  BY <1>1 DEF Others, IInv, TypeOK
<1>4. TypeOK'
  BY <1>1 DEF IInv, TypeOK, given
<1>5. AllocatedOK' /\ InsertionsOK'
  <2>1. AllocatedOK'
    BY <1>1, <1>3 DEF IInv, AllocatedOK, Others, Working, given
  <2>2. \A q \in Procs : /\ pc'[q] \in NotUp => pc[q] \in NotUp
                         /\ pc'[q] \in {"alloc", "taken"} => pc[q] \in {"alloc", "taken"}
    BY <1>1, <1>3 DEF Others, NotUp
  <2>3. InsertionsOK'
    BY <1>1, <2>2 DEF IInv, InsertionsOK, given
  <2> QED
    BY <2>1, <2>3
<1>6. OneOwner' /\ EventsLoad' /\ Intact' /\ Shared'
  BY <1>1, <1>2, SameRows
<1> QED
  BY <1>4, <1>5, <1>6 DEF IInv, ApartInv

\* An object is inserted: nobody has stored it, and nobody else has inserted it.
LEMMA InsertStep ==
    ASSUME IInv, NEW p \in Procs, Insert(p)
    PROVE  IInv'
<1> USE Bound, Nobody
<1> DEFINE new == <<id[p], want[p]>>
<1>1. /\ pc[p] = "alloc" /\ ~Locked(p, id[p]) /\ ~taken(id[p])
      /\ tx' = [tx EXCEPT ![p] = tx[p] \cup {new}]
      /\ cache' = [cache EXCEPT ![p][id[p]] = want[p]]
      /\ pc' = [pc EXCEPT ![p] = "insert"]
      /\ UNCHANGED <<given, counter, rows, next, id, want, list, history>>
  BY DEF Insert
<1>2. /\ id[p] \in Ids /\ id[p][1] = space[p] /\ id[p][2] = next[p] - 1
      /\ want[p] \in Types
  BY <1>1, HandedOut DEF IInv, Working, TypeOK
<1>3. Others(p) /\ pc'[p] = "insert" /\ tx'[p] = tx[p] \cup {new}
  BY <1>1 DEF Others, IInv, TypeOK
<1>3a. \A q \in Procs \ {p} : pc'[q] = pc[q] /\ tx'[q] = tx[q]
  BY <1>1 DEF IInv, TypeOK
<1>4. TypeOK'
  <2>1. /\ pc' \in [Procs -> {"down", "creating", "up", "alloc", "insert", "taken"}]
        /\ tx' \in [Procs -> SUBSET (Ids \X Types)]
    BY <1>1, <1>2 DEF IInv, TypeOK
  <2>2. cache' \in [Procs -> [Ids -> Types \cup {"none"}]]
    <3>1. cache[p] \in [Ids -> Types \cup {"none"}]
      BY DEF IInv, TypeOK
    <3>2. [cache[p] EXCEPT ![id[p]] = want[p]] \in [Ids -> Types \cup {"none"}]
      BY <1>2, <3>1
    <3>3. cache' = [cache EXCEPT ![p] = [cache[p] EXCEPT ![id[p]] = want[p]]]
      BY <1>1
    <3> QED
      BY <3>2, <3>3 DEF IInv, TypeOK
  <2> QED
    BY <1>1, <2>1, <2>2 DEF IInv, TypeOK, given, history
<1>5. AllocatedOK'
  <2>1. \A q \in Procs : pc'[q] \in Working => pc[q] \in Working
    BY <1>1, <1>3a DEF Working
  <2>2. \A q \in Procs : pc'[q] = "insert" => <<id[q], want[q]>> \in tx'[q]
    BY <1>3, <1>3a DEF IInv, AllocatedOK
  <2> QED
    BY <1>1, <2>1, <2>2 DEF IInv, AllocatedOK, given
<1>6. rows[id[p]] = NoRow /\ \A q \in Procs \ {p} : \A f \in tx[q] : f[1] # id[p]
  <2>1. rows[id[p]] = NoRow
    BY <1>1, <1>2 DEF taken, Stored
  <2>2. ASSUME NEW q \in Procs \ {p}, NEW f \in tx[q], f[1] = id[p]
        PROVE  FALSE
    <3>1. f = <<f[1], f[2]>> /\ f[2] \in Types
      BY DEF IInv, TypeOK
    <3> QED
      BY <1>1, <2>2, <3>1 DEF Locked
  <2> QED
    BY <2>1, <2>2
<1>7. InsertionsOK'
  <2>1. \A q \in Procs : pc'[q] \in NotUp => tx'[q] = {} /\ list'[q] = {}
    BY <1>1, <1>3, <1>3a DEF IInv, InsertionsOK, NotUp
  <2>2. ASSUME NEW q \in Procs, NEW e \in tx'[q]
        PROVE  /\ rows[e[1]] = NoRow
               /\ e[1][1] = space[q] /\ e[1][2] < next[q]
               /\ pc'[q] \in {"alloc", "taken"} => e[1] # id[q]
    <3>1. CASE q # p
      BY <1>3a, <3>1 DEF IInv, InsertionsOK
    <3>2. CASE q = p /\ e \in tx[p]
      BY <1>3, <3>2 DEF IInv, InsertionsOK
    <3>3. CASE q = p /\ e = new
      <4>1. next[p] \in Nat
        BY DEF IInv, TypeOK
      <4>2. next[p] - 1 < next[p]
        BY <4>1
      <4> QED
        BY <1>2, <1>3, <1>6, <3>3, <4>2
    <3> QED
      BY <1>3, <3>1, <3>2, <3>3
  <2>3. ASSUME NEW q \in Procs, NEW r \in Procs, NEW e \in tx'[q], NEW f \in tx'[r], e[1] = f[1]
        PROVE  q = r /\ e = f
    <3>1. e \in tx[q] \/ (q = p /\ e = new)
      BY <1>3, <1>3a
    <3>2. f \in tx[r] \/ (r = p /\ f = new)
      BY <1>3, <1>3a
    <3>3. \A h \in tx[p] : h[1] # id[p]
      BY <1>1 DEF IInv, InsertionsOK
    <3>4. \A s \in Procs : \A h \in tx[s] : h[1] # id[p]
      BY <1>6, <3>3
    <3>5. new[1] = id[p]
      OBVIOUS
    <3> QED
      BY <2>3, <3>1, <3>2, <3>4, <3>5 DEF IInv, InsertionsOK
  <2> QED
    BY <1>1, <2>1, <2>2, <2>3 DEF InsertionsOK, given
<1>8. ApartInv'
  <2>1. ASSUME ~Shared
        PROVE  Alone(p)'
    <3>1. RangesOK /\ ListsOK
      BY <2>1 DEF IInv, ApartInv
    <3>2. counter'[space'[p]] = next'[p]
      BY <1>1, <3>1 DEF RangesOK, NotUp, given
    <3>3. ASSUME NEW i \in list[p], ~(rows[i].type = "Event")
          PROVE  Own(p, i)'
      <4>1. Own(p, i)
        BY <3>1, <3>3 DEF ListsOK
      <4>2. i # id[p]
        BY <1>1, <4>1 DEF Own, Working
      <4> QED
        BY <1>1, <1>3, <4>1, <4>2 DEF Own, given, Working
    <3> QED
      BY <1>1, <1>3, <3>2, <3>3 DEF Alone
  <2>2. ~Shared => \A i \in Stored : i[2] < counter'[i[1]]
    BY <1>1 DEF IInv, ApartInv, RangesOK
  <2> QED
    BY <1>1, <1>3, <2>1, <2>2, ApartStep DEF history
<1>9. OneOwner' /\ EventsLoad' /\ Intact'
  BY <1>1, SameRows DEF history
<1> QED
  BY <1>4, <1>5, <1>7, <1>8, <1>9 DEF IInv

\* A handler gives up, and its transaction with it.
LEMMA RefuseStep ==
    ASSUME IInv, NEW p \in Procs, Refuse(p)
    PROVE  IInv'
<1> USE Bound, Nobody
<1>1. /\ pc[p] \in {"taken", "insert", "up"}
      /\ tx' = [tx EXCEPT ![p] = {}] /\ id' = [id EXCEPT ![p] = NULL]
      /\ pc' = [pc EXCEPT ![p] = "up"]
      /\ UNCHANGED <<given, counter, rows, next, want, cache, list, history>>
  BY DEF Refuse
<1>2. Others(p) /\ pc'[p] = "up" /\ tx'[p] = {}
  BY <1>1 DEF Others, IInv, TypeOK
<1>3. TypeOK'
  <2>1. /\ pc' \in [Procs -> {"down", "creating", "up", "alloc", "insert", "taken"}]
        /\ id' \in [Procs -> Ids \cup {NULL}]
        /\ tx' \in [Procs -> SUBSET (Ids \X Types)]
    BY <1>1 DEF IInv, TypeOK
  <2> QED
    BY <1>1, <2>1 DEF IInv, TypeOK, given, history
<1>4. AllocatedOK'
  BY <1>1, <1>2 DEF IInv, AllocatedOK, Others, Working, given
<1>5. InsertionsOK'
  BY <1>1, <1>2 DEF IInv, InsertionsOK, Others, NotUp, given
<1>6. ApartInv'
  <2>1. ~Shared => Alone(p)'
    BY <1>1, <1>2 DEF Alone, IInv, ApartInv, RangesOK, ListsOK, Own, NotUp, Working, given
  <2>2. ~Shared => \A i \in Stored : i[2] < counter'[i[1]]
    BY <1>1 DEF IInv, ApartInv, RangesOK
  <2> QED
    BY <1>1, <1>2, <2>1, <2>2, ApartStep DEF history
<1>7. OneOwner' /\ EventsLoad' /\ Intact'
  BY <1>1, SameRows DEF history
<1> QED
  BY <1>3, <1>4, <1>5, <1>6, <1>7 DEF IInv

-----------------------------------------------------------------------------
(* The actions that write rows.                                            *)

\* new-event saves its list while its own transaction is open.
LEMMA FinishEventStep ==
    ASSUME IInv, NEW p \in Procs, FinishEvent(p)
    PROVE  IInv'
<1> USE Bound, Nobody
<1>1. /\ pc[p] = "insert" /\ want[p] = "Event"
      /\ list' = [list EXCEPT ![p] = list[p] \cup {id[p]}]
      /\ rows' = saveEvents(rows, list'[p])
      /\ id' = [id EXCEPT ![p] = NULL]
      /\ pc' = [pc EXCEPT ![p] = "up"]
      /\ UNCHANGED <<given, counter, next, want, tx, cache, history>>
  BY DEF FinishEvent
<1>2. /\ id[p] \in Ids /\ id[p][1] = space[p] /\ id[p][2] = next[p] - 1
      /\ <<id[p], "Event">> \in tx[p] /\ rows[id[p]] = NoRow
  <2>1. id[p] \in Ids /\ id[p][1] = space[p] /\ id[p][2] = next[p] - 1
    BY <1>1, HandedOut DEF IInv, Working
  <2>2. <<id[p], "Event">> \in tx[p]
    BY <1>1 DEF IInv, AllocatedOK
  <2>3. rows[<<id[p], "Event">>[1]] = NoRow
    BY <2>2 DEF IInv, InsertionsOK
  <2> QED
    BY <2>1, <2>2, <2>3
<1>3. /\ pc'[p] = "up" /\ list'[p] = list[p] \cup {id[p]}
      /\ \A q \in Procs \ {p} : pc'[q] = pc[q] /\ id'[q] = id[q] /\ list'[q] = list[q]
  BY <1>1 DEF IInv, TypeOK
<1>4. ASSUME NEW i \in Ids
      PROVE  /\ rows'[i] \in Row \cup {NoRow}
             /\ rows[i] = NoRow <=> rows'[i] = NoRow
             /\ rows[i] # NoRow =>
                    /\ rows'[i].type = rows[i].type /\ rows'[i].by = rows[i].by
                    /\ \/ rows'[i].text = rows[i].text
                       \/ rows'[i].text = "Event" /\ i \in list[p]
  <2>1. rows[i] \in Row \cup {NoRow}
    BY DEF IInv, TypeOK
  <2>2. CASE i \in list'[p] /\ rows[i] # NoRow
    <3>1. rows'[i] = [rows[i] EXCEPT !.text = "Event"]
      BY <1>1, <2>2 DEF saveEvents
    <3>2. rows[i] \in Row /\ "Event" \in Types
      BY <2>1, <2>2 DEF Types
    <3>3. /\ rows'[i] \in Row /\ rows'[i].type = rows[i].type
          /\ rows'[i].by = rows[i].by /\ rows'[i].text = "Event"
      BY <3>1, <3>2, SavedAgain
    <3>4. i \in list[p]
      BY <1>2, <1>3, <2>2
    <3> QED
      BY <2>2, <3>3, <3>4, RowIsNot
  <2>3. CASE ~(i \in list'[p] /\ rows[i] # NoRow)
    <3>1. rows'[i] = rows[i]
      BY <1>1, <2>3 DEF saveEvents
    <3> QED
      BY <2>1, <3>1
  <2> QED
    BY <2>2, <2>3
<1>5. TypeOK'
  <2>1. rows' \in [Ids -> Row \cup {NoRow}]
    <3>1. rows' = [i \in Ids |-> rows'[i]]
      BY <1>1 DEF saveEvents
    <3> QED
      BY <1>4, <3>1
  <2>2. /\ pc' \in [Procs -> {"down", "creating", "up", "alloc", "insert", "taken"}]
        /\ id' \in [Procs -> Ids \cup {NULL}]
        /\ list' \in [Procs -> SUBSET Ids]
    BY <1>1, <1>2 DEF IInv, TypeOK
  <2> QED
    BY <1>1, <2>1, <2>2 DEF IInv, TypeOK, given, history
<1>6. AllocatedOK'
  BY <1>1, <1>3 DEF IInv, AllocatedOK, Working, given
<1>7. InsertionsOK'
  <2>1. \A q \in Procs : \A e \in tx[q] : rows'[e[1]] = NoRow
    <3> SUFFICES ASSUME NEW q \in Procs, NEW e \in tx[q]
                 PROVE  rows'[e[1]] = NoRow
      OBVIOUS
    <3>1. e[1] \in Ids /\ rows[e[1]] = NoRow
      BY DEF IInv, TypeOK, InsertionsOK
    <3> QED
      BY <1>4, <3>1
  <2>2. \A q \in Procs : \A e \in tx[q] : pc'[q] \in {"alloc", "taken"} => e[1] # id'[q]
    BY <1>3 DEF IInv, InsertionsOK
  <2>3. \A q \in Procs : pc'[q] \in NotUp => tx[q] = {} /\ list'[q] = {}
    BY <1>3 DEF IInv, InsertionsOK, NotUp
  <2>4. tx' = tx /\ next' = next /\ space' = space
    BY <1>1 DEF given
  <2>5. \A q \in Procs : \A e \in tx[q] :
            /\ rows'[e[1]] = NoRow
            /\ e[1][1] = space[q] /\ e[1][2] < next[q]
            /\ pc'[q] \in {"alloc", "taken"} => e[1] # id'[q]
    BY <2>1, <2>2 DEF IInv, InsertionsOK
  <2>6. \A q, r \in Procs : \A e \in tx[q], f \in tx[r] : e[1] = f[1] => q = r /\ e = f
    BY DEF IInv, InsertionsOK
  <2> QED
    BY <2>3, <2>4, <2>5, <2>6 DEF InsertionsOK
<1>8. OneOwner'
  <2> SUFFICES ASSUME NEW r \in registered
               PROVE  rows'[r[1]].type = "Player" /\ rows'[r[1]].by = r[2]
    BY <1>1 DEF OneOwner, history
  <2>1. r[1] \in Ids /\ rows[r[1]].type = "Player" /\ rows[r[1]].by = r[2]
    BY DEF IInv, TypeOK, OneOwner
  <2>2. rows[r[1]] # NoRow
    BY <2>1 DEF NoRow
  <2> QED
    BY <1>4, <2>1, <2>2
<1>9. EventsLoad'
  <2> SUFFICES ASSUME NEW i \in Ids, rows'[i] # NoRow, rows'[i].type = "Event"
               PROVE  rows'[i].text = "Event"
    BY DEF EventsLoad, Stored
  <2>1. rows[i] # NoRow /\ rows[i].type = "Event"
    BY <1>4
  <2>2. rows[i].text = "Event"
    BY <2>1 DEF IInv, EventsLoad, Stored
  <2> QED
    BY <1>4, <2>1, <2>2
<1>10. Shared' <=> Shared
  BY <1>1 DEF Shared, given
<1>11. ASSUME ~Shared
       PROVE  RangesOK /\ ListsOK /\ turned = {}
  BY <1>11 DEF IInv, ApartInv
<1>12. Intact'
  <2> SUFFICES ASSUME ~Shared, NEW i \in Ids, rows'[i] # NoRow
               PROVE  rows'[i].text = rows'[i].type
    BY <1>10 DEF Intact, Stored
  <2>1. rows[i] # NoRow
    BY <1>4
  <2>2. rows[i].text = rows[i].type
    BY <2>1 DEF IInv, Intact, Stored
  <2>3. i \in list[p] => rows[i].type = "Event"
    BY <1>11, <2>1 DEF ListsOK, Own
  <2> QED
    BY <1>4, <2>1, <2>2, <2>3
<1>13. ApartInv'
  <2> SUFFICES ASSUME ~Shared
               PROVE  turned' = {} /\ RangesOK' /\ ListsOK'
    BY <1>10 DEF ApartInv
  <2>1. Stored' = Stored
    BY <1>4 DEF Stored
  <2>2. RangesOK'
    <3>1. \A q \in Procs : pc'[q] \notin NotUp => pc[q] \notin NotUp
      BY <1>1, <1>3 DEF NotUp
    <3>2. \A q \in Procs : pc'[q] = "alloc" => pc[q] = "alloc" /\ id'[q] = id[q]
      BY <1>3
    <3> QED
      BY <1>1, <1>11, <2>1, <3>1, <3>2 DEF RangesOK, given
  <2>3. ASSUME NEW q \in Procs, NEW i \in list'[q]
        PROVE  rows'[i].type = "Event" \/ Own(q, i)'
    <3>1. i \in Ids
      BY <1>5 DEF TypeOK
    <3>2. CASE i \in list[q] /\ rows[i] # NoRow
      <4>1. rows[i].type = "Event"
        BY <1>11, <3>2 DEF ListsOK, Own
      <4> QED
        BY <1>4, <3>1, <3>2, <4>1
    <3>3. CASE i \in list[q] /\ rows[i] = NoRow
      <4>1. Own(q, i)
        BY <1>11, <3>3 DEF ListsOK, NoRow
      <4>2. rows'[i] = NoRow
        BY <1>4, <3>1, <3>3
      <4>3. pc'[q] \in Working => pc[q] \in Working /\ id'[q] = id[q]
        BY <1>3 DEF Working
      <4> QED
        BY <1>1, <4>1, <4>2, <4>3 DEF Own, given
    <3>4. CASE i \notin list[q]
      <4>1. q = p /\ i = id[p]
        BY <1>3, <3>4
      <4>2. rows'[i] = NoRow
        BY <1>2, <1>4, <4>1
      <4>3. \A e \in tx[p] : e[1] = i => e[2] = "Event"
        <5> SUFFICES ASSUME NEW e \in tx[p], e[1] = i
                     PROVE  e[2] = "Event"
          OBVIOUS
        <5>1. e = <<id[p], "Event">>
          BY <1>2, <4>1 DEF IInv, InsertionsOK
        <5> QED
          BY <5>1
      <4>4. next[p] \in Nat /\ next[p] - 1 < next[p]
        BY DEF IInv, TypeOK
      <4>5. i[2] < next[p] /\ i[1] = space[p] /\ pc'[p] \notin Working
        BY <1>2, <1>3, <4>1, <4>4 DEF Working
      <4>6. Own(p, i)'
        BY <1>1, <4>2, <4>3, <4>5 DEF Own, given
      <4> QED
        BY <4>1, <4>6
    <3> QED
      BY <3>2, <3>3, <3>4
  <2>4. ListsOK'
    BY <2>3 DEF ListsOK
  <2> QED
    BY <1>1, <1>11, <2>2, <2>4 DEF history
<1> QED
  BY <1>5, <1>6, <1>7, <1>8, <1>9, <1>12, <1>13 DEF IInv

\* What the actions that commit have in common.
LEMMA CommitStep ==
    ASSUME IInv, NEW p \in Procs, Commit(p), TypeOK', Others(p),
           UNCHANGED <<given, next, turned>>,
           ~Shared => counter' = counter,
           tx'[p] = {}, pc'[p] \notin Working,
           \A i \in list'[p] : i \in list[p],
           pc'[p] \in NotUp => list'[p] = {},
           \A r \in registered' :
                \/ r \in registered
                \/ rows'[r[1]].type = "Player" /\ rows'[r[1]].by = r[2]
    PROVE  IInv'
<1>1. AllocatedOK'
  BY DEF IInv, AllocatedOK, Others, Working, given
<1>2. InsertionsOK'
  <2>1. \A q \in Procs \ {p} : \A e \in tx[q] : rows'[e[1]] = NoRow
    BY CommitOthers
  <2>2. \A q \in Procs : pc'[q] \in NotUp => tx'[q] = {} /\ list'[q] = {}
    BY DEF IInv, InsertionsOK, Others
  <2>3. \A q \in Procs : \A e \in tx'[q] : q # p /\ e \in tx[q]
    BY DEF Others
  <2>4. \A q \in Procs : \A e \in tx'[q] :
            /\ rows'[e[1]] = NoRow
            /\ e[1][1] = space'[q] /\ e[1][2] < next'[q]
            /\ pc'[q] \in {"alloc", "taken"} => e[1] # id'[q]
    BY <2>1, <2>3 DEF IInv, InsertionsOK, Others, given
  <2>5. \A q, s \in Procs : \A e \in tx'[q], f \in tx'[s] : e[1] = f[1] => q = s /\ e = f
    BY <2>3 DEF IInv, InsertionsOK
  <2> QED
    BY <2>2, <2>4, <2>5 DEF InsertionsOK
<1>3. OneOwner'
  <2>1. \A r \in registered : rows'[r[1]].type = "Player" /\ rows'[r[1]].by = r[2]
    BY CommitOwners
  <2> QED
    BY <2>1 DEF OneOwner
<1>4. EventsLoad'
  BY CommitEvents
<1>5. Shared' <=> Shared
  BY DEF Shared, given
<1>6. Intact'
  BY <1>5, CommitApart DEF Intact, Stored
<1>7. ApartInv'
  <2> SUFFICES ASSUME ~Shared
               PROVE  turned' = {} /\ RangesOK' /\ ListsOK'
    BY <1>5 DEF ApartInv
  <2>1. turned = {} /\ RangesOK
    BY DEF IInv, ApartInv
  <2>2. RangesOK'
    <3>1. \A q \in Procs : pc'[q] \notin NotUp => pc[q] \notin NotUp
      BY DEF Others, Commit
    <3>2. \A q \in Procs : pc'[q] = "alloc" => pc[q] = "alloc" /\ id'[q] = id[q]
      BY DEF Others, Working
    <3>3. \A q \in Procs : pc'[q] \notin NotUp => counter'[space'[q]] = next'[q]
      BY <2>1, <3>1 DEF RangesOK, given
    <3>4. \A i \in Stored' : i[2] < counter'[i[1]]
      BY CommitApart DEF Stored
    <3>5. \A q \in Procs : pc'[q] = "alloc" => id'[q] \notin Stored'
      BY <3>2, CommitApart DEF Stored
    <3> QED
      BY <3>3, <3>4, <3>5 DEF RangesOK
  <2>3. ASSUME NEW q \in Procs, NEW i \in list'[q]
        PROVE  rows'[i].type = "Event" \/ Own(q, i)'
    <3>1. i \in list[q]
      BY DEF Others
    <3>2. rows'[i].type = "Event" \/ (rows'[i] = NoRow /\ Own(q, i))
      BY <3>1, CommitApart
    <3>3. pc'[q] \in Working => pc[q] \in Working /\ id'[q] = id[q]
      BY DEF Others
    <3>4. \A e \in tx'[q] : e \in tx[q]
      BY DEF Others
    <3> QED
      BY <3>2, <3>3, <3>4 DEF Own, given
  <2>4. ListsOK'
    BY <2>3 DEF ListsOK
  <2> QED
    BY <2>1, <2>2, <2>4
<1> QED
  BY <1>1, <1>2, <1>3, <1>4, <1>6, <1>7 DEF IInv

\* register commits: its player is inserted, and stays.
LEMMA FinishRegisterStep ==
    ASSUME IInv, NEW p \in Procs, FinishRegister(p)
    PROVE  IInv'
<1>1. /\ pc[p] = "insert" /\ want[p] = "Player"
      /\ rows' = Inserted(p)
      /\ tx' = [tx EXCEPT ![p] = {}] /\ id' = [id EXCEPT ![p] = NULL]
      /\ registered' = registered \cup {<<id[p], p>>}
      /\ pc' = [pc EXCEPT ![p] = "up"]
      /\ UNCHANGED <<given, counter, next, want, cache, list, turned>>
  BY DEF FinishRegister
<1>2. TypeOK /\ InsertionsOK /\ AllocatedOK
  BY DEF IInv
<1>3. /\ rows' = [i \in Ids |-> rows'[i]]
      /\ \A i \in Ids : rows'[i] \in Row \cup {NoRow} /\ CommittedRow(p, i, rows'[i])
  BY <1>1, <1>2, CommitInserted DEF Inserted
<1>4. Commit(p)
  BY <1>1, <1>3 DEF Commit, NotUp
<1>5. id[p] \in Ids /\ <<id[p], "Player">> \in tx[p]
  <2>1. id[p] \in Ids
    BY <1>1, <1>2, HandedOut DEF Working
  <2> QED
    BY <1>1, <1>2, <2>1 DEF AllocatedOK
<1>6. TypeOK'
  <2>1. /\ pc' \in [Procs -> {"down", "creating", "up", "alloc", "insert", "taken"}]
        /\ id' \in [Procs -> Ids \cup {NULL}]
        /\ tx' \in [Procs -> SUBSET (Ids \X Types)]
        /\ registered' \subseteq Ids \X Procs
    BY <1>1, <1>2, <1>5 DEF TypeOK
  <2> QED
    BY <1>1, <1>2, <1>4, <2>1 DEF TypeOK, Commit, given
<1>7. rows'[id[p]].type = "Player" /\ rows'[id[p]].by = p
  <2>1. \A e \in tx[p] : e[1] = id[p] => e = <<id[p], "Player">>
    BY <1>2, <1>5 DEF InsertionsOK
  <2>2. <<id[p], "Player">>[1] = id[p] /\ <<id[p], "Player">>[2] = "Player"
    OBVIOUS
  <2>3. ~\A e \in tx[p] : e[1] # id[p]
    BY <1>5, <2>2
  <2>4. PICK e \in tx[p] : /\ e[1] = id[p] /\ rows'[id[p]].type = e[2]
                           /\ rows'[id[p]].by = p
    BY <1>3, <1>5, <2>3 DEF CommittedRow
  <2>5. e = <<id[p], "Player">>
    BY <2>1, <2>4
  <2> QED
    BY <2>2, <2>4, <2>5
<1>8. Others(p) /\ tx'[p] = {} /\ pc'[p] = "up"
  BY <1>1, <1>2 DEF Others, TypeOK
<1>9. ASSUME NEW r \in registered'
      PROVE  r \in registered \/ (rows'[r[1]].type = "Player" /\ rows'[r[1]].by = r[2])
  BY <1>1, <1>7
<1> QED
  BY <1>1, <1>4, <1>6, <1>8, <1>9, CommitStep DEF Working, NotUp

\* setavatar, and login.
LEMMA SetAvatarStep ==
    ASSUME IInv, NEW p \in Procs, NEW i \in Ids, SetAvatar(p, i)
    PROVE  IInv'
<1>1. /\ pc[p] = "up" /\ <<i, p>> \in registered
      /\ rows' = [Inserted(p) EXCEPT ![i].text = "Player"]
      /\ tx' = [tx EXCEPT ![p] = {}]
      /\ UNCHANGED <<given, counter, pc, next, id, want, cache, list, history>>
  BY DEF SetAvatar
<1>2. TypeOK /\ InsertionsOK /\ OneOwner
  BY DEF IInv
<1>3. \A j \in Ids : rows'[j] \in Row \cup {NoRow} /\ CommittedRow(p, j, rows'[j])
  BY <1>1, <1>2, CommitAvatar
<1>4. rows' = [j \in Ids |-> rows'[j]]
  BY <1>1 DEF Inserted
<1>5. Commit(p)
  BY <1>1, <1>3, <1>4 DEF Commit, NotUp
<1>6. TypeOK'
  BY <1>1, <1>2, <1>5 DEF TypeOK, Commit, given, history
<1>7. Others(p) /\ tx'[p] = {}
  BY <1>1, <1>2 DEF Others, TypeOK
<1> QED
  BY <1>1, <1>5, <1>6, <1>7, CommitStep DEF Working, NotUp, history

\* cancel-event: the list gets shorter, and is saved.
LEMMA CancelEventStep ==
    ASSUME IInv, NEW p \in Procs, NEW i \in Ids, CancelEvent(p, i)
    PROVE  IInv'
<1>1. /\ pc[p] = "up"
      /\ list' = [list EXCEPT ![p] = list[p] \ {i}]
      /\ rows' = saveEvents(Inserted(p), list'[p])
      /\ tx' = [tx EXCEPT ![p] = {}]
      /\ UNCHANGED <<given, counter, pc, next, id, want, cache, history>>
  BY DEF CancelEvent
<1>2. TypeOK /\ InsertionsOK
  BY DEF IInv
<1>3. list'[p] = list[p] \ {i} /\ list'[p] \in SUBSET list[p]
  BY <1>1, <1>2 DEF TypeOK
<1>4. \A j \in Ids : rows'[j] \in Row \cup {NoRow} /\ CommittedRow(p, j, rows'[j])
  BY <1>1, <1>2, <1>3, CommitSaved
<1>5. rows' = [j \in Ids |-> rows'[j]]
  BY <1>1 DEF saveEvents
<1>6. Commit(p)
  BY <1>1, <1>4, <1>5 DEF Commit, NotUp
<1>7. TypeOK'
  BY <1>1, <1>2, <1>6 DEF TypeOK, Commit, given, history
<1>8. Others(p) /\ tx'[p] = {}
  BY <1>1, <1>2 DEF Others, TypeOK
<1> QED
  BY <1>1, <1>3, <1>6, <1>7, <1>8, CommitStep DEF Working, NotUp, history

\* A process stops: it commits, and saves the counter it has, which is the one
\* that is there if nobody shares it.
LEMMA StopStep ==
    ASSUME IInv, NEW p \in Procs, Stop(p)
    PROVE  IInv'
<1> USE Nobody
<1>1. /\ pc[p] = "up"
      /\ rows' = saveEvents(Inserted(p), list[p])
      /\ counter' = [counter EXCEPT ![space[p]] = next[p]]
      /\ pc' = [pc EXCEPT ![p] = "down"] /\ id' = [id EXCEPT ![p] = NULL]
      /\ tx' = [tx EXCEPT ![p] = {}]
      /\ cache' = [cache EXCEPT ![p] = [i \in Ids |-> "none"]]
      /\ list' = [list EXCEPT ![p] = {}]
      /\ UNCHANGED <<given, next, want, history>>
  BY DEF Stop, Gone
<1>2. TypeOK /\ InsertionsOK
  BY DEF IInv
<1>3. list[p] \in SUBSET list[p]
  OBVIOUS
<1>4. \A j \in Ids : rows'[j] \in Row \cup {NoRow} /\ CommittedRow(p, j, rows'[j])
  BY <1>1, <1>2, <1>3, CommitSaved
<1>5. rows' = [j \in Ids |-> rows'[j]]
  BY <1>1 DEF saveEvents
<1>6. Commit(p)
  BY <1>1, <1>4, <1>5 DEF Commit, NotUp
<1>7. TypeOK'
  <2>1. /\ pc' \in [Procs -> {"down", "creating", "up", "alloc", "insert", "taken"}]
        /\ id' \in [Procs -> Ids \cup {NULL}]
        /\ tx' \in [Procs -> SUBSET (Ids \X Types)]
        /\ list' \in [Procs -> SUBSET Ids]
    BY <1>1, <1>2 DEF TypeOK
  <2>2. counter' \in [Spaces -> 0..MaxId + 1]
    BY <1>1, <1>2, Bound DEF TypeOK
  <2>3. cache' \in [Procs -> [Ids -> Types \cup {"none"}]]
    BY <1>1, <1>2 DEF TypeOK
  <2> QED
    BY <1>1, <1>2, <1>6, <2>1, <2>2, <2>3 DEF TypeOK, Commit, given, history
<1>8. Others(p) /\ tx'[p] = {} /\ pc'[p] = "down" /\ list'[p] = {}
  BY <1>1, <1>2 DEF Others, TypeOK
<1>9. ~Shared => counter' = counter
  <2>1. ~Shared => counter[space[p]] = next[p]
    BY <1>1 DEF IInv, ApartInv, RangesOK, NotUp
  <2> QED
    BY <1>1, <1>2, <2>1 DEF TypeOK
<1> QED
  BY <1>1, <1>6, <1>7, <1>8, <1>9, CommitStep DEF Working, NotUp, history

-----------------------------------------------------------------------------
(* The invariant.                                                          *)

\* Nothing is stored, and no process is up.
LEMMA InitIInv == Init => IInv
<1> SUFFICES ASSUME Init
             PROVE  IInv
  OBVIOUS
<1> USE Bound, Nobody
<1>1. TypeOK
  <2>1. cache \in [Procs -> [Ids -> Types \cup {"none"}]]
    BY DEF Init
  <2> QED
    BY <2>1 DEF Init, TypeOK, Types
<1>2. AllocatedOK /\ InsertionsOK
  BY DEF Init, AllocatedOK, InsertionsOK, Working
<1>3. Stored = {}
  BY DEF Init, Stored
<1>4. OneOwner /\ EventsLoad /\ Intact
  BY <1>3 DEF Init, OneOwner, EventsLoad, Intact
<1>5. ApartInv
  BY <1>3 DEF Init, ApartInv, RangesOK, ListsOK, NotUp
<1> QED
  BY <1>1, <1>2, <1>4, <1>5 DEF IInv

\* Every step, action by action, leads from what is right to what is right.
LEMMA NextIInv == IInv /\ [Next]_vars => IInv'
<1> SUFFICES ASSUME IInv, [Next]_vars
             PROVE  IInv'
  OBVIOUS
<1>1. ASSUME NEW p \in Procs, Boot(p) \/ Created(p)
      PROVE  IInv'
  BY <1>1, BootStep
<1>2. ASSUME NEW p \in Procs, Create(p) \/ NotCreated(p) \/ Crash(p)
      PROVE  IInv'
  BY <1>2, EndStep
<1>3. ASSUME NEW p \in Procs, Stop(p)
      PROVE  IInv'
  BY <1>3, StopStep
<1>4. ASSUME NEW p \in Procs, NEW t \in Types, Alloc(p, t)
      PROVE  IInv'
  BY <1>4, AllocStep
<1>5. ASSUME NEW p \in Procs, Waits(p) \/ Taken(p)
      PROVE  IInv'
  BY <1>5, TurnedStep
<1>6. ASSUME NEW p \in Procs, Insert(p)
      PROVE  IInv'
  BY <1>6, InsertStep
<1>7. ASSUME NEW p \in Procs, Refuse(p)
      PROVE  IInv'
  BY <1>7, RefuseStep
<1>8. ASSUME NEW p \in Procs, FinishEvent(p)
      PROVE  IInv'
  BY <1>8, FinishEventStep
<1>9. ASSUME NEW p \in Procs, FinishRegister(p)
      PROVE  IInv'
  BY <1>9, FinishRegisterStep
<1>10. ASSUME NEW p \in Procs, NEW i \in Ids, SetAvatar(p, i) \/ CancelEvent(p, i)
       PROVE  IInv'
  BY <1>10, SetAvatarStep, CancelEventStep
<1>11. CASE UNCHANGED vars
  <2>1. UNCHANGED <<space, tools, counter, rows, pc, next, id, want, tx, cache, list,
                    registered, turned>>
    BY <1>11 DEF vars, given, proc, history
  <2>2. TypeOK' /\ AllocatedOK' /\ InsertionsOK'
    BY <2>1 DEF IInv, TypeOK, AllocatedOK, InsertionsOK
  <2>3. OneOwner' /\ EventsLoad' /\ Intact'
    BY <2>1 DEF IInv, OneOwner, EventsLoad, Intact, Shared, Stored
  <2>4. ApartInv'
    BY <2>1 DEF IInv, ApartInv, RangesOK, ListsOK, Own, Shared, Stored
  <2> QED
    BY <2>2, <2>3, <2>4 DEF IInv
<1> QED
  BY <1>1, <1>2, <1>3, <1>4, <1>5, <1>6, <1>7, <1>8, <1>9, <1>10, <1>11 DEF Next

\* What holds of the stored objects and of the transactions holds always.
THEOREM ObjectsInvariant == Spec => []IInv
<1>1. Init => IInv
  BY InitIInv
<1>2. IInv /\ [Next]_vars => IInv'
  BY NextIInv
<1> QED
  BY <1>1, <1>2, PTL DEF Spec

-----------------------------------------------------------------------------
(* The properties.                                                         *)

\* A player that was registered keeps its row (new_object, object.cc, cache.cc),
\* however many processes there are and whatever cache ids they were given.
THEOREM OwnersKeepTheirRows == Spec => []OneOwner
<1>1. IInv => OneOwner
  BY DEF IInv
<1> QED
  BY <1>1, ObjectsInvariant, PTL

\* loadEvents can load every event there is, also if two processes hand out the
\* same ids.
THEOREM EventsCanBeLoaded == Spec => []EventsLoad
<1>1. IInv => EventsLoad
  BY DEF IInv
<1> QED
  BY <1>1, ObjectsInvariant, PTL

\* Processes with cache ids of their own never meet: the counter a Cache saves
\* with each id, and when it stops, keeps them apart over every crash and start.
THEOREM ProcessesAreSeparate == Spec => []Separate
<1>1. IInv => Separate
  BY DEF IInv, ApartInv, Separate
<1> QED
  BY <1>1, ObjectsInvariant, PTL

\* And no object is saved over another's row.
THEOREM RowsStayRight == Spec => []RowsOK
<1>1. IInv => RowsOK
  BY DEF IInv, RowsOK
<1> QED
  BY <1>1, ObjectsInvariant, PTL
=============================================================================
