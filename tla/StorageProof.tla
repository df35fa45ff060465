---------------------------- MODULE StorageProof ----------------------------
(***************************************************************************)
(* Proofs about Storage, for any number of handles, ids and dates.         *)
(***************************************************************************)
EXTENDS Storage, SequenceTheorems, FiniteSetTheorems, WellFoundedInduction, TLAPS

(***************************************************************************)
(* The list of free handles: what a pop and a push do to it.               *)
(***************************************************************************)

\* Without its last element a list without duplicates holds all the others.
LEMMA Popped ==
    ASSUME NEW S, NEW s \in Seq(S), Len(s) >= 1, IsInjective(s)
    PROVE  /\ Last(s) \in ToSet(s) /\ Last(s) \in S
           /\ Front(s) \in Seq(S) /\ Len(Front(s)) = Len(s) - 1
           /\ IsInjective(Front(s))
           /\ ToSet(Front(s)) = ToSet(s) \ {Last(s)}
<1> DEFINE n == Len(s)
<1>1. n \in Nat /\ n >= 1 /\ DOMAIN s = 1..n /\ \A i \in 1..n : s[i] \in S
  OBVIOUS
<1>2. /\ SubSeq(s, 1, n-1) \in Seq(S)
      /\ Len(SubSeq(s, 1, n-1)) = n - 1
      /\ \A i \in 1..n-1 : SubSeq(s, 1, n-1)[i] = s[i]
  <2>1. \A i \in 1..n-1 : s[i] \in S
    BY <1>1
  <2> HIDE DEF n
  <2>2. QED
    BY <1>1, <2>1, SubSeqProperties, Z3
<1> DEFINE f == Front(s)
<1>3. /\ f \in Seq(S) /\ Len(f) = n - 1 /\ DOMAIN f = 1..n-1
      /\ \A i \in 1..n-1 : f[i] = s[i]
  BY <1>1, <1>2 DEF Front
<1> HIDE DEF f, n
<1>4. IsInjective(f)
  BY <1>1, <1>3 DEF IsInjective
<1>5. ToSet(f) \subseteq ToSet(s) \ {s[n]}
  BY <1>1, <1>3 DEF ToSet, IsInjective
<1>6. ToSet(s) \ {s[n]} \subseteq ToSet(f)
  <2> SUFFICES ASSUME NEW i \in 1..n, s[i] # s[n]
               PROVE  s[i] \in ToSet(f)
    BY <1>1 DEF ToSet
  <2>1. i \in 1..n-1
    BY <1>1
  <2>2. QED
    BY <2>1, <1>3 DEF ToSet
<1>7. s[n] \in ToSet(s) /\ s[n] \in S
  BY <1>1 DEF ToSet
<1>8. Last(s) = s[n]
  BY DEF Last, n
<1>9. QED
  BY <1>1, <1>3, <1>4, <1>5, <1>6, <1>7, <1>8 DEF f, n

\* With an element pushed it holds that one as well, and that one is the last.
LEMMA Pushed ==
    ASSUME NEW S, NEW s \in Seq(S), NEW e \in S, IsInjective(s), e \notin ToSet(s)
    PROVE  /\ Append(s, e) \in Seq(S) /\ Len(Append(s, e)) = Len(s) + 1
           /\ IsInjective(Append(s, e))
           /\ ToSet(Append(s, e)) = ToSet(s) \cup {e}
           /\ Last(Append(s, e)) = e
<1> DEFINE t == Append(s, e)
<1>1. /\ t \in Seq(S) /\ Len(t) = Len(s) + 1 /\ Len(s) \in Nat
      /\ \A i \in 1..Len(s) : t[i] = s[i]
      /\ t[Len(s) + 1] = e
  BY AppendProperties
<1>2. DOMAIN s = 1..Len(s) /\ DOMAIN t = 1..Len(s) + 1
  BY <1>1
<1> HIDE DEF t
<1>3. IsInjective(t)
  BY <1>1, <1>2 DEF IsInjective, ToSet
<1>4. ToSet(t) = ToSet(s) \cup {e}
  BY <1>1, <1>2 DEF ToSet
<1>5. QED
  BY <1>1, <1>3, <1>4 DEF t, Last

(***************************************************************************)
(* The pool of handles.                                                    *)
(***************************************************************************)

Typed ==
    /\ pc \in Up \cup Down
    /\ free \in Seq(Handles)
    /\ held \in Handles \cup {0}
    /\ pc \in Working <=> held # 0
    /\ begun \in [Handles -> BOOLEAN]
    /\ tx \in [Handles -> SUBSET Rows]
    /\ db \subseteq Rows
    /\ counter \in Nat
    /\ next \in Nat \ {0}
    /\ want \in Nat
    /\ mine \in Seq(Ids)
    /\ made \subseteq Ids
    /\ pc \in Working => next + want <= MaxId + 1 /\ Len(free) >= 1
    /\ pc = "register" => Len(mine) + want = 2
    /\ pc \notin Working => mine = <<>>
    /\ lost \subseteq Handles
    /\ pc \in Down => lost = {}

\* OpenOnTop, with the handle it speaks of: there is one.
Opened ==
    \A h \in Handles : begun[h] \/ tx[h] # {} =>
        /\ pc \in Up
        /\ h = IF held # 0 THEN held ELSE Top
        /\ held = 0 => Len(free) >= 1

PoolInv == Typed /\ HandlesKept /\ Opened

\* The last free handle is not the one held, and the next one not the last.
LEMMA TopIsFree ==
    ASSUME PoolInv, pc \in Up, Len(free) >= 1
    PROVE  /\ Top \in Handles /\ Top # held /\ Top \notin lost
           /\ Front(free) \in Seq(Handles) /\ IsInjective(Front(free))
           /\ Len(Front(free)) = Len(free) - 1
           /\ ToSet(Front(free)) = ToSet(free) \ {Top}
           /\ Len(free) >= 2 => Second \in Handles /\ Second # Top
<1>1. free \in Seq(Handles) /\ IsInjective(free) /\ Len(free) \in Nat
      /\ ToSet(free) = Handles \ (lost \cup {held})
  BY DEF PoolInv, Typed, HandlesKept
<1>2. /\ Last(free) \in ToSet(free) /\ Last(free) \in Handles
      /\ Front(free) \in Seq(Handles) /\ Len(Front(free)) = Len(free) - 1
      /\ IsInjective(Front(free))
      /\ ToSet(Front(free)) = ToSet(free) \ {Last(free)}
  BY <1>1, Popped
<1>3. ASSUME Len(free) >= 2
      PROVE  Last(Front(free)) \in ToSet(Front(free)) /\ Last(Front(free)) \in Handles
  BY <1>1, <1>2, <1>3, Popped
<1>4. QED
  BY <1>1, <1>2, <1>3 DEF Top, Second

\* The handle a handler held goes back to the end of the list.
LEMMA ReleaseKeeps ==
    ASSUME PoolInv, pc \in Working, Released
    PROVE  /\ free' \in Seq(Handles) /\ IsInjective(free')
           /\ ToSet(free') = ToSet(free) \cup {held}
           /\ Len(free') >= 1 /\ Last(free') = held
           /\ held' = 0 /\ pc' = "idle" /\ want' = 0 /\ mine' = <<>>
<1>1. free \in Seq(Handles) /\ IsInjective(free) /\ Len(free) \in Nat
      /\ held \in Handles /\ held \notin ToSet(free)
  BY DEF PoolInv, Typed, HandlesKept, Up
<1>2. free' = Append(free, held)
  BY DEF Released, release
<1>3. QED
  BY <1>1, <1>2, Pushed DEF Released

\* A commit or a rollback of the last free handle leaves no handle open.
LEMMA NothingOpen ==
    ASSUME PoolInv, pc \in Up, held = 0, NEW h \in Handles, h # Top
    PROVE  ~begun[h] /\ tx[h] = {}
  BY DEF PoolInv, Opened

\* Every step keeps the pool of handles in order.
LEMMA PoolStep == PoolInv /\ [Next]_vars => PoolInv'
<1> SUFFICES ASSUME PoolInv, [Next]_vars
             PROVE  PoolInv'
  OBVIOUS
<1> USE DEF Up, Down, Working
<1>0. Typed /\ HandlesKept /\ Opened
  BY DEF PoolInv
<1>1. CASE Boot
  <2>1. free' = [h \in 1..DB_CONNS |-> h] /\ pc' = "loaded" /\ pc \in Down
    BY <1>1 DEF Boot, Handles
  <2>2. /\ free' \in Seq(Handles) /\ IsInjective(free') /\ ToSet(free') = Handles
    BY <2>1, Bounds DEF IsInjective, ToSet, Handles
  <2>3. held = 0 /\ mine = <<>> /\ lost = {} /\ 0 \notin Handles
    BY <1>0, <2>1 DEF Typed, Handles
  <2>4. /\ UNCHANGED <<begun, tx, db, held, want, mine, made, lost>>
        /\ next' = create /\ counter' = create
    BY <1>1 DEF Boot, history
  <2>5. create \in Nat \ {0}
    BY <1>0 DEF create, Typed
  <2>6. Typed'
    BY <1>0, <2>1, <2>2, <2>3, <2>4, <2>5 DEF Typed
  <2>7. HandlesKept'
    BY <2>1, <2>2, <2>3, <2>4 DEF HandlesKept
  <2>8. Opened'
    BY <1>0, <2>1, <2>4 DEF Opened
  <2>9. QED
    BY <2>6, <2>7, <2>8 DEF PoolInv
<1>2. CASE Serve
  BY <1>0, <1>2 DEF Serve, PoolInv, Typed, HandlesKept, Opened, history, memory, Top
<1>3. CASE Shutdown \/ Crash \/ OutOfHandles
  <2>1. \E end \in Down : Gone(end)
    BY <1>3 DEF Shutdown, Crash, OutOfHandles
  <2>2. db' \subseteq Rows
    <3>1. CASE Shutdown
      BY <1>0, <3>1, TopIsFree DEF Shutdown, Typed, PoolInv
    <3>2. QED
      BY <1>0, <1>3, <3>1 DEF Crash, OutOfHandles, Typed
  <2>3. counter' \in Nat
    BY <1>0, <1>3 DEF Shutdown, Crash, OutOfHandles, fini, Typed
  <2>4. QED
    BY <1>0, <2>1, <2>2, <2>3 DEF Gone, PoolInv, Typed, HandlesKept, Opened
<1>4. ASSUME NEW n \in Nat \ {0}, NEW handler \in Working, Start(handler, n),
             handler = "register" => n = 2
      PROVE  PoolInv'
  <2>1. /\ pc = "idle" /\ Len(free) >= 2 /\ next + n - 1 <= MaxId
        /\ pc' = handler /\ held' = Top /\ free' = Front(free) /\ want' = n
        /\ begun' = [begun EXCEPT ![Top] = TRUE]
        /\ UNCHANGED <<tx, db, counter, next, mine, made, lost>>
    BY <1>4 DEF Start, Idle, history
  <2>2. /\ Top \in Handles /\ Top \notin lost
        /\ free' \in Seq(Handles) /\ IsInjective(free')
        /\ Len(free') >= 1 /\ ToSet(free') = ToSet(free) \ {Top}
    BY <1>0, <2>1, TopIsFree DEF Typed
  <2>3. held = 0 /\ 0 \notin Handles
    BY <1>0, <2>1 DEF Typed, Handles
  <2>4. Typed'
    <3>1. n \in Nat /\ next' + want' <= MaxId + 1 /\ mine' = <<>>
      BY <1>0, <2>1, Bounds DEF Typed
    <3>2. pc' = "register" => Len(mine') + want' = 2
      BY <1>4, <2>1, <3>1
    <3>3. QED
      BY <1>0, <2>1, <2>2, <2>3, <3>1, <3>2 DEF Typed
  <2>5. HandlesKept'
    BY <1>0, <2>1, <2>2, <2>3 DEF HandlesKept
  <2>6. Opened'
    BY <1>0, <2>1, <2>2, <2>3, NothingOpen DEF Opened, Typed
  <2>7. QED
    BY <2>4, <2>5, <2>6 DEF PoolInv
<1>5. CASE Alloc
  <2>1. pc \in Working /\ want > 0 /\ Len(free) >= 1 /\ held \in Handles /\ held # 0
    BY <1>0, <1>5 DEF Alloc, More, Typed
  <2>2. Top \in Handles /\ Top # held
    BY <2>1, TopIsFree
  <2>3. PICK type \in Types :
          tx' = [tx EXCEPT ![Top] = {}, ![held] = @ \cup {Row(type, next)}]
    BY <1>5 DEF Alloc, Types
  <2>4. next \in Ids
    BY <1>0, <2>1, Bounds DEF Typed, Ids
  <2>5. Row(type, next) \in Rows
    BY <2>4 DEF Rows
  <2>6. /\ db' = db \cup tx[Top] /\ begun' = [begun EXCEPT ![Top] = FALSE]
        /\ next' = next + 1 /\ counter' = next + 1
        /\ made' = made \cup {next} /\ mine' = Append(mine, next)
        /\ want' = want - 1 /\ UNCHANGED <<pc, free, held, lost>>
    BY <1>5 DEF Alloc, saved
  <2>7. mine' \in Seq(Ids) /\ Len(mine') = Len(mine) + 1 /\ Len(mine) \in Nat
    BY <1>0, <2>4, <2>6, AppendProperties DEF Typed
  <2>8. Typed'
    <3>1. /\ begun' \in [Handles -> BOOLEAN] /\ tx' \in [Handles -> SUBSET Rows]
          /\ db' \subseteq Rows
      BY <1>0, <2>1, <2>2, <2>3, <2>5, <2>6 DEF Typed
    <3>2. /\ next' \in Nat \ {0} /\ counter' \in Nat \ {0} /\ want' \in Nat
          /\ made' \subseteq Ids /\ next' + want' <= MaxId + 1
      BY <1>0, <2>1, <2>4, <2>6, Bounds DEF Typed
    <3>3. pc' = "register" => Len(mine') + want' = 2
      BY <1>0, <2>1, <2>6, <2>7 DEF Typed
    <3>4. QED
      BY <1>0, <2>1, <2>6, <2>7, <3>1, <3>2, <3>3 DEF Typed
  <2>9. HandlesKept'
    BY <1>0, <2>6 DEF HandlesKept
  <2>10. Opened'
    BY <1>0, <2>1, <2>2, <2>3, <2>6 DEF Opened, Typed
  <2>11. QED
    BY <2>8, <2>9, <2>10 DEF PoolInv
<1>6. CASE Refuse \/ FinishEvent \/ FinishRegister
  <2>1. Released /\ pc \in Working /\ UNCHANGED <<counter, next, made, lost>>
    BY <1>6 DEF Refuse, FinishEvent, FinishRegister, MaySayNo
  <2>2. /\ free' \in Seq(Handles) /\ IsInjective(free')
        /\ ToSet(free') = ToSet(free) \cup {held}
        /\ Len(free') >= 1 /\ Top' = held
        /\ held' = 0 /\ pc' = "idle" /\ want' = 0 /\ mine' = <<>>
    BY <2>1, ReleaseKeeps DEF Top
  <2>3. held \in Handles /\ Top \in Handles /\ 0 \notin Handles /\ Len(free) >= 1
    BY <1>0, <2>1, TopIsFree DEF Typed, Handles
  <2>4. /\ begun' \in [Handles -> BOOLEAN] /\ tx' \in [Handles -> SUBSET Rows]
        /\ \A h \in Handles : h # held => (begun'[h] => begun[h]) /\ tx'[h] \subseteq tx[h]
    BY <1>0, <1>6, <2>3 DEF Refuse, FinishEvent, FinishRegister, Rollback, saveEvents,
                           Commit, Typed
  <2>5. db' \subseteq Rows
    <3>1. CASE Refuse
      BY <1>0, <3>1 DEF Refuse, Rollback, Typed
    <3>2. CASE FinishEvent
      BY <1>0, <2>3, <3>2 DEF FinishEvent, saveEvents, Commit, Typed
    <3>3. CASE FinishRegister
      <4>1. mine[1] \in Ids
        <5>1. mine \in Seq(Ids) /\ Len(mine) = 2
          BY <1>0, <3>3 DEF FinishRegister, Typed
        <5>2. QED
          BY <5>1
      <4>2. Row("Login", mine[1]) \in Rows
        BY <4>1 DEF Rows, Types
      <4>3. QED
        BY <1>0, <2>3, <3>3, <4>2 DEF FinishRegister, Commit, Typed
    <3>4. QED
      BY <1>6, <3>1, <3>2, <3>3
  <2>6. Typed'
    BY <1>0, <2>1, <2>2, <2>3, <2>4, <2>5 DEF Typed
  <2>7. HandlesKept'
    <3>1. ToSet(free) = Handles \ (lost \cup {held}) /\ held \notin lost /\ 0 \notin lost
      BY <1>0, <2>1, <2>3 DEF HandlesKept, Typed
    <3>2. ToSet(free') = Handles \ (lost' \cup {held'}) /\ held' \notin lost'
      BY <2>1, <2>2, <2>3, <3>1
    <3>3. QED
      BY <2>2, <3>2 DEF HandlesKept
  <2>8. Opened'
    BY <1>0, <2>1, <2>2, <2>3, <2>4 DEF Opened, Typed
  <2>9. QED
    BY <2>6, <2>7, <2>8 DEF PoolInv
<1>7. CASE LoginRefused \/ Login \/ SetDetails \/ DropStale \/ \E e \in Ids : CancelEvent(e)
  <2>1. pc = "idle" /\ Elsewhere /\ UNCHANGED lost
    BY <1>7 DEF LoginRefused, Login, SetDetails, DropStale, CancelEvent, Idle
  <2>2. held = 0
    BY <1>0, <2>1 DEF Typed
  <2>3. CASE DropStale
    BY <1>0, <2>1, <2>3 DEF DropStale, Elsewhere, PoolInv, Typed, HandlesKept, Opened, Top
  <2>4. CASE Len(free) >= 1 /\ ~DropStale
    <3>1. Top \in Handles /\ (Len(free) >= 2 => Second \in Handles)
      BY <2>1, <2>4, TopIsFree
    <3>2. /\ begun' \in [Handles -> BOOLEAN] /\ tx' \in [Handles -> SUBSET Rows]
          /\ db' \subseteq Rows
          /\ \A h \in Handles : (begun'[h] => begun[h]) /\ tx'[h] \subseteq tx[h]
      BY <1>0, <1>7, <2>4, <3>1 DEF LoginRefused, Login, SetDetails, CancelEvent, Idle,
                                   Rollback, Commit, Typed
    <3>3. QED
      BY <1>0, <2>1, <3>2 DEF Elsewhere, PoolInv, Typed, HandlesKept, Opened, Top
  <2>5. QED
    BY <1>0, <1>7, <2>3, <2>4 DEF LoginRefused, Login, SetDetails, CancelEvent, Idle, Typed
<1>8. CASE StartDue \/ StartAgain
  <2>1. pc = "idle" /\ Len(free) >= 1 /\ StartEvent
    BY <1>8 DEF StartDue, StartAgain, Idle
  <2>2. /\ Top \in Handles /\ Top \notin lost
        /\ free' \in Seq(Handles) /\ IsInjective(free')
        /\ ToSet(free') = ToSet(free) \ {Top}
    BY <2>1, TopIsFree DEF StartEvent
  <2>3. /\ held = 0 /\ lost' = lost \cup {Top}
        /\ UNCHANGED <<pc, held, counter, next, want, mine, made>>
    BY <1>0, <2>1 DEF StartEvent, Typed
  <2>4. /\ begun' \in [Handles -> BOOLEAN] /\ tx' \in [Handles -> SUBSET Rows]
        /\ db' \subseteq Rows
        /\ \A h \in Handles : ~begun'[h] /\ tx'[h] = {}
    BY <1>0, <2>1, <2>2, <2>3, NothingOpen DEF StartEvent, Commit, Typed
  <2>5. Typed'
    BY <1>0, <2>1, <2>2, <2>3, <2>4 DEF Typed
  <2>6. ToSet(free) = Handles \ lost
    BY <1>0, <2>1, <2>3 DEF HandlesKept, Typed, Handles
  <2>7. HandlesKept'
    <3>1. 0 \notin Handles /\ lost \subseteq Handles
      BY <1>0 DEF Handles, Typed
    <3>2. held' \notin lost' /\ ToSet(free') = Handles \ (lost' \cup {held'})
      BY <2>2, <2>3, <2>6, <3>1
    <3>3. QED
      BY <2>2, <3>2 DEF HandlesKept
  <2>8. Opened'
    BY <2>4 DEF Opened
  <2>9. QED
    BY <2>5, <2>7, <2>8 DEF PoolInv
<1>9. CASE UNCHANGED vars
  BY <1>0, <1>9 DEF vars, memory, history, PoolInv, Typed, HandlesKept, Opened, Top
<1>10. QED
  <2>1. ASSUME NewEvent \/ Register
        PROVE  PoolInv'
    BY <1>4, <2>1 DEF NewEvent, Register
  <2>2. QED
    BY <1>1, <1>2, <1>3, <1>5, <1>6, <1>7, <1>8, <1>9, <2>1 DEF Next

\* A process that has not started has no handles.
LEMMA PoolInit == Init => PoolInv
<1> SUFFICES ASSUME Init
             PROVE  PoolInv
  OBVIOUS
<1>1. <<>> \in Seq(Handles) /\ <<>> \in Seq(Ids)
  OBVIOUS
<1>2. Typed
  BY <1>1 DEF Init, NoTx, Typed, Up, Down, Working
<1>3. HandlesKept /\ Opened
  BY DEF Init, NoTx, HandlesKept, Opened, Up, Working
<1>4. QED
  BY <1>2, <1>3 DEF PoolInv

\* No path of a handler but start-event's loses or duplicates a handle.
THEOREM HandlesAreKept == Spec => []HandlesKept
<1>1. PoolInv => HandlesKept
  BY DEF PoolInv
<1>2. QED
  BY <1>1, PoolInit, PoolStep, PTL DEF Spec

\* Between two handlers only the handle the next one gets has a transaction.
THEOREM OnlyTopIsOpen == Spec => []OpenOnTop
<1>1. PoolInv => OpenOnTop
  BY DEF PoolInv, Opened, OpenOnTop
<1>2. QED
  BY <1>1, PoolInit, PoolStep, PTL DEF Spec

(***************************************************************************)
(* Ids.                                                                    *)
(***************************************************************************)

Fresh == IdsFresh /\ (pc \in Up => next = counter)

\* Every step keeps the counter in the database above the ids handed out.
LEMMA FreshStep == PoolInv /\ Fresh /\ [Next]_vars => Fresh'
<1> SUFFICES ASSUME PoolInv, Fresh, [Next]_vars
             PROVE  Fresh'
  OBVIOUS
<1> USE DEF Fresh, IdsFresh, Up, Down, Working
<1>1. counter \in Nat /\ next \in Nat /\ made \subseteq Nat
  BY DEF PoolInv, Typed, Ids
<1>2. CASE Alloc
  BY <1>1, <1>2 DEF Alloc, saved
<1>3. CASE Boot
  BY <1>1, <1>3 DEF Boot, create, history
<1>4. CASE Shutdown \/ Crash \/ OutOfHandles
  BY <1>4 DEF Shutdown, Crash, OutOfHandles, Gone, Idle, fini
<1>5. CASE \/ Refuse \/ FinishEvent \/ FinishRegister \/ StartDue \/ StartAgain
           \/ LoginRefused \/ Login \/ SetDetails \/ DropStale \/ Serve
           \/ NewEvent \/ Register \/ (\E e \in Ids : CancelEvent(e)) \/ UNCHANGED vars
  <2>1. /\ UNCHANGED <<made, counter, next>>
        /\ pc' \in Up => pc \in Up
    BY <1>5 DEF Refuse, FinishEvent, FinishRegister, StartDue, StartAgain, StartEvent,
        LoginRefused, Login, SetDetails, DropStale, Serve, NewEvent, Register, Start,
        CancelEvent, Elsewhere, MaySayNo, Idle, memory, history, vars
  <2>2. QED
    BY <2>1
<1>6. QED
  BY <1>2, <1>3, <1>4, <1>5 DEF Next

\* An id is handed out once, whenever the process dies.
THEOREM IdsAreFresh == Spec => []IdsFresh
<1>1. Init => Fresh
  BY DEF Init, Fresh, IdsFresh, Up, Working
<1>2. Fresh => IdsFresh
  BY DEF Fresh
<1>3. QED
  BY <1>1, <1>2, PoolInit, PoolStep, FreshStep, PTL DEF Spec

(***************************************************************************)
(* What gets to the database.                                              *)
(***************************************************************************)

\* Every id in the database, open or committed, was handed out, and so were
\* those of a handler at work.
Known ==
    /\ \A r \in db : r.id \in made
    /\ \A h \in Handles : \A r \in tx[h] : r.id \in made
    /\ refused \subseteq made
    /\ ToSet(mine) \subseteq made

\* What was refused is in no transaction either, and what a handler at work
\* has allocated is committed nowhere yet.
Clean ==
    /\ RefusedGone
    /\ \A h \in Handles : \A r \in tx[h] : r.id \notin refused
    /\ ToSet(mine) \cap refused = {}
    /\ \A r \in db : r.id \notin ToSet(mine)

\* A registration at work has its rows in the transaction it will commit.
Registering ==
    pc = "register" =>
        /\ Len(mine) >= 1 => mine[1] + Len(mine) = next /\ Row("Player", mine[1]) \in tx[held]
        /\ Len(mine) >= 2 => Row("Details", mine[1] + 1) \in tx[held]

DataInv == Known /\ Clean /\ Registering /\ RegisteredStored

\* Every step but these three moves rows from a transaction to the database,
\* or drops them, and leaves what clients were told.
LEMMA OthersMove ==
    ASSUME PoolInv, [Next]_vars, ~Alloc, ~Refuse, ~FinishRegister
    PROVE  /\ db \subseteq db'
           /\ \A r \in db' : r \in db \/ \E h \in Handles : r \in tx[h]
           /\ \A h \in Handles : tx'[h] \subseteq tx[h]
           /\ UNCHANGED <<made, refused, registered>>
           /\ mine' = <<>> \/ (mine' = mine /\ db' = db)
           /\ pc' = "register" => mine' = <<>> \/ UNCHANGED vars
<1> USE DEF Up, Down, Working
<1>0. Typed
  BY DEF PoolInv
<1>1. CASE Boot \/ Serve \/ UNCHANGED vars
  BY <1>0, <1>1 DEF Boot, Serve, vars, memory, history
<1>2. CASE Shutdown \/ Crash \/ OutOfHandles
  <2>1. /\ \A h \in Handles : tx'[h] = {}
        /\ mine' = <<>>
        /\ UNCHANGED <<made, refused, registered>>
    BY <1>2 DEF Shutdown, Crash, OutOfHandles, Gone
  <2>2. CASE Shutdown
    <3>1. Top \in Handles /\ db' = db \cup tx[Top]
      BY <2>2, TopIsFree DEF Shutdown
    <3>2. QED
      BY <2>1, <3>1
  <2>3. CASE Crash \/ OutOfHandles
    BY <2>1, <2>3 DEF Crash, OutOfHandles
  <2>4. QED
    BY <1>2, <2>2, <2>3
<1>3. CASE NewEvent \/ Register
  <2>1. PICK n \in Nat, handler \in Working : Start(handler, n)
    BY <1>3, Bounds DEF NewEvent, Register
  <2>2. mine = <<>>
    BY <1>0, <2>1 DEF Start, Idle, Typed
  <2>3. QED
    BY <2>1, <2>2 DEF Start, history
<1>4. CASE FinishEvent
  <2>1. Top \in Handles
    BY <1>0, <1>4, TopIsFree DEF FinishEvent, Typed
  <2>2. QED
    BY <1>0, <1>4, <2>1 DEF FinishEvent, saveEvents, Commit, Released, Typed
<1>5. CASE \/ LoginRefused \/ Login \/ SetDetails \/ DropStale \/ StartDue \/ StartAgain
           \/ \E e \in Ids : CancelEvent(e)
  <2>1. pc = "idle" /\ mine = <<>>
    BY <1>0, <1>5 DEF LoginRefused, Login, SetDetails, DropStale, StartDue, StartAgain,
        CancelEvent, Idle, Typed
  <2>2. UNCHANGED <<pc, mine, made, refused, registered>>
    BY <1>5 DEF LoginRefused, Login, SetDetails, DropStale, StartDue, StartAgain,
        CancelEvent, StartEvent, Elsewhere
  <2>3. CASE DropStale
    BY <2>1, <2>2, <2>3 DEF DropStale
  <2>4. CASE ~DropStale
    <3>1. Len(free) >= 1
      BY <1>0, <1>5, <2>4 DEF LoginRefused, Login, SetDetails, StartDue, StartAgain,
          CancelEvent, Idle, Typed
    <3>2. Top \in Handles /\ (Len(free) >= 2 => Second \in Handles)
      BY <2>1, <3>1, TopIsFree
    <3>3. QED
      BY <1>0, <1>5, <2>1, <2>2, <2>4, <3>2 DEF LoginRefused, Login, SetDetails,
          StartDue, StartAgain, CancelEvent, StartEvent, Idle, Rollback, Commit, Typed
  <2>5. QED
    BY <2>3, <2>4
<1>6. QED
  BY <1>1, <1>2, <1>3, <1>4, <1>5 DEF Next

\* A new row joins its transaction with an id that is nowhere else.
LEMMA AllocKeepsData == PoolInv /\ Fresh /\ DataInv /\ Alloc => DataInv'
<1> SUFFICES ASSUME PoolInv, Fresh, DataInv, Alloc
             PROVE  DataInv'
  OBVIOUS
<1> USE DEF Up, Working
<1>0. Typed /\ Known /\ Clean /\ Registering /\ RegisteredStored
  BY DEF PoolInv, DataInv
<1>1. pc \in Working /\ want > 0 /\ held \in Handles /\ held # 0 /\ Len(free) >= 1
  BY <1>0 DEF Alloc, More, Typed
<1>2. Top \in Handles /\ Top # held /\ tx[Top] = {}
  BY <1>1, TopIsFree DEF PoolInv, Opened
<1>3. PICK type \in Types :
        /\ tx' = [tx EXCEPT ![Top] = {}, ![held] = @ \cup {Row(type, next)}]
        /\ pc = "register" => type = IF mine = <<>> THEN "Player" ELSE "Details"
  BY DEF Alloc, Types
<1>4. /\ db' = db /\ made' = made \cup {next} /\ mine' = Append(mine, next)
      /\ next' = next + 1 /\ UNCHANGED <<pc, held, refused, registered>>
  BY <1>2 DEF Alloc
<1>5. next \notin made
  BY <1>1 DEF Fresh, IdsFresh, PoolInv, Typed
<1>6. /\ mine \in Seq(Ids) /\ Len(mine) \in Nat /\ next \in Ids
  BY <1>0, <1>1, Bounds DEF Typed, Ids
<1>7. /\ Len(mine') = Len(mine) + 1 /\ mine' \in Seq(Ids)
      /\ \A i \in 1..Len(mine) : mine'[i] = mine[i]
      /\ mine'[Len(mine) + 1] = next
  BY <1>4, <1>6, AppendProperties
<1>8. ToSet(mine') = ToSet(mine) \cup {next}
  <2>1. DOMAIN mine = 1..Len(mine) /\ DOMAIN mine' = 1..Len(mine) + 1
    BY <1>6, <1>7
  <2>2. QED
    BY <1>6, <1>7, <2>1 DEF ToSet
<1>9. /\ \A h \in Handles : \A r \in tx'[h] : r \in tx[h] \/ r.id = next
      /\ Row(type, next) \in tx'[held] /\ tx[held] \subseteq tx'[held]
  BY <1>0, <1>1, <1>2, <1>3 DEF Row, Typed
<1>10. Known'
  BY <1>0, <1>4, <1>8, <1>9 DEF Known
<1>11. Clean'
  BY <1>0, <1>4, <1>5, <1>8, <1>9 DEF Clean, Known, RefusedGone
<1>12. Registering'
  <2>1. SUFFICES ASSUME pc = "register"
                 PROVE  /\ mine'[1] + Len(mine') = next'
                        /\ Row("Player", mine'[1]) \in tx'[held]
                        /\ Len(mine') >= 2 => Row("Details", mine'[1] + 1) \in tx'[held]
    BY <1>4 DEF Registering
  <2>2. CASE mine = <<>>
    BY <1>3, <1>4, <1>6, <1>7, <1>9, <2>1, <2>2 DEF Typed, Ids
  <2>3. CASE mine # <<>>
    <3>1. Len(mine) >= 1 /\ mine'[1] = mine[1] /\ type = "Details"
      BY <1>3, <1>6, <1>7, <2>1, <2>3
    <3>2. mine[1] + Len(mine) = next /\ Row("Player", mine[1]) \in tx[held]
      BY <1>0, <2>1, <3>1 DEF Registering
    <3>3. Len(mine) + want = 2
      BY <1>0, <2>1 DEF Typed
    <3>4. Len(mine) = 1 /\ mine[1] \in Nat
      <4>1. want \in Nat
        BY <1>0 DEF Typed
      <4>2. Len(mine) = 1
        <5>1. \A n, w \in Nat : n >= 1 /\ w > 0 /\ n + w = 2 => n = 1
          OBVIOUS
        <5>2. QED
          BY <1>1, <1>6, <3>1, <3>3, <4>1, <5>1
      <4>3. mine[1] \in Ids
        BY <1>6, <4>2
      <4>4. QED
        BY <4>2, <4>3 DEF Ids
    <3>5. QED
      BY <1>4, <1>7, <1>9, <3>1, <3>2, <3>4
  <2>4. QED
    BY <2>2, <2>3
<1>13. RegisteredStored'
  BY <1>0, <1>4 DEF RegisteredStored
<1>14. QED
  BY <1>10, <1>11, <1>12, <1>13 DEF DataInv

\* A refusal takes the rows of the handler out of the only transaction that
\* has them.
LEMMA RefuseKeepsData == PoolInv /\ DataInv /\ Refuse => DataInv'
<1> SUFFICES ASSUME PoolInv, DataInv, Refuse
             PROVE  DataInv'
  OBVIOUS
<1> USE DEF Up, Working
<1>0. Typed /\ Opened /\ Known /\ Clean /\ RegisteredStored
  BY DEF PoolInv, DataInv
<1>1. held \in Handles /\ held # 0
  BY <1>0 DEF Refuse, MaySayNo, Typed
<1>2. /\ tx' = [tx EXCEPT ![held] = {}] /\ db' = db /\ mine' = <<>> /\ pc' = "idle"
      /\ refused' = refused \cup ToSet(mine) /\ UNCHANGED <<made, registered>>
  BY DEF Refuse, Rollback, Released
<1>3. \A h \in Handles : tx'[h] = {}
  BY <1>0, <1>1, <1>2 DEF Opened, Typed
<1>4. ToSet(<<>>) = {}
  BY DEF ToSet
<1>5. Known' /\ Clean'
  BY <1>0, <1>2, <1>3, <1>4 DEF Known, Clean, RefusedGone
<1>6. Registering' /\ RegisteredStored'
  BY <1>0, <1>2 DEF Registering, RegisteredStored
<1>7. QED
  BY <1>5, <1>6 DEF DataInv

\* A registration that is accepted is committed with the row of its login.
LEMMA RegisterKeepsData == PoolInv /\ DataInv /\ FinishRegister => DataInv'
<1> SUFFICES ASSUME PoolInv, DataInv, FinishRegister
             PROVE  DataInv'
  OBVIOUS
<1> USE DEF Up, Working
<1>0. Typed /\ Opened /\ Known /\ Clean /\ Registering /\ RegisteredStored
  BY DEF PoolInv, DataInv
<1>1. held \in Handles /\ held # 0 /\ pc = "register" /\ want = 0
  BY <1>0 DEF FinishRegister, Typed
<1>2. mine \in Seq(Ids) /\ Len(mine) = 2
  BY <1>0, <1>1 DEF Typed
<1>3. mine[1] \in ToSet(mine)
  BY <1>2 DEF ToSet
<1>4. /\ Row("Player", mine[1]) \in tx[held] /\ Row("Details", mine[1] + 1) \in tx[held]
  BY <1>0, <1>1, <1>2 DEF Registering
<1>5. /\ db' = db \cup tx[held] \cup {Row("Login", mine[1])}
      /\ tx' = [tx EXCEPT ![held] = {}] /\ mine' = <<>> /\ pc' = "idle"
      /\ registered' = registered \cup {mine[1]} /\ UNCHANGED <<made, refused>>
  BY DEF FinishRegister, Commit, Released
<1>6. \A h \in Handles : tx'[h] = {}
  BY <1>0, <1>1, <1>5 DEF Opened, Typed
<1>7. ToSet(<<>>) = {} /\ Row("Login", mine[1]).id = mine[1]
  BY DEF ToSet, Row
<1>8. Known' /\ Clean'
  BY <1>0, <1>1, <1>3, <1>5, <1>6, <1>7 DEF Known, Clean, RefusedGone
<1>9. Registering' /\ RegisteredStored'
  BY <1>0, <1>4, <1>5 DEF Registering, RegisteredStored
<1>10. QED
  BY <1>8, <1>9 DEF DataInv

\* Every step keeps what is refused out of the database, and what is
\* registered in it.
LEMMA DataStep == PoolInv /\ Fresh /\ DataInv /\ [Next]_vars => DataInv'
<1> SUFFICES ASSUME PoolInv, Fresh, DataInv, [Next]_vars
             PROVE  DataInv'
  OBVIOUS
<1>1. CASE Alloc \/ Refuse \/ FinishRegister
  BY <1>1, AllocKeepsData, RefuseKeepsData, RegisterKeepsData
<1>2. CASE ~Alloc /\ ~Refuse /\ ~FinishRegister
  <2>1. /\ db \subseteq db'
        /\ \A r \in db' : r \in db \/ \E h \in Handles : r \in tx[h]
        /\ \A h \in Handles : tx'[h] \subseteq tx[h]
        /\ UNCHANGED <<made, refused, registered>>
        /\ mine' = <<>> \/ (mine' = mine /\ db' = db)
        /\ pc' = "register" => mine' = <<>> \/ UNCHANGED vars
    BY <1>2, OthersMove
  <2>2. ToSet(<<>>) = {} /\ Len(<<>>) = 0
    BY DEF ToSet
  <2>3. Known'
    BY <2>1, <2>2 DEF DataInv, Known
  <2>4. Clean'
    BY <2>1, <2>2 DEF DataInv, Known, Clean, RefusedGone
  <2>5. Registering'
    BY <2>1, <2>2 DEF DataInv, Registering, vars, memory
  <2>6. RegisteredStored'
    BY <2>1 DEF DataInv, RegisteredStored
  <2>7. QED
    BY <2>3, <2>4, <2>5, <2>6 DEF DataInv
<1>3. QED
  BY <1>1, <1>2

StoreInv == PoolInv /\ Fresh /\ DataInv

\* All of it together is inductive.
LEMMA StoreInvariant == Spec => []StoreInv
<1>1. Init => StoreInv
  <2>1. Init => Fresh
    BY DEF Init, Fresh, IdsFresh, Up, Working
  <2>2. Init => DataInv
    BY DEF Init, NoTx, DataInv, Known, Clean, Registering, RefusedGone, RegisteredStored, ToSet
  <2>3. QED
    BY <2>1, <2>2, PoolInit DEF StoreInv
<1>2. StoreInv /\ [Next]_vars => StoreInv'
  BY PoolStep, FreshStep, DataStep DEF StoreInv
<1>3. QED
  BY <1>1, <1>2, PTL DEF Spec

\* What a client was told was refused never gets to the database.
THEOREM RefusedIsGone == Spec => []RefusedGone
<1>1. StoreInv => RefusedGone
  BY DEF StoreInv, DataInv, Clean
<1>2. QED
  BY <1>1, StoreInvariant, PTL

\* A registration that was accepted is in the database, all of it, for good.
THEOREM RegisteredIsStored == Spec => []RegisteredStored
<1>1. StoreInv => RegisteredStored
  BY DEF StoreInv, DataInv
<1>2. QED
  BY <1>1, StoreInvariant, PTL

(***************************************************************************)
(* Induction, over a set of numbers: the list of events is built by        *)
(* recursive functions.                                                    *)
(***************************************************************************)

\* A set that has 0, and with a number below n the next one, has all up to n.
LEMMA UpTo ==
    ASSUME NEW n \in Nat, NEW T, 0 \in T, \A k \in 1..n : k - 1 \in T => k \in T
    PROVE  0..n \subseteq T
<1> DEFINE U == (0..n) \ T
<1>1. SUFFICES ASSUME U # {}
               PROVE  FALSE
  OBVIOUS
<1>2. IsWellFoundedOn(OpToRel(<, Nat), Nat)
  BY NatLessThanWellFounded
<1>3. U \subseteq Nat
  OBVIOUS
<1>4. PICK x \in U : \A y \in U : ~(<<y, x>> \in OpToRel(<, Nat))
  BY <1>1, <1>2, <1>3, WFMin
<1>5. x \in 1..n /\ x \notin T
  OBVIOUS
<1>6. x - 1 \in U
  BY <1>5
<1>7. <<x - 1, x>> \in OpToRel(<, Nat)
  BY <1>5 DEF OpToRel
<1> QED
  BY <1>4, <1>6, <1>7

\* f has base at 0, and at k what step k makes of its value before.
Recursion(n, V, base, step) == base \in V /\ step \in [1..n -> [V -> V]]

Solves(f, n, V, base, step) ==
    f \in [0..n -> V] /\ f[0] = base /\ \A k \in 1..n : f[k] = step[k][f[k - 1]]

\* Such a function exists.
LEMMA Recursive ==
    ASSUME NEW n \in Nat, NEW V, NEW base, NEW step, Recursion(n, V, base, step)
    PROVE  \E f : Solves(f, n, V, base, step)
<1>0. base \in V /\ step \in [1..n -> [V -> V]]
  BY DEF Recursion
<1> DEFINE Upto(k, f) == /\ f[0] = base
                         /\ \A j \in 1..k : f[j] = step[j][f[j - 1]]
           T == {k \in 0..n : \E f \in [0..n -> V] : Upto(k, f)}
<1>1. 0 \in T
  <2> USE <1>0
  <2> DEFINE f0 == [j \in 0..n |-> base]
  <2>1. f0 \in [0..n -> V] /\ Upto(0, f0)
    OBVIOUS
  <2> HIDE DEF f0, Upto
  <2> QED
    BY <2>1
<1>2. ASSUME NEW k \in 1..n, k - 1 \in T
      PROVE  k \in T
  <2>1. PICK f \in [0..n -> V] : Upto(k - 1, f)
    BY <1>2
  <2> DEFINE g == [f EXCEPT ![k] = step[k][f[k - 1]]]
  <2>2. k - 1 \in 0..n /\ f[k - 1] \in V /\ step[k] \in [V -> V]
    BY <1>0
  <2>3. g \in [0..n -> V]
    BY <2>2
  <2>4. g[k] = step[k][f[k - 1]] /\ \A j \in 0..n : j # k => g[j] = f[j]
    OBVIOUS
  <2> HIDE DEF g
  <2>5. g[0] = base
    BY <2>1, <2>4
  <2>6. ASSUME NEW j \in 1..k
        PROVE  g[j] = step[j][g[j - 1]]
    <3>1. g[j - 1] = f[j - 1]
      BY <2>4
    <3>2. CASE j = k
      BY <2>4, <3>1, <3>2
    <3>3. CASE j # k
      <4>1. j \in 1..k - 1 /\ g[j] = f[j]
        BY <2>4, <3>3
      <4> QED
        BY <2>1, <3>1, <4>1
    <3> QED
      BY <3>2, <3>3
  <2> QED
    BY <2>3, <2>5, <2>6
<1>3. n \in T
  <2>1. 0..n \subseteq T
    <3> HIDE DEF T
    <3> QED
      BY <1>1, <1>2, UpTo
  <2> QED
    BY <2>1
<1>4. PICK f \in [0..n -> V] : Upto(n, f)
  BY <1>3
<1>5. Solves(f, n, V, base, step)
  BY <1>4 DEF Solves
<1> QED
  BY <1>5

\* The elements of two sequences, one behind the other.
LEMMA ConcatSet ==
    ASSUME NEW S, NEW a \in Seq(S), NEW b \in Seq(S)
    PROVE  ToSet(a \o b) = ToSet(a) \cup ToSet(b)
<1>1. Range(a \o b) = Range(a) \cup Range(b)
  BY RangeConcatenation
<1>2. ToSet(a \o b) = Range(a \o b) /\ ToSet(a) = Range(a) /\ ToSet(b) = Range(b)
  BY Zenon DEF ToSet, Range
<1> QED
  BY <1>1, <1>2

\* The elements of a flattened sequence are those of its parts.
LEMMA Flattened ==
    ASSUME NEW S, NEW n \in Nat, NEW ss \in [1..n -> Seq(S)]
    PROVE  /\ FlattenSeq(ss) \in Seq(S)
           /\ ToSet(FlattenSeq(ss)) = UNION {ToSet(ss[k]) : k \in 1..n}
<1>0. Len(ss) = n /\ ss \in Seq(Seq(S))
  OBVIOUS
<1>1. CASE n = 0
  <2>1. ss = <<>> /\ FlattenSeq(ss) = <<>>
    BY <1>0, <1>1 DEF FlattenSeq
  <2>2. ToSet(<<>>) = {} /\ <<>> \in Seq(S)
    BY DEF ToSet
  <2>3. UNION {ToSet(ss[k]) : k \in 1..n} = {}
    BY <1>1
  <2> QED
    BY <2>1, <2>2, <2>3
<1>2. CASE n # 0
  <2> DEFINE Flat(f) == f = [i \in 1..n |-> IF i = 1 THEN ss[i] ELSE f[i - 1] \o ss[i]]
             h == CHOOSE f : Flat(f)
  <2>1. FlattenSeq(ss) = h[n]
    BY <1>0, <1>2 DEF FlattenSeq
  <2>2. \E f : Flat(f)
    <3> DEFINE V == Seq(S)
               none == <<>>
               step == [k \in 1..n |-> [v \in V |-> v \o ss[k]]]
    <3>1. step \in [1..n -> [V -> V]] /\ none \in V
      OBVIOUS
    <3>2. \A k \in 1..n, v \in V : step[k][v] = v \o ss[k]
      OBVIOUS
    <3>3. PICK f : Solves(f, n, V, none, step)
      <4>1. Recursion(n, V, none, step)
        BY <3>1 DEF Recursion
      <4> QED
        BY <4>1, Recursive
    <3>5. f \in [0..n -> V] /\ f[0] = none /\ \A k \in 1..n : f[k] = step[k][f[k - 1]]
      <4> HIDE DEF step, V, none
      <4> QED
        BY <3>3 DEF Solves
    <3> DEFINE g == [i \in 1..n |-> f[i]]
    <3>4. ASSUME NEW i \in 1..n
          PROVE  g[i] = IF i = 1 THEN ss[i] ELSE g[i - 1] \o ss[i]
      <4>1. i - 1 \in 0..n /\ f[i - 1] \in V
        BY <3>5
      <4>2. f[i] = f[i - 1] \o ss[i]
        <5> HIDE DEF step, V
        <5> QED
          BY <3>2, <3>5, <4>1
      <4>3. CASE i = 1
        <5>1. f[0] = <<>>
          BY <3>5
        <5>2. ss[i] \in Seq(S)
          OBVIOUS
        <5>3. <<>> \o ss[i] = ss[i]
          BY <5>2, ConcatEmptySeq
        <5>4. g[i] = f[i] /\ i - 1 = 0
          BY <4>3
        <5> QED
          BY <4>2, <4>3, <5>1, <5>3, <5>4, Zenon
      <4>4. CASE i # 1
        BY <4>2, <4>4
      <4> QED
        BY <4>3, <4>4
    <3>6. Flat(g)
      BY <3>4
    <3> QED
      BY <3>6
  <2>3. Flat(h)
    <3> HIDE DEF Flat
    <3> QED
      BY <2>2
  <2> DEFINE Parts(k) == UNION {ToSet(ss[j]) : j \in 1..k}
             T == {k \in 0..n : k = 0 \/ (h[k] \in Seq(S) /\ ToSet(h[k]) = Parts(k))}
  <2>4. 0 \in T
    OBVIOUS
  <2>5. ASSUME NEW k \in 1..n, k - 1 \in T
        PROVE  k \in T
    <3> HIDE DEF h
    <3>1. h[k] = IF k = 1 THEN ss[k] ELSE h[k - 1] \o ss[k]
      BY <2>3
    <3>2. ss[k] \in Seq(S)
      OBVIOUS
    <3>3. CASE k = 1
      <4>1. h[k] = ss[1] /\ Parts(1) = ToSet(ss[1])
        BY <3>1, <3>3
      <4> QED
        BY <3>2, <3>3, <4>1
    <3>4. CASE k # 1
      <4>1. h[k] = h[k - 1] \o ss[k] /\ h[k - 1] \in Seq(S) /\ ToSet(h[k - 1]) = Parts(k - 1)
        BY <2>5, <3>1, <3>4
      <4> DEFINE a == h[k - 1]
                 b == ss[k]
      <4>2. /\ a \o b \in Seq(S) /\ Len(a \o b) = Len(a) + Len(b)
            /\ \A i \in 1..Len(a) + Len(b) :
                  (a \o b)[i] = IF i <= Len(a) THEN a[i] ELSE b[i - Len(a)]
        <5> HIDE DEF a, b
        <5> QED
          BY <3>2, <4>1, ConcatProperties DEF a, b
      <4>3. ToSet(a \o b) = ToSet(a) \cup ToSet(b)
        BY <3>2, <4>1, ConcatSet
      <4>4. Parts(k) = Parts(k - 1) \cup ToSet(ss[k])
        <5>1. 1..k = (1..k - 1) \cup {k}
          OBVIOUS
        <5> QED
          BY <5>1
      <4>5. h[k] \in Seq(S) /\ ToSet(h[k]) = Parts(k)
        <5> HIDE DEF Parts
        <5> QED
          BY <4>1, <4>2, <4>3, <4>4
      <4> QED
        BY <4>5
    <3> QED
      BY <3>3, <3>4
  <2>6. n \in T
    <3>1. 0..n \subseteq T
      <4> HIDE DEF T
      <4> QED
        BY <2>4, <2>5, UpTo
    <3>2. n \in 0..n
      OBVIOUS
    <3> HIDE DEF T
    <3> QED
      BY <3>1, <3>2
  <2> QED
    BY <1>2, <2>1, <2>6
<1> QED
  BY <1>1, <1>2

(***************************************************************************)
(* The list of events.                                                     *)
(***************************************************************************)

\* addEvent puts e in the list, and nothing else, and takes nothing out.
LEMMA AddedOne ==
    ASSUME NEW S, NEW list \in Seq(S), NEW e \in S, NEW later
    PROVE  /\ addEvent(list, e, later) \in Seq(S)
           /\ ToSet(addEvent(list, e, later)) = ToSet(list) \cup {e}
<1> DEFINE n == Len(list)
           ss == [k \in DOMAIN list |-> IF list[k] \in later THEN <<e, list[k]>> ELSE <<list[k]>>]
<1>1. n \in Nat /\ DOMAIN list = 1..n /\ \A k \in 1..n : list[k] \in S
  OBVIOUS
<1>2. CASE ToSet(list) \cap later = {}
  <2>1. addEvent(list, e, later) = Append(list, e)
    BY <1>2 DEF addEvent
  <2>2. Append(list, e) \in Seq(S)
    OBVIOUS
  <2>3. ToSet(Append(list, e)) = ToSet(list) \cup {e}
    <3> DEFINE t == Append(list, e)
    <3>1. /\ DOMAIN t = 1..n + 1 /\ t[n + 1] = e
          /\ \A k \in 1..n : t[k] = list[k]
      BY AppendProperties
    <3> HIDE DEF t, n
    <3>2. ToSet(t) = ToSet(list) \cup {e}
      BY <1>1, <3>1 DEF ToSet
    <3> QED
      BY <3>2 DEF t
  <2> QED
    BY <2>1, <2>2, <2>3
<1>3. CASE ToSet(list) \cap later # {}
  <2>1. addEvent(list, e, later) = FlattenSeq(ss)
    BY <1>3 DEF addEvent
  <2>2. ss \in [1..n -> Seq(S)]
    BY <1>1
  <2>3. \A k \in 1..n : ToSet(ss[k]) = IF list[k] \in later THEN {e, list[k]} ELSE {list[k]}
    <3>1. \A a, b : ToSet(<<a, b>>) = {a, b} /\ ToSet(<<a>>) = {a}
      BY DEF ToSet
    <3> QED
      BY <1>1, <3>1
  <2>4. /\ FlattenSeq(ss) \in Seq(S)
        /\ ToSet(FlattenSeq(ss)) = UNION {ToSet(ss[k]) : k \in 1..n}
    <3> HIDE DEF ss, n
    <3> QED
      BY <1>1, <2>2, Flattened
  <2>5. UNION {ToSet(ss[k]) : k \in 1..n} = ToSet(list) \cup {e}
    <3>1. \E k \in 1..n : list[k] \in later
      BY <1>1, <1>3 DEF ToSet
    <3>2. ToSet(list) = {list[k] : k \in 1..n}
      BY <1>1 DEF ToSet
    <3> HIDE DEF ss, n
    <3>3. UNION {ToSet(ss[k]) : k \in 1..n} \subseteq ToSet(list) \cup {e}
      <4> SUFFICES ASSUME NEW k \in 1..n, NEW x \in ToSet(ss[k])
                   PROVE  x \in ToSet(list) \cup {e}
        OBVIOUS
      <4>1. x = e \/ x = list[k]
        BY <2>3
      <4> QED
        BY <3>2, <4>1
    <3>4. ToSet(list) \cup {e} \subseteq UNION {ToSet(ss[k]) : k \in 1..n}
      <4>1. \A k \in 1..n : list[k] \in ToSet(ss[k])
        BY <2>3
      <4>2. \E k \in 1..n : e \in ToSet(ss[k])
        BY <2>3, <3>1
      <4> QED
        BY <3>2, <4>1, <4>2
    <3> QED
      BY <3>3, <3>4
  <2> QED
    BY <2>1, <2>4, <2>5
<1> QED
  BY <1>2, <1>3

\* addEvents puts all the es in it.
LEMMA AddedAll ==
    ASSUME NEW S, NEW list \in Seq(S), NEW es \in Seq(S), NEW laters
    PROVE  /\ addEvents(list, es, laters) \in Seq(S)
           /\ ToSet(addEvents(list, es, laters)) = ToSet(list) \cup ToSet(es)
<1> DEFINE n == Len(es)
           Adds(f) == f = [k \in 0..n |-> IF k = 0 THEN list
                                          ELSE addEvent(f[k - 1], es[k], laters[k])]
           h == CHOOSE f : Adds(f)
           none == list
           V == Seq(S)
           step == [k \in 1..n |-> [v \in V |-> addEvent(v, es[k], laters[k])]]
<1>1. n \in Nat /\ DOMAIN es = 1..n /\ \A k \in 1..n : es[k] \in S
  OBVIOUS
<1>2. addEvents(list, es, laters) = h[n]
  BY DEF addEvents
<1>3. \E f : Adds(f)
  <2>1. \A k \in 1..n, v \in V : addEvent(v, es[k], laters[k]) \in V
    BY <1>1, AddedOne
  <2>2. \A k \in 1..n, v \in V : step[k][v] = addEvent(v, es[k], laters[k])
    OBVIOUS
  <2>3. Recursion(n, V, none, step)
    <3>1. step \in [1..n -> [V -> V]]
      <4> HIDE DEF V, n
      <4> QED
        BY <2>1
    <3> QED
      BY <3>1 DEF Recursion
  <2>4. PICK f : Solves(f, n, V, none, step)
    <3> HIDE DEF step, V, none, n
    <3> QED
      BY <1>1, <2>3, Recursive
  <2>5. f \in [0..n -> V] /\ f[0] = none /\ \A k \in 1..n : f[k] = step[k][f[k - 1]]
    <3> HIDE DEF step, V, none, n
    <3> QED
      BY <2>4 DEF Solves
  <2>6. \A k \in 1..n : f[k] = addEvent(f[k - 1], es[k], laters[k])
    <3> SUFFICES ASSUME NEW k \in 1..n
                 PROVE  f[k] = addEvent(f[k - 1], es[k], laters[k])
      OBVIOUS
    <3>1. f[k - 1] \in V
      <4> HIDE DEF V, none, n, step
      <4> QED
        BY <1>1, <2>5
    <3> HIDE DEF V, step, n, none
    <3> QED
      BY <2>2, <2>5, <3>1
  <2>7. Adds(f)
    <3> HIDE DEF V, step, n
    <3>1. \A k \in 0..n : f[k] = IF k = 0 THEN list ELSE addEvent(f[k - 1], es[k], laters[k])
      BY <1>1, <2>5, <2>6
    <3> QED
      BY <2>5, <3>1
  <2> HIDE DEF Adds
  <2> QED
    BY <2>7
<1>4. Adds(h)
  <2> HIDE DEF Adds
  <2> QED
    BY <1>3
<1> DEFINE Parts(k) == ToSet(list) \cup {es[j] : j \in 1..k}
           T == {k \in 0..n : h[k] \in Seq(S) /\ ToSet(h[k]) = Parts(k)}
<1>5. h[0] = list /\ \A k \in 1..n : h[k] = addEvent(h[k - 1], es[k], laters[k])
  <2> HIDE DEF h, n
  <2> QED
    BY <1>1, <1>4
<1> HIDE DEF h, Adds
<1>6. 0 \in T
  <2>1. Parts(0) = ToSet(list)
    OBVIOUS
  <2> QED
    BY <1>5, <2>1
<1>7. ASSUME NEW k \in 1..n, k - 1 \in T
      PROVE  k \in T
  <2>1. /\ h[k - 1] \in Seq(S) /\ ToSet(h[k - 1]) = Parts(k - 1)
        /\ es[k] \in S /\ k \in 0..n
    BY <1>7
  <2> HIDE DEF n
  <2>2. h[k] \in Seq(S) /\ ToSet(h[k]) = Parts(k - 1) \cup {es[k]}
    <3> HIDE DEF Parts
    <3> QED
      BY <1>5, <2>1, AddedOne
  <2>3. Parts(k) = Parts(k - 1) \cup {es[k]}
    <3>1. 1..k = (1..k - 1) \cup {k}
      BY <1>1
    <3> QED
      BY <3>1
  <2> HIDE DEF Parts
  <2> QED
    BY <2>1, <2>2, <2>3
<1>8. h[n] \in Seq(S) /\ ToSet(h[n]) = Parts(n)
  <2>1. 0..n \subseteq T
    <3> HIDE DEF T, n
    <3> QED
      BY <1>1, <1>6, <1>7, UpTo
  <2>2. n \in 0..n
    BY <1>1
  <2>3. n \in T
    <3> HIDE DEF T
    <3> QED
      BY <2>1, <2>2
  <2> HIDE DEF Parts, n
  <2> QED
    BY <2>3
<1>9. Parts(n) = ToSet(list) \cup ToSet(es)
  BY <1>1 DEF ToSet
<1> QED
  BY <1>2, <1>8, <1>9

\* removeEvent takes every e out, and nothing else.
LEMMA Removed ==
    ASSUME NEW S, NEW list \in Seq(S), NEW e
    PROVE  /\ removeEvent(list, e) \in Seq(S)
           /\ ToSet(removeEvent(list, e)) = ToSet(list) \ {e}
<1> DEFINE n == Len(list)
           ss == [k \in DOMAIN list |-> IF list[k] = e THEN <<>> ELSE <<list[k]>>]
<1>1. n \in Nat /\ DOMAIN list = 1..n /\ \A k \in 1..n : list[k] \in S
  OBVIOUS
<1>2. removeEvent(list, e) = FlattenSeq(ss)
  BY DEF removeEvent
<1>3. ss \in [1..n -> Seq(S)]
  BY <1>1
<1>4. \A k \in 1..n : ToSet(ss[k]) = IF list[k] = e THEN {} ELSE {list[k]}
  <2>1. ToSet(<<>>) = {} /\ \A a : ToSet(<<a>>) = {a}
    BY DEF ToSet
  <2> QED
    BY <1>1, <2>1
<1>5. /\ FlattenSeq(ss) \in Seq(S)
      /\ ToSet(FlattenSeq(ss)) = UNION {ToSet(ss[k]) : k \in 1..n}
  <2> HIDE DEF ss, n
  <2> QED
    BY <1>1, <1>3, Flattened
<1>6. UNION {ToSet(ss[k]) : k \in 1..n} = ToSet(list) \ {e}
  <2>1. ToSet(list) = {list[k] : k \in 1..n}
    BY <1>1 DEF ToSet
  <2> HIDE DEF ss, n
  <2>2. ASSUME NEW k \in 1..n, NEW x \in ToSet(ss[k])
        PROVE  x \in ToSet(list) \ {e}
    <3>1. list[k] # e /\ x = list[k]
      BY <1>4
    <3> QED
      BY <2>1, <3>1
  <2>3. ASSUME NEW k \in 1..n, list[k] # e
        PROVE  list[k] \in ToSet(ss[k])
    BY <1>4, <2>3
  <2>4. UNION {ToSet(ss[k]) : k \in 1..n} \subseteq ToSet(list) \ {e}
    BY <2>2
  <2>5. ToSet(list) \ {e} \subseteq UNION {ToSet(ss[k]) : k \in 1..n}
    BY <2>1, <2>3
  <2> QED
    BY <2>4, <2>5
<1> QED
  BY <1>2, <1>5, <1>6

\* ListOK, with what is new to it: the list has ids that were handed out, a
\* handler at work has none that is over, and a dead process no history.
ListInv ==
    /\ counter <= MaxId + 1 /\ next <= MaxId + 1
    /\ cached \subseteq made
    /\ events \in Seq(Ids) /\ ToSet(events) \subseteq made
    /\ answered \subseteq made /\ accepted \subseteq answered
    /\ over \subseteq made /\ cancelled \subseteq over
    /\ registered \subseteq made
    /\ ToSet(mine) \cap over = {}
    /\ pc \in Down => accepted = {} /\ cancelled = {}
    /\ PendingListed

\* A list without its head.
LEMMA TailIs ==
    ASSUME NEW S, NEW list \in Seq(S), list # <<>>
    PROVE  /\ Tail(list) \in Seq(S) /\ Head(list) \in ToSet(list)
           /\ ToSet(Tail(list)) \subseteq ToSet(list)
           /\ ToSet(list) \ {Head(list)} \subseteq ToSet(Tail(list))
<1> DEFINE t == Tail(list)
<1>1. /\ t \in Seq(S) /\ Len(list) \in Nat /\ Len(list) >= 1
      /\ DOMAIN list = 1..Len(list) /\ DOMAIN t = 1..Len(list) - 1
      /\ \A k \in 1..Len(list) - 1 : t[k] = list[k + 1]
      /\ Head(list) = list[1]
  BY HeadTailProperties
<1> HIDE DEF t
<1>2. Head(list) \in ToSet(list)
  BY <1>1 DEF ToSet
<1>3. ToSet(t) \subseteq ToSet(list)
  BY <1>1 DEF ToSet
<1>4. ASSUME NEW k \in 1..Len(list), list[k] # Head(list)
      PROVE  list[k] \in ToSet(t)
  <2>1. k - 1 \in DOMAIN t /\ t[k - 1] = list[k]
    BY <1>1, <1>4
  <2> QED
    BY <2>1 DEF ToSet
<1>5. ToSet(list) \ {Head(list)} \subseteq ToSet(t)
  BY <1>1, <1>4 DEF ToSet
<1> QED
  BY <1>1, <1>2, <1>3, <1>5 DEF t

\* Every step keeps the list right.
LEMMA ListStep == StoreInv /\ ListInv /\ [Next]_vars => ListInv'
<1> SUFFICES ASSUME StoreInv, ListInv, [Next]_vars
             PROVE  ListInv'
  OBVIOUS
<1>0. /\ PoolInv /\ Typed /\ Known /\ Fresh
      /\ counter \in Nat /\ next \in Nat /\ made \subseteq Ids
  BY DEF StoreInv, PoolInv, DataInv, Typed
<1>e. ToSet(<<>>) = {} /\ <<>> \in Seq(Ids)
  BY DEF ToSet
<1>1. CASE Boot
  <2>1. /\ pc \in Down /\ pc' = "loaded" /\ counter' = create /\ next' = create
        /\ cached' = Stored
        /\ events' \in [1..Cardinality(Stored) -> Stored] /\ ToSet(events') = Stored
        /\ UNCHANGED <<mine, history>>
    BY <1>1 DEF Boot
  <2>2. create <= MaxId + 1
    BY <1>0, Bounds DEF create, ListInv
  <2>3. Stored \subseteq made /\ Stored \subseteq Ids
    BY <1>0 DEF Stored, Known, Row
  <2>4. Cardinality(Stored) \in Nat
    <3>1. IsFiniteSet(Ids)
      BY FS_Interval, Bounds DEF Ids
    <3>2. IsFiniteSet(Stored)
      BY <2>3, <3>1, FS_Subset
    <3> QED
      BY <3>2, FS_CardinalityType
  <2>5. events' \in Seq(Ids)
    <3>1. events' \in [1..Cardinality(Stored) -> Ids]
      BY <2>1, <2>3
    <3> QED
      BY <2>4, <3>1
  <2>6. accepted' = {} /\ cancelled' = {} /\ pc' \notin Down
    BY <2>1 DEF history, ListInv, Down
  <2>7. PendingListed'
    BY <2>6 DEF PendingListed
  <2> QED
    BY <2>1, <2>2, <2>3, <2>5, <2>6, <2>7 DEF ListInv, history
<1>2. CASE Serve \/ UNCHANGED vars
  <2>1. /\ UNCHANGED <<counter, memory, history>>
        /\ pc' \in Down => pc \in Down
    BY <1>2 DEF Serve, vars, Down
  <2> QED
    BY <2>1 DEF ListInv, PendingListed, memory, history
<1>3. CASE Shutdown \/ Crash \/ OutOfHandles
  <2>1. /\ \E end : Gone(end)
        /\ counter' \in {counter, next}
    BY <1>3 DEF Shutdown, Crash, OutOfHandles, fini
  <2>2. /\ events' = <<>> /\ cached' = {} /\ mine' = <<>> /\ accepted' = {} /\ cancelled' = {}
        /\ UNCHANGED <<next, made, answered, over, registered>>
    BY <2>1 DEF Gone
  <2>3. PendingListed'
    BY <1>e, <2>2 DEF PendingListed
  <2> QED
    BY <1>e, <2>1, <2>2, <2>3 DEF ListInv
<1>4. CASE NewEvent \/ Register
  <2>1. /\ pc' \in Working
        /\ UNCHANGED <<counter, next, cached, events, mine, history>>
    BY <1>4 DEF NewEvent, Register, Start, Working
  <2> QED
    BY <2>1 DEF ListInv, PendingListed, history, Working, Down
<1>5. CASE Alloc
  <2>1. /\ pc \in Working /\ want > 0 /\ next + want <= MaxId + 1 /\ want \in Nat
    BY <1>0, <1>5 DEF Alloc, More, Typed
  <2>2. /\ next' = next + 1 /\ counter' = next + 1 /\ made' = made \cup {next}
        /\ cached' = cached \cup {next} /\ mine' = Append(mine, next)
        /\ UNCHANGED <<pc, events, answered, accepted, over, cancelled, registered>>
    BY <1>5 DEF Alloc, saved
  <2>3. next + 1 <= MaxId + 1
    BY <1>0, <2>1, Bounds
  <2>4. next \notin made /\ next \in Ids
    BY <1>0, <2>1, <2>3, Bounds DEF Fresh, IdsFresh, Up, Ids, Typed
  <2>5. ToSet(mine') = ToSet(mine) \cup {next}
    <3>1. mine \in Seq(Ids)
      BY <1>0 DEF Typed
    <3>2. /\ DOMAIN mine = 1..Len(mine) /\ DOMAIN mine' = 1..Len(mine) + 1 /\ Len(mine) \in Nat
          /\ mine'[Len(mine) + 1] = next
          /\ \A k \in 1..Len(mine) : mine'[k] = mine[k]
      BY <2>2, <2>4, <3>1, AppendProperties
    <3> QED
      BY <3>2 DEF ToSet
  <2>6. ToSet(mine') \cap over' = {}
    BY <2>2, <2>4, <2>5 DEF ListInv
  <2>7. PendingListed'
    BY <2>2 DEF ListInv, PendingListed
  <2> QED
    BY <2>2, <2>3, <2>6, <2>7 DEF ListInv
<1>6. CASE Refuse
  <2>1. /\ pc' = "idle" /\ mine' = <<>>
        /\ UNCHANGED <<counter, next, cached, events, made, answered, accepted, over,
                       cancelled, registered>>
    BY <1>6 DEF Refuse, Released
  <2> QED
    BY <1>e, <2>1 DEF ListInv, PendingListed, Down
<1>7. CASE FinishEvent
  <2>1. /\ pc' = "idle" /\ mine' = <<>>
        /\ \E laters : events' = addEvents(events, mine, laters)
        /\ answered' = answered \cup ToSet(mine) /\ accepted' = accepted \cup ToSet(mine)
        /\ UNCHANGED <<counter, next, cached, made, over, cancelled, registered>>
    BY <1>7 DEF FinishEvent, Released
  <2>2. events' \in Seq(Ids) /\ ToSet(events') = ToSet(events) \cup ToSet(mine)
    <3>1. events \in Seq(Ids) /\ mine \in Seq(Ids)
      BY <1>0 DEF ListInv, Typed
    <3>2. PICK laters : events' = addEvents(events, mine, laters)
      BY <2>1
    <3> QED
      BY <3>1, <3>2, AddedAll
  <2>3. ToSet(mine) \subseteq made
    BY <1>0 DEF Known
  <2>4. PendingListed'
    BY <2>1, <2>2 DEF ListInv, PendingListed
  <2> QED
    BY <1>e, <2>1, <2>2, <2>3, <2>4 DEF ListInv, Down
<1>8. CASE FinishRegister
  <2>1. /\ pc = "register" /\ want = 0 /\ pc' = "idle" /\ mine' = <<>>
        /\ registered' = registered \cup {mine[1]}
        /\ UNCHANGED <<counter, next, cached, events, made, answered, accepted, over, cancelled>>
    BY <1>8 DEF FinishRegister, Released
  <2>2. mine[1] \in made
    <3>1. mine \in Seq(Ids) /\ Len(mine) = 2
      BY <1>0, <2>1 DEF Typed
    <3>2. mine[1] \in ToSet(mine)
      BY <3>1 DEF ToSet
    <3> QED
      BY <1>0, <3>2 DEF Known
  <2> QED
    BY <1>e, <2>1, <2>2 DEF ListInv, PendingListed, Down
<1>9. CASE LoginRefused \/ Login \/ SetDetails \/ StartAgain
  <2>1. UNCHANGED <<pc, counter, next, cached, events, mine, made, answered, accepted, over,
                    cancelled, registered>>
    BY <1>9 DEF LoginRefused, Login, SetDetails, StartAgain, StartEvent, Elsewhere
  <2> QED
    BY <2>1 DEF ListInv, PendingListed
<1>10. CASE StartDue \/ DropStale
  <2>1. /\ pc = "idle" /\ events # <<>> /\ events' = Tail(events)
        /\ over' = over \cup {Head(events)}
        /\ UNCHANGED <<pc, counter, next, cached, mine, made, answered, accepted, cancelled,
                       registered>>
    BY <1>10 DEF StartDue, DropStale, StartEvent, Elsewhere, Idle
  <2>2. /\ events' \in Seq(Ids) /\ Head(events) \in ToSet(events)
        /\ ToSet(events') \subseteq ToSet(events)
        /\ ToSet(events) \ {Head(events)} \subseteq ToSet(events')
    <3>1. events \in Seq(Ids)
      BY DEF ListInv
    <3> QED
      BY <2>1, <3>1, TailIs
  <2>3. mine = <<>>
    BY <1>0, <2>1 DEF Typed, Working
  <2>4. PendingListed'
    BY <2>1, <2>2 DEF ListInv, PendingListed
  <2> QED
    BY <1>e, <2>1, <2>2, <2>3, <2>4 DEF ListInv
<1>11. ASSUME NEW e \in Ids, CancelEvent(e)
       PROVE  ListInv'
  <2>1. /\ pc = "idle" /\ e \in cached /\ events' = removeEvent(events, e)
        /\ over' = over \cup {e} /\ cancelled' = cancelled \cup {e}
        /\ UNCHANGED <<pc, counter, next, cached, mine, made, answered, accepted, registered>>
    BY <1>11 DEF CancelEvent, Found, Elsewhere, Idle
  <2>2. events' \in Seq(Ids) /\ ToSet(events') = ToSet(events) \ {e}
    <3>1. events \in Seq(Ids)
      BY DEF ListInv
    <3> QED
      BY <2>1, <3>1, Removed
  <2>3. mine = <<>>
    BY <1>0, <2>1 DEF Typed, Working
  <2>4. PendingListed'
    BY <2>1, <2>2 DEF ListInv, PendingListed
  <2>5. pc \notin Down
    BY <2>1 DEF Down
  <2> QED
    BY <1>e, <2>1, <2>2, <2>3, <2>4, <2>5 DEF ListInv
<1> QED
  BY <1>1, <1>2, <1>3, <1>4, <1>5, <1>6, <1>7, <1>8, <1>9, <1>10, <1>11 DEF Next

\* While the process lives an event it accepted stays in its list until it is
\* started, dropped or cancelled, and a cancelled one is not in it, however
\* many copies addEvents has put there.
THEOREM ListStaysRight == Spec => []ListOK
<1>1. Init => ListInv
  <2> SUFFICES ASSUME Init
               PROVE  ListInv
    OBVIOUS
  <2>1. ToSet(<<>>) = {} /\ <<>> \in Seq(Ids)
    BY DEF ToSet
  <2> QED
    BY <2>1, Bounds DEF Init, ListInv, PendingListed
<1>2. StoreInv /\ ListInv => ListOK
  <2> SUFFICES ASSUME StoreInv, ListInv
               PROVE  ListOK
    OBVIOUS
  <2>1. Typed /\ Known
    BY DEF StoreInv, PoolInv, DataInv
  <2>2. counter \in 0..MaxId + 1 /\ next \in 1..MaxId + 1
    BY <2>1, Bounds DEF Typed, ListInv
  <2>3. TypeOK
    BY <2>1, <2>2 DEF Typed, Known, ListInv, TypeOK
  <2> QED
    BY <2>3 DEF ListInv, ListOK
<1>3. QED
  BY <1>1, <1>2, StoreInvariant, ListStep, PTL DEF Spec
=============================================================================
