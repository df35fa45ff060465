----------------------------- MODULE OutputProof -----------------------------
(***************************************************************************)
(* What Socket::out does, for any number of clients, any lengths and any   *)
(* width of a size_t that a message does not fill.                         *)
(*                                                                         *)
(* The argument is one invariant on the call in progress (CallOK): while   *)
(* no write has failed written is what the kernel has taken; a failure     *)
(* takes it back within that, or, at 0, to the largest size_t, which ends  *)
(* the loop.                                                               *)
(***************************************************************************)
EXTENDS Output, TLAPS

\* The call of out in progress.
CallOK ==
    pc = "write" =>
        /\ cur \in Conns
        /\ len \in 1..MaxLen
        /\ written < len => written <= high
        /\ written >= len => \/ written = len /\ high = len
                             \/ written = Width - 1 /\ failed
        /\ ~failed => written = high /\ ~again

\* Between two calls out's variables are as a new call finds them.
BetweenOK ==
    pc # "write" =>
        /\ written = 0 /\ high = 0
        /\ again = FALSE /\ failed = FALSE
        /\ pc = "loop" => len \in 1..MaxLen

\* The calls that have returned.
LogOK ==
    \A k \in DOMAIN log :
        /\ log[k].sent
        /\ ~log[k].failed => log[k].high = log[k].len /\ ~log[k].again

IInv == TypeOK /\ CallOK /\ BetweenOK /\ LogOK

\* The invariant holds at first.
LEMMA InitIInv == Init => IInv
<1> SUFFICES ASSUME Init
             PROVE  IInv
  OBVIOUS
<1>1. log \in Seq(Outcome) /\ LogOK
  BY DEF Init, LogOK
<1>2. used \in [Conns -> 0..Room] /\ peer \in [Conns -> {"reading", "stopped", "gone"}]
  BY Sizes DEF Init
<1>3. TypeOK
  <2>1. again \in BOOLEAN /\ failed \in BOOLEAN
    BY Zenon DEF Init
  <2>2. /\ pc \in {"idle", "loop", "write"} /\ todo \subseteq Conns
        /\ cur \in Conns \cup {NULL}
        /\ len \in 0..MaxLen /\ written \in SizeT /\ high \in 0..len
    BY Sizes DEF Init, SizeT
  <2> QED
    BY <1>1, <1>2, <2>1, <2>2 DEF TypeOK
<1>4. CallOK /\ BetweenOK
  BY DEF Init, CallOK, BetweenOK
<1> QED
  BY <1>1, <1>3, <1>4 DEF IInv

\* One more entry in the log.
LEMMA Logged ==
    ASSUME LogOK, log \in Seq(Outcome), NEW e \in Outcome, e.sent,
           ~e.failed => e.high = e.len /\ ~e.again,
           log' = Append(log, e)
    PROVE  LogOK' /\ log' \in Seq(Outcome)
<1>1. log' \in Seq(Outcome)
  OBVIOUS
<1>2. ASSUME NEW k \in DOMAIN log'
      PROVE  /\ log'[k].sent
             /\ ~log'[k].failed => log'[k].high = log'[k].len /\ ~log'[k].again
  <2>1. CASE k \in DOMAIN log
    <3>1. log'[k] = log[k]
      BY <2>1
    <3> QED
      BY <3>1, <2>1 DEF LogOK
  <2>2. CASE k \notin DOMAIN log
    <3>1. log'[k] = e
      BY <2>2, <1>2
    <3> QED
      BY <3>1
  <2> QED
    BY <2>1, <2>2
<1> QED
  BY <1>1, <1>2 DEF LogOK

\* What the peers do changes no more than the kernel's buffers.
LEMMA PeersIInv ==
    ASSUME IInv, NEW c \in Conns, Read(c) \/ Stop(c) \/ Leave(c)
    PROVE  IInv'
<1>1. used' \in [Conns -> 0..Room] /\ peer' \in [Conns -> {"reading", "stopped", "gone"}]
  <2>1. CASE Read(c)
    BY <2>1, Sizes DEF Read, IInv, TypeOK
  <2>2. CASE Stop(c)
    BY <2>2 DEF Stop, IInv, TypeOK
  <2>3. CASE Leave(c)
    BY <2>3, Sizes DEF Leave, IInv, TypeOK
  <2> QED
    BY <2>1, <2>2, <2>3
<1>2. UNCHANGED <<call, history>>
  BY DEF Read, Stop, Leave
<1> QED
  BY <1>1, <1>2 DEF IInv, TypeOK, CallOK, BetweenOK, LogOK, call, history

\* A message to send, and the next socket to send it to.
LEMMA StartIInv ==
    ASSUME IInv, NEW n \in 1..MaxLen, NEW to \in SUBSET Conns, NEW c \in Conns,
           Send(n, to) \/ Out(c)
    PROVE  IInv'
<1>1. CASE Send(n, to)
  BY <1>1, Sizes DEF Send, IInv, TypeOK, CallOK, BetweenOK, LogOK, history, SizeT
<1>2. CASE Out(c)
  BY <1>2, Sizes DEF Out, IInv, TypeOK, CallOK, BetweenOK, LogOK, history, SizeT
<1> QED
  BY <1>1, <1>2

\* A write that took something: written does not wrap.
LEMMA WriteIInv ==
    ASSUME IInv, Write
    PROVE  IInv'
<1>1. PICK t \in 1..CanTake :
        /\ used' = [used EXCEPT ![cur] = @ + t]
        /\ written' = add(t)
        /\ high' = IF written + t > high THEN written + t ELSE high
  BY DEF Write
<1>2. /\ pc = "write" /\ written < len
      /\ again' = (again \/ written < high)
      /\ UNCHANGED <<peer, pc, todo, cur, len, failed, log>>
  BY DEF Write
<1>3. /\ cur \in Conns /\ len \in 1..MaxLen /\ written \in Nat /\ high \in 0..len
      /\ written <= high
      /\ ~failed => written = high /\ ~again
      /\ used \in [Conns -> 0..Room]
  BY <1>2 DEF IInv, TypeOK, CallOK, SizeT
<1>4. used[cur] \in 0..Room
  BY <1>3
<1>5. t \in Nat /\ t >= 1 /\ written + t <= len /\ used[cur] + t <= Room
  BY <1>1, <1>2, <1>3, <1>4, Sizes DEF CanTake, Least
<1>6. written' = written + t
  BY <1>1, <1>3, <1>5, Sizes DEF add
<1>7. used' \in [Conns -> 0..Room]
  BY <1>1, <1>3, <1>4, <1>5, Sizes
<1>8. CallOK'
  <2>1. written' <= high'
    BY <1>1, <1>3, <1>5, <1>6
  <2>2. written' >= len => written' = len /\ high' = len
    BY <1>1, <1>3, <1>5, <1>6
  <2>3. ~failed => written' = high' /\ ~(written < high)
    BY <1>1, <1>3, <1>5, <1>6
  <2>4. ~failed => ~again'
    BY <1>2, <1>3, <2>3, Zenon
  <2> QED
    BY <1>2, <1>3, <2>1, <2>2, <2>3, <2>4 DEF CallOK
<1>9. TypeOK'
  <2>1. written' \in SizeT /\ high' \in 0..len'
    BY <1>1, <1>2, <1>3, <1>5, <1>6, Sizes DEF SizeT
  <2>2. again' \in BOOLEAN
    BY <1>2 DEF IInv, TypeOK
  <2>3. /\ peer' \in [Conns -> {"reading", "stopped", "gone"}]
        /\ pc' \in {"idle", "loop", "write"}
        /\ todo' \subseteq Conns
        /\ cur' \in Conns \cup {NULL}
        /\ len' \in 0..MaxLen
        /\ failed' \in BOOLEAN
        /\ log' \in Seq(Outcome)
    BY <1>2 DEF IInv, TypeOK
  <2> QED
    BY <1>7, <2>1, <2>2, <2>3 DEF TypeOK
<1> QED
  BY <1>2, <1>8, <1>9 DEF IInv, BetweenOK, LogOK

\* A write that failed: one byte back, or from the first to the end.
LEMMA FailIInv ==
    ASSUME IInv, Fail
    PROVE  IInv'
<1>1. /\ pc = "write" /\ written < len
      /\ written' = (written + (Width - 1)) % Width
      /\ failed' = TRUE
      /\ UNCHANGED <<peer, used, pc, todo, cur, len, high, again, log>>
  BY DEF Fail, add
<1>2. /\ len \in 1..MaxLen /\ written \in Nat /\ written <= high /\ high \in 0..len
  BY <1>1 DEF IInv, TypeOK, CallOK, SizeT
<1>3. written' = IF written = 0 THEN Width - 1 ELSE written - 1
  BY <1>1, <1>2, Sizes
<1>4. CallOK'
  BY <1>1, <1>2, <1>3, Sizes DEF CallOK, IInv
<1>5. TypeOK'
  BY <1>1, <1>2, <1>3, Sizes DEF IInv, TypeOK, SizeT
<1> QED
  BY <1>1, <1>4, <1>5 DEF IInv, BetweenOK, LogOK

\* out returns.
LEMMA ReturnIInv ==
    ASSUME IInv, Return
    PROVE  IInv'
<1> DEFINE room == peer[cur] # "gone" /\ used[cur] < Room
           e == [to |-> cur, len |-> len, high |-> high, again |-> again,
                 failed |-> failed \/ ~room, sent |-> sent]
<1>1. /\ pc = "write" /\ written >= len
      /\ used' = IF room THEN [used EXCEPT ![cur] = @ + 1] ELSE used
      /\ log' = Append(log, e)
      /\ cur' = NULL /\ written' = 0 /\ high' = 0 /\ again' = FALSE /\ failed' = FALSE
      /\ pc' = IF todo = {} THEN "idle" ELSE "loop"
      /\ UNCHANGED <<peer, todo, len>>
  BY DEF Return, Ret
<1>2. /\ cur \in Conns /\ len \in 1..MaxLen /\ written \in Nat /\ high \in 0..len
      /\ again \in BOOLEAN /\ failed \in BOOLEAN
      /\ \/ written = len /\ high = len
         \/ written = Width - 1 /\ failed
      /\ ~failed => written = high /\ ~again
  BY <1>1 DEF IInv, TypeOK, CallOK, SizeT
<1>3. sent = TRUE
  BY <1>1, <1>2, Sizes DEF sent
<1>4. e \in Outcome
  <2>1. high \in 0..MaxLen
    BY <1>2, Sizes
  <2>2. (failed \/ ~room) \in BOOLEAN
    OBVIOUS
  <2> QED
    BY <1>2, <1>3, <2>1, <2>2 DEF Outcome
<1>5. ~e.failed => e.high = e.len /\ ~e.again
  BY <1>2, Sizes
<1>6. LogOK' /\ log' \in Seq(Outcome)
  BY <1>1, <1>3, <1>4, <1>5, Logged DEF IInv, TypeOK
<1>7. used' \in [Conns -> 0..Room]
  BY <1>1, <1>2, Sizes DEF IInv, TypeOK
<1>8. TypeOK'
  <2>1. written' \in SizeT /\ high' \in 0..len'
    BY <1>1, <1>2, Sizes DEF SizeT
  <2>2. pc' \in {"idle", "loop", "write"}
    BY <1>1
  <2> QED
    BY <1>1, <1>6, <1>7, <2>1, <2>2 DEF IInv, TypeOK
<1> QED
  BY <1>1, <1>2, <1>6, <1>8 DEF IInv, CallOK, BetweenOK

\* Every step keeps the invariant.
LEMMA NextIInv == IInv /\ [Next]_vars => IInv'
<1> SUFFICES ASSUME IInv, [Next]_vars
             PROVE  IInv'
  OBVIOUS
<1>1. ASSUME NEW c \in Conns, Out(c) PROVE IInv'
  <2>1. 1 \in 1..MaxLen /\ {} \in SUBSET Conns
    BY Sizes
  <2> QED
    BY <1>1, <2>1, StartIInv
<1>2. CASE Write
  BY <1>2, WriteIInv
<1>3. CASE Fail
  BY <1>3, FailIInv
<1>4. CASE Return
  BY <1>4, ReturnIInv
<1>5. ASSUME NEW c \in Conns, Read(c) \/ Stop(c) \/ Leave(c) PROVE IInv'
  BY <1>5, PeersIInv
<1>6. ASSUME NEW n \in 1..MaxLen, NEW to \in (SUBSET Conns) \ {{}}, Send(n, to) PROVE IInv'
  <2>1. PICK c \in to : TRUE
    BY <1>6
  <2>2. c \in Conns /\ to \in SUBSET Conns
    BY <2>1, <1>6
  <2>3. Send(n, to) \/ Out(c)
    BY <1>6
  <2> QED
    BY <2>2, <2>3, StartIInv
<1>7. CASE UNCHANGED vars
  BY <1>7 DEF vars, call, history, IInv, TypeOK, CallOK, BetweenOK, LogOK
<1> QED
  BY <1>1, <1>2, <1>3, <1>4, <1>5, <1>6, <1>7 DEF Next, Thread, Outside

\* The invariant holds forever.
LEMMA AlwaysIInv == Spec => []IInv
BY InitIInv, NextIInv, PTL DEF Spec

\* The size_t stays one, and the kernel is never asked for more than the rest
\* of the message.
THEOREM TypeCorrect == Spec => []TypeOK
<1>1. IInv => TypeOK
  BY DEF IInv
<1> QED
  BY <1>1, AlwaysIInv, PTL

\* For messages and buffers of any size, out never skips a byte.
THEOREM NeverSkips == Spec => []NoGap
<1>1. IInv => NoGap
  BY DEF IInv, CallOK, NoGap
<1> QED
  BY <1>1, AlwaysIInv, PTL

\* For any number of peers, whatever the others do, one whose connection takes
\* every write gets every message whole and once.
THEOREM WholeIfKeptUp == Spec => []KeptUpIsWhole
<1>1. IInv => KeptUpIsWhole
  BY DEF IInv, LogOK, KeptUpIsWhole
<1> QED
  BY <1>1, AlwaysIInv, PTL

\* No caller of out is ever told that it failed.
THEOREM NeverFails == Spec => []AlwaysSent
<1>1. IInv => AlwaysSent
  BY DEF IInv, LogOK, AlwaysSent
<1> QED
  BY <1>1, AlwaysIInv, PTL
=============================================================================
