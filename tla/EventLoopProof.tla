--------------------------- MODULE EventLoopProof ---------------------------
(***************************************************************************)
(* The safety of the serve loop, for any number of connections and any     *)
(* limits.                                                                 *)
(*                                                                         *)
(* The properties lean on one another: a report is not lost because the    *)
(* loop waits with an empty batch and no connection at hand (LoopOK), the  *)
(* batch and the Pool agree because a connection that is accepted was      *)
(* queued, once, and not watched (QueueOK), and accept has work because    *)
(* there are as many queued connections as reports of the listener, in     *)
(* the batch and still to come (ListenerOK).                               *)
(***************************************************************************)
EXTENDS EventLoop, FiniteSetTheorems, TLAPS

\* Where the loop is decides what it holds.
LoopOK ==
    /\ pc \in {"top", "wait"} => batch = {}
    /\ pc \in {"read", "drop"} <=> cur # NULL

\* The queue holds queued connections, each once.
QueueOK ==
    /\ \A i \in DOMAIN backlog : stage[backlog[i]] = "queued"
    /\ \A i, j \in DOMAIN backlog : i # j => backlog[i] # backlog[j]

\* A report of the listener stands for a queued connection of its own.
ListenerOK ==
    /\ Listener \in batch => Len(backlog) >= 1
    /\ Listener \in edges => Len(backlog) >= 1
    /\ Listener \in batch /\ Listener \in edges => Len(backlog) >= 2

Counted == IsFiniteSet(fds) /\ PoolCounts

\* TypeOK is about truth values, and about the rest.
BooleansOK ==
    /\ part \in [Conns -> BOOLEAN] /\ hung \in [Conns -> BOOLEAN]
    /\ stale \in BOOLEAN /\ pong_flag \in BOOLEAN
    /\ armed \in BOOLEAN /\ reload_flag \in BOOLEAN

GivenOK == epoll \in BOOLEAN /\ whole \in BOOLEAN /\ maxfds \in 1..MaxClients

ClientsOK ==
    /\ stage \in [Conns -> {"away", "queued", "open"}]
    /\ inbox \in [Conns -> 0..MaxMsgs]
    /\ backlog \in Seq(Conns) /\ Len(backlog) <= MaxBacklog

ThreadOK ==
    /\ edges \subseteq fds \cup {Listener}
    /\ fds \subseteq Conns
    /\ nevents \in 1..maxfds
    /\ pc \in {"top", "wait", "batch", "read", "drop"}
    /\ batch \subseteq Conns \cup {Listener}
    /\ cur \in Conns \cup {NULL}

IInv ==
    /\ BooleansOK /\ GivenOK /\ ClientsOK /\ ThreadOK
    /\ LoopOK /\ QueueOK /\ ListenerOK
    /\ Counted /\ BatchWatched /\ NoInputLost

\* The invariant implies every property.
LEMMA Implied == IInv => PoolOK /\ BatchWatched /\ NoInputLost /\ AcceptHasWork
<1> SUFFICES ASSUME IInv
             PROVE  PoolOK /\ BatchWatched /\ NoInputLost /\ AcceptHasWork
  OBVIOUS
<1>1. TypeOK
  BY Zenon DEF IInv, BooleansOK, GivenOK, ClientsOK, ThreadOK, TypeOK
<1>2. AcceptHasWork
  BY DEF IInv, ListenerOK, ClientsOK, AcceptHasWork
<1> QED
  BY <1>1, <1>2 DEF IInv, Counted, PoolOK

\* The invariant holds at first.
LEMMA InitIInv == Init => IInv
<1> SUFFICES ASSUME Init
             PROVE  IInv
  OBVIOUS
<1>1. BooleansOK
  BY Zenon DEF Init, BooleansOK
<1>2. GivenOK
  BY Zenon DEF Init, GivenOK
<1>3. ClientsOK /\ ThreadOK
  BY Sizes DEF Init, ClientsOK, ThreadOK
<1>4. LoopOK /\ QueueOK /\ ListenerOK /\ BatchWatched /\ NoInputLost
  BY DEF Init, LoopOK, QueueOK, ListenerOK, BatchWatched, NoInputLost
<1>5. Counted
  BY FS_EmptySet, Sizes DEF Init, Counted, PoolCounts
<1> QED
  BY <1>1, <1>2, <1>3, <1>4, <1>5 DEF IInv

\* A table of truth values with an entry changed is one.
LEMMA Updated ==
    ASSUME NEW f \in [Conns -> BOOLEAN], NEW c, NEW b \in BOOLEAN
    PROVE  [f EXCEPT ![c] = b] \in [Conns -> BOOLEAN]
OBVIOUS

\* The truth values stay truth values.
LEMMA BooleansStep ==
    ASSUME BooleansOK, Next
    PROVE  BooleansOK'
<1>1. ASSUME NEW c \in Conns, Arrive(c) \/ Send(c) \/ SendPart(c) \/ Hangup(c)
      PROVE  BooleansOK'
  <2>1. /\ \/ UNCHANGED part \/ part' = [part EXCEPT ![c] = TRUE]
           \/ part' = [part EXCEPT ![c] = FALSE]
        /\ UNCHANGED hung \/ hung' = [hung EXCEPT ![c] = TRUE]
        /\ UNCHANGED <<stale, flags>>
    BY <1>1, Zenon DEF Arrive, Send, SendPart, Hangup
  <2> QED
    BY <2>1, Updated, Zenon DEF BooleansOK, flags
<1>2. CASE Alarm \/ Hup
  BY <1>2, Zenon DEF BooleansOK, Alarm, Hup, client
<1>3. CASE ReadMsg
  <2>1. PICK p \in Behind(cur) : part' = [part EXCEPT ![cur] = p]
    BY <1>3, Zenon DEF ReadMsg
  <2>2. CASE p \in BOOLEAN
    BY <1>3, <2>1, <2>2, Updated, Zenon DEF ReadMsg, BooleansOK, flags
  <2>3. CASE p \notin BOOLEAN
    <3>1. cur \notin Conns
      BY <2>1, <2>3 DEF Behind, BooleansOK
    <3>2. part' = part
      BY <2>1, <3>1 DEF BooleansOK
    <3> QED
      BY <1>3, <3>2, Zenon DEF ReadMsg, BooleansOK, flags
  <2> QED
    BY <2>2, <2>3
<1>4. CASE Drop
  BY <1>4, Updated, Zenon DEF Drop, BooleansOK, flags
<1>5. ASSUME NEW c \in Conns, Serve(c)
      PROVE  BooleansOK'
  BY <1>5, Zenon DEF Serve, client, flags, BooleansOK
<1>6. CASE Top
  BY <1>6, Zenon DEF Top, client, BooleansOK
<1>7. CASE Wait \/ Timeout \/ BatchDone \/ Open \/ OpenFails \/ Spin \/ Drained
  BY <1>7, Zenon
     DEF Wait, Timeout, BatchDone, Open, OpenFails, Spin, Drained, client, flags, BooleansOK
<1> QED
  BY <1>1, <1>2, <1>3, <1>4, <1>5, <1>6, <1>7, Zenon DEF Next, Thread, Outside

-----------------------------------------------------------------------------
(* The clients and the signals.                                            *)

\* A client asks to be accepted: one more queued, and a report for it.
LEMMA ArriveStep ==
    ASSUME IInv, NEW c \in Conns, Arrive(c), UNCHANGED given
    PROVE  IInv'
<1> USE DEF IInv
<1>1. /\ stage[c] = "away" /\ Len(backlog) < MaxBacklog
      /\ stage' = [stage EXCEPT ![c] = "queued"]
      /\ backlog' = Append(backlog, c)
      /\ edges' = edges \cup {Listener}
      /\ UNCHANGED <<inbox, part, hung, fds, nevents, pc, batch, cur, stale, flags>>
  BY DEF Arrive, Notify
<1>2. BooleansOK' /\ GivenOK'
  BY <1>1, Zenon DEF BooleansOK, GivenOK, given, flags
<1>3. ClientsOK'
  BY <1>1, Sizes DEF ClientsOK
<1>4. ThreadOK' /\ LoopOK' /\ BatchWatched'
  BY <1>1 DEF ThreadOK, LoopOK, BatchWatched, given
<1>5. QueueOK'
  BY <1>1 DEF QueueOK, ClientsOK
<1>6. ListenerOK'
  BY <1>1 DEF ListenerOK, ClientsOK
<1>7. Counted'
  BY <1>1 DEF Counted, PoolCounts, ClientsOK, ThreadOK, given
<1>8. NoInputLost'
  BY <1>1 DEF NoInputLost, Ready, HasInput, given
<1> QED
  BY <1>2, <1>3, <1>4, <1>5, <1>6, <1>7, <1>8

\* A client sends, or hangs up: a report, if its connection is watched.
LEMMA SendStep ==
    ASSUME IInv, NEW c \in Conns, Send(c) \/ SendPart(c) \/ Hangup(c), UNCHANGED given
    PROVE  IInv'
<1> USE DEF IInv
<1>1. /\ stage[c] # "away"
      /\ edges' = Notify(c)
      /\ \A d \in Conns \ {c} : HasInput(d)' <=> HasInput(d)
      /\ UNCHANGED <<stage, backlog, fds, nevents, pc, batch, cur, stale, flags>>
  BY DEF Send, SendPart, Hangup, HasInput, ClientsOK, BooleansOK
<1>2. BooleansOK'
  <2>1. Next
    BY Zenon DEF Next, Outside
  <2> QED
    BY <2>1, BooleansStep
<1>3. GivenOK'
  BY Zenon DEF GivenOK, given
<1>4. ClientsOK'
  <2>1. CASE Send(c)
    BY <2>1, Sizes DEF Send, ClientsOK
  <2>2. CASE SendPart(c) \/ Hangup(c)
    BY <2>2 DEF SendPart, Hangup, ClientsOK
  <2> QED
    BY <2>1, <2>2
<1>5. ThreadOK' /\ LoopOK' /\ BatchWatched' /\ QueueOK' /\ Counted'
  BY <1>1 DEF ThreadOK, LoopOK, BatchWatched, QueueOK, Counted, PoolCounts, Notify, given
<1>6. ListenerOK'
  BY <1>1, Descriptors DEF ListenerOK, Notify
<1>7. NoInputLost'
  <2>1. Ready \subseteq Ready' /\ (c \in fds /\ HasInput(c)' => c \in Ready')
    BY <1>1 DEF Ready, Notify, ThreadOK, given, Send, SendPart, Hangup, HasInput,
                ClientsOK, BooleansOK
  <2> QED
    BY <1>1, <2>1 DEF NoInputLost, ThreadOK
<1> QED
  BY <1>2, <1>3, <1>4, <1>5, <1>6, <1>7

\* The handlers of the signals touch nothing but the flags.
LEMMA SignalStep ==
    ASSUME IInv, Alarm \/ Hup, UNCHANGED given
    PROVE  IInv'
<1> USE DEF IInv
<1>1. UNCHANGED <<client, edges, fds, nevents, pc, batch, cur, stale>>
  BY DEF Alarm, Hup
<1>2. BooleansOK'
  <2>1. Next
    BY Zenon DEF Next, Outside
  <2> QED
    BY <2>1, BooleansStep
<1>3. GivenOK'
  BY Zenon DEF GivenOK, given
<1>4. ClientsOK' /\ ThreadOK' /\ LoopOK' /\ QueueOK' /\ ListenerOK' /\ Counted'
  BY <1>1 DEF client, given, ClientsOK, ThreadOK, LoopOK, QueueOK, ListenerOK,
              Counted, PoolCounts
<1>5. BatchWatched' /\ NoInputLost'
  BY <1>1 DEF client, given, BatchWatched, NoInputLost, Ready, HasInput
<1> QED
  BY <1>2, <1>3, <1>4, <1>5

-----------------------------------------------------------------------------
(* The thread.                                                             *)

\* The top of the loop, the wait, the end of a batch, and a report of the
\* listener that comes to nothing.  What was ready goes into the batch, and
\* nothing else is taken off epoll's list.
LEMMA WaitStep ==
    ASSUME IInv, Top \/ Wait \/ Timeout \/ BatchDone \/ OpenFails, UNCHANGED given
    PROVE  IInv'
<1> USE DEF IInv
<1>1. /\ UNCHANGED <<client, fds, nevents, cur, stale>>
      /\ pc \notin {"read", "drop"} /\ pc' \notin {"read", "drop"}
      /\ \/ UNCHANGED <<edges, batch>> /\ (pc' = "top" \/ pc' = "wait" => batch = {})
         \/ batch = {} /\ batch' = Ready /\ edges' = {} /\ pc' = "batch"
         \/ batch' = batch \ {Listener} /\ UNCHANGED edges /\ pc' = "batch"
  BY DEF Top, Wait, Timeout, BatchDone, OpenFails, LoopOK
<1>2. BooleansOK'
  <2>1. Next
    BY Zenon DEF Next, Thread
  <2> QED
    BY <2>1, BooleansStep
<1>3. GivenOK'
  BY Zenon DEF GivenOK, given
<1>4. Ready \subseteq fds \cup {Listener} /\ (Listener \in Ready => Len(backlog) >= 1)
  BY Descriptors DEF Ready, ThreadOK, ListenerOK, ClientsOK
<1>5. ClientsOK' /\ ThreadOK' /\ LoopOK' /\ QueueOK' /\ Counted'
  BY <1>1, <1>4 DEF client, given, ClientsOK, ThreadOK, LoopOK, QueueOK,
                    Counted, PoolCounts, Top, Wait, Timeout, BatchDone, OpenFails
<1>6. ListenerOK'
  BY <1>1, <1>4 DEF client, ListenerOK
<1>7. BatchWatched'
  BY <1>1, <1>4 DEF BatchWatched
<1>8. NoInputLost'
  BY <1>1, Descriptors DEF client, given, NoInputLost, Ready, HasInput, ThreadOK
<1> QED
  BY <1>2, <1>3, <1>5, <1>6, <1>7, <1>8

\* A connection is accepted: it was queued once, and is neither watched nor in
\* the batch.  What it has sent by now is new to the Pool.
LEMMA OpenStep ==
    ASSUME IInv, Open, UNCHANGED given
    PROVE  IInv'
<1> USE DEF IInv
<1> DEFINE c == Head(backlog)
<1>1. /\ pc = "batch" /\ Listener \in batch /\ Len(backlog) >= 1
      /\ batch' = batch \ {Listener}
      /\ backlog' = Tail(backlog)
      /\ stage' = [stage EXCEPT ![c] = "open"]
      /\ add(c)
      /\ UNCHANGED <<inbox, part, hung, pc, cur, stale, flags>>
  BY DEF Open, ListenerOK
<1>2. /\ c \in Conns /\ c = backlog[1] /\ stage[c] = "queued"
      /\ \A i \in 1..Len(backlog) - 1 : backlog'[i] = backlog[i + 1]
      /\ DOMAIN backlog' = 1..Len(backlog) - 1 /\ Len(backlog') = Len(backlog) - 1
      /\ backlog' \in Seq(Conns)
  BY <1>1 DEF ClientsOK, QueueOK
<1> HIDE DEF c
<1>3. c \notin fds /\ c \notin batch /\ c # Listener
  BY <1>2, Descriptors DEF Counted, PoolCounts, BatchWatched
<1>4. \/ UNCHANGED <<fds, nevents, edges>>
      \/ /\ nevents < maxfds
         /\ fds' = fds \cup {c} /\ nevents' = nevents + 1
         /\ edges' \in {edges, edges \cup {c}}
         /\ HasInput(c) => c \in edges'
  BY <1>1 DEF add, Full, ThreadOK, GivenOK
<1>5. BooleansOK'
  <2>1. Next
    BY Zenon DEF Next, Thread
  <2> QED
    BY <2>1, BooleansStep
<1>6. GivenOK'
  BY Zenon DEF GivenOK, given
<1>7. ClientsOK'
  BY <1>1, <1>2, Sizes DEF ClientsOK
<1>8. ThreadOK' /\ LoopOK'
  BY <1>1, <1>2, <1>4, Sizes DEF ThreadOK, LoopOK, GivenOK, given
<1>9. QueueOK'
  <2>1. ASSUME NEW i \in DOMAIN backlog'
        PROVE  /\ i + 1 \in DOMAIN backlog /\ backlog'[i] = backlog[i + 1]
               /\ backlog[i + 1] \in Conns \ {c}
    <3>1. /\ DOMAIN backlog = 1..Len(backlog) /\ Len(backlog) \in Nat
          /\ i \in 1..Len(backlog) - 1
      BY <1>2, <2>1 DEF ClientsOK
    <3>2. 1 \in DOMAIN backlog /\ i + 1 \in DOMAIN backlog /\ i + 1 # 1
      BY <3>1
    <3>3. backlog'[i] = backlog[i + 1]
      BY <1>2, <3>1
    <3>4. backlog[i + 1] # backlog[1] /\ backlog[i + 1] \in Conns
      BY <3>2 DEF QueueOK, ClientsOK
    <3> QED
      BY <1>2, <3>2, <3>3, <3>4
  <2>2. \A i \in DOMAIN backlog' : stage'[backlog'[i]] = "queued"
    BY <1>1, <2>1 DEF QueueOK, ClientsOK
  <2>3. \A i, j \in DOMAIN backlog' : i # j => backlog'[i] # backlog'[j]
    BY <1>2, <2>1 DEF QueueOK
  <2> QED
    BY <2>2, <2>3 DEF QueueOK
<1>10. ListenerOK'
  BY <1>1, <1>2, <1>3, <1>4 DEF ListenerOK, ClientsOK
<1>11. Counted'
  <2>1. CASE UNCHANGED fds
    <3>1. nevents' = nevents /\ maxfds' = maxfds /\ Counted
      BY <1>3, <1>4, <2>1 DEF given
    <3>2. \A d \in fds' : stage'[d] = "open"
      BY <1>1, <2>1, <3>1 DEF Counted, PoolCounts, ThreadOK, ClientsOK
    <3> QED
      BY <2>1, <3>1, <3>2 DEF Counted, PoolCounts
  <2>2. CASE fds' = fds \cup {c}
    <3>1. IsFiniteSet(fds') /\ Cardinality(fds') = Cardinality(fds) + 1
      BY <1>3, <2>2, FS_AddElement DEF Counted
    <3> QED
      BY <1>1, <1>2, <1>3, <1>4, <2>2, <3>1 DEF Counted, PoolCounts, ThreadOK, GivenOK,
                                           ClientsOK, given
  <2> QED
    BY <1>4, <2>1, <2>2
<1>12. BatchWatched'
  BY <1>1, <1>4 DEF BatchWatched
<1>13. NoInputLost'
  BY <1>1, <1>3, <1>4, Descriptors DEF NoInputLost, Ready, HasInput, ThreadOK, given
<1> QED
  BY <1>5, <1>6, <1>7, <1>8, <1>9, <1>10, <1>11, <1>12, <1>13

\* A connection goes from the batch to the read loop, and is read there until
\* nothing is left.
LEMMA ServeStep ==
    ASSUME IInv, (\E c \in Conns : Serve(c)) \/ ReadMsg \/ Spin \/ Drained,
           UNCHANGED given
    PROVE  IInv'
<1> USE DEF IInv
<1>1. UNCHANGED <<stage, hung, backlog, edges, fds, nevents, flags>>
  BY DEF Serve, ReadMsg, Spin, Drained, client
<1>2. BooleansOK'
  <2>1. Next
    BY Zenon DEF Next, Thread
  <2> QED
    BY <2>1, BooleansStep
<1>3. GivenOK'
  BY Zenon DEF GivenOK, given
<1>4. QueueOK' /\ Counted'
  BY <1>1 DEF QueueOK, Counted, PoolCounts, given
<1>5. ASSUME NEW c \in Conns, Serve(c)
      PROVE  /\ ClientsOK' /\ ThreadOK' /\ LoopOK' /\ ListenerOK'
             /\ BatchWatched' /\ NoInputLost'
  <2>1. /\ c \in batch /\ batch' = batch \ {c} /\ cur' = c /\ cur = NULL
        /\ pc = "batch" /\ pc' = "read" /\ UNCHANGED client
    BY <1>5 DEF Serve, LoopOK
  <2>2. c \in fds /\ c # NULL /\ c # Listener
    BY <2>1, Descriptors DEF BatchWatched
  <2>3. ClientsOK' /\ ThreadOK' /\ LoopOK' /\ ListenerOK' /\ BatchWatched'
    BY <1>1, <2>1, <2>2 DEF client, given, ClientsOK, ThreadOK, LoopOK, ListenerOK,
                            BatchWatched
  <2>4. NoInputLost'
    BY <1>1, <2>1, <2>2, Descriptors DEF client, given, NoInputLost, Ready, HasInput, ThreadOK
  <2> QED
    BY <2>3, <2>4
<1>6. CASE ReadMsg
  <2>1. /\ pc = "read" /\ pc' \in {"read", "drop"} /\ UNCHANGED <<batch, cur>>
        /\ inbox[cur] > 0 /\ inbox' = [inbox EXCEPT ![cur] = @ - 1]
        /\ cur \in fds
    BY <1>6 DEF ReadMsg, BatchWatched
  <2>2. ClientsOK'
    BY <1>1, <2>1, Sizes DEF ClientsOK, ThreadOK
  <2>3. ThreadOK' /\ LoopOK' /\ ListenerOK' /\ BatchWatched'
    BY <1>1, <2>1 DEF given, ThreadOK, LoopOK, ListenerOK, BatchWatched
  <2>4. \A d \in fds \ {cur} : HasInput(d)' <=> HasInput(d)
    BY <1>1, <1>6, <2>1 DEF ReadMsg, HasInput, BooleansOK, ClientsOK, ThreadOK
  <2>5. NoInputLost'
    BY <1>1, <2>1, <2>4 DEF NoInputLost, Ready, given
  <2> QED
    BY <1>2, <1>3, <1>4, <2>2, <2>3, <2>5
<1>7. CASE Spin
  <2>1. /\ UNCHANGED <<client, batch, cur, edges, fds>>
        /\ pc = "read" /\ pc' \in {"read", "drop"}
    BY <1>7 DEF Spin
  <2>2. ClientsOK' /\ ThreadOK' /\ LoopOK' /\ ListenerOK' /\ BatchWatched'
    BY <1>1, <2>1 DEF client, given, ClientsOK, ThreadOK, LoopOK, ListenerOK,
                      BatchWatched
  <2>3. NoInputLost'
    BY <2>1 DEF client, given, NoInputLost, Ready, HasInput
  <2> QED
    BY <1>2, <1>3, <1>4, <2>2, <2>3
<1>8. CASE Drained
  <2>1. /\ UNCHANGED <<client, batch>> /\ pc = "read" /\ cur \in fds /\ cur # NULL
        /\ \/ pc' = "drop" /\ cur' = cur
           \/ pc' = "batch" /\ cur' = NULL /\ ~HasInput(cur)
    BY <1>8, Descriptors DEF Drained, HasInput, BatchWatched, LoopOK, ThreadOK, ClientsOK
  <2>2. ClientsOK' /\ ThreadOK' /\ LoopOK' /\ ListenerOK' /\ BatchWatched'
    BY <1>1, <2>1 DEF client, given, ClientsOK, ThreadOK, LoopOK, ListenerOK,
                      BatchWatched
  <2>3. NoInputLost'
    BY <1>1, <2>1 DEF client, given, NoInputLost, Ready, HasInput
  <2> QED
    BY <1>2, <1>3, <1>4, <2>2, <2>3
<1> QED
  BY <1>2, <1>3, <1>4, <1>5, <1>6, <1>7, <1>8

\* The connection at hand is watched: its place in the Pool becomes free.
LEMMA DropStep ==
    ASSUME IInv, Drop, UNCHANGED given
    PROVE  IInv'
<1> USE DEF IInv
<1>1. /\ pc = "drop" /\ pc' = "batch" /\ cur' = NULL
      /\ fds' = fds \ {cur} /\ nevents' = nevents - 1 /\ edges' = edges \ {cur}
      /\ stage' = [stage EXCEPT ![cur] = "away"]
      /\ inbox' = [inbox EXCEPT ![cur] = 0]
      /\ UNCHANGED <<backlog, batch, stale, flags>>
  BY DEF Drop
<1>2. cur \in fds \ batch /\ cur \in Conns /\ stage[cur] = "open" /\ cur # Listener
  BY <1>1, Descriptors DEF BatchWatched, ThreadOK, Counted, PoolCounts
<1>3. /\ IsFiniteSet(fds') /\ Cardinality(fds') = Cardinality(fds) - 1
      /\ nevents = Cardinality(fds) + 1 /\ Cardinality(fds') \in Nat
      /\ Cardinality(fds) \in Nat
  BY <1>1, <1>2, FS_RemoveElement, FS_CardinalityType DEF Counted, PoolCounts
<1>4. BooleansOK'
  <2>1. Next
    BY Zenon DEF Next, Thread
  <2> QED
    BY <2>1, BooleansStep
<1>5. GivenOK'
  BY Zenon DEF GivenOK, given
<1>6. ClientsOK'
  BY <1>1, <1>2, Sizes DEF ClientsOK
<1>7. ThreadOK' /\ LoopOK'
  BY <1>1, <1>2, <1>3, Sizes DEF ThreadOK, LoopOK, GivenOK, given
<1>8. QueueOK'
  BY <1>1, <1>2 DEF QueueOK, ClientsOK
<1>9. ListenerOK' /\ BatchWatched'
  BY <1>1, <1>2 DEF ListenerOK, BatchWatched
<1>10. Counted'
  BY <1>1, <1>2, <1>3, Sizes DEF Counted, PoolCounts, ThreadOK, GivenOK, ClientsOK, given
<1>11. NoInputLost'
  <2>1. \A d \in fds' : HasInput(d)' <=> HasInput(d)
    BY <1>1, <1>2 DEF Drop, HasInput, BooleansOK, ClientsOK, ThreadOK
  <2> QED
    BY <1>1, <1>2, <2>1 DEF NoInputLost, Ready, given
<1> QED
  BY <1>4, <1>5, <1>6, <1>7, <1>8, <1>9, <1>10, <1>11

-----------------------------------------------------------------------------
(* The theorems.                                                           *)

\* The invariant is kept by every step.
LEMMA NextIInv == IInv /\ [Next]_vars => IInv'
<1> SUFFICES ASSUME IInv, [Next]_vars
             PROVE  IInv'
  OBVIOUS
<1>1. CASE UNCHANGED vars
  <2>1. BooleansOK' /\ GivenOK'
    BY <1>1, Zenon DEF IInv, vars, BooleansOK, GivenOK
  <2>2. ClientsOK' /\ ThreadOK' /\ LoopOK' /\ QueueOK' /\ ListenerOK' /\ Counted'
    BY <1>1 DEF IInv, vars, ClientsOK, ThreadOK, LoopOK, QueueOK, ListenerOK,
                Counted, PoolCounts
  <2>3. BatchWatched' /\ NoInputLost'
    BY <1>1 DEF IInv, vars, BatchWatched, NoInputLost, Ready, HasInput
  <2> QED
    BY <2>1, <2>2, <2>3 DEF IInv
<1>2. CASE Thread /\ UNCHANGED given
  <2>1. CASE Top \/ Wait \/ Timeout \/ BatchDone \/ OpenFails
    BY <1>2, <2>1, WaitStep
  <2>2. CASE Open
    BY <1>2, <2>2, OpenStep
  <2>3. CASE (\E c \in Conns : Serve(c)) \/ ReadMsg \/ Spin \/ Drained
    BY <1>2, <2>3, ServeStep
  <2>4. CASE Drop
    BY <1>2, <2>4, DropStep
  <2> QED
    BY <1>2, <2>1, <2>2, <2>3, <2>4, Zenon DEF Thread
<1>3. CASE Outside /\ UNCHANGED given
  <2>1. ASSUME NEW c \in Conns, Arrive(c)
        PROVE  IInv'
    BY <1>3, <2>1, ArriveStep
  <2>2. ASSUME NEW c \in Conns, Send(c) \/ SendPart(c) \/ Hangup(c)
        PROVE  IInv'
    BY <1>3, <2>2, SendStep
  <2>3. CASE Alarm \/ Hup
    BY <1>3, <2>3, SignalStep
  <2> QED
    BY <1>3, <2>1, <2>2, <2>3, Zenon DEF Outside
<1> QED
  BY <1>1, <1>2, <1>3, Zenon DEF Next

\* It holds always.
LEMMA LoopInvariant == Spec => []IInv
<1> QED
  BY InitIInv, NextIInv, PTL DEF Spec

\* The Pool counts what it watches and never watches more than epoll_wait has
\* room for, whatever limit it was made with, and every variable has its type.
THEOREM PoolIsRight == Spec => []PoolOK
<1> QED
  BY LoopInvariant, Implied, PTL

\* rdyfds never holds a Socket that serve has deleted.
THEOREM BatchIsWatched == Spec => []BatchWatched
<1> QED
  BY LoopInvariant, Implied, PTL

\* No report of input is lost, with epoll or with kqueue: what has arrived on a
\* watched connection is on the kernel's list, in the batch, or being read.
THEOREM InputIsNotLost == Spec => []NoInputLost
<1> QED
  BY LoopInvariant, Implied, PTL

\* Socket::open is not called without a connection to accept.
THEOREM AcceptNeverSpins == Spec => []AcceptHasWork
<1> QED
  BY LoopInvariant, Implied, PTL
=============================================================================
