------------------------------ MODULE EventLoop ------------------------------
(***************************************************************************)
(* Server::serve and the descriptor Pool: one thread that waits for ready  *)
(* descriptors, accepts, reads and drops connections, and serves the flags *)
(* its signal handlers set.  The kernel's side (the queue of connections   *)
(* to accept, the bytes to read, the ready list of epoll) and the clients  *)
(* run concurrently with it.                                               *)
(*                                                                         *)
(* On Linux the Pool watches every descriptor, the listener included, in   *)
(* epoll's edge-triggered mode: a descriptor is reported once per arrival  *)
(* of something new.  With kqueue it is reported while anything is left.   *)
(***************************************************************************)
EXTENDS Naturals, Sequences, FiniteSets

CONSTANTS
    Conns,           \* client connections, each used again after it is closed
    Listener,        \* the descriptor of the listening socket
    NULL,
    MaxClients,      \* Server::MAX_CLIENTS; the Pool is made for so many, or fewer
    MaxBacklog,      \* Socket::MAX_CONNS: connections the kernel queues
    MaxMsgs          \* bound: messages of one connection sent and not handled yet

ASSUME Descriptors == NULL \notin Conns /\ Listener \notin Conns \cup {NULL}

ASSUME Sizes == /\ MaxClients \in Nat \ {0}
                /\ MaxBacklog \in Nat \ {0}
                /\ MaxMsgs \in Nat

VARIABLES
    epoll,         \* the build: TRUE with epoll, FALSE with kqueue; never changes
    maxfds,        \* the Pool's limit, the listener counted in; never changes
    whole,         \* clients never pause inside a message; never changes
    stage,         \* connection -> "away", "queued" (to be accepted), "open"
    inbox,         \* connection -> messages sent that no handler has had
    part,          \* connection -> the beginning of a message is behind them
    hung,          \* connection -> the client has hung up
    backlog,       \* connections to accept, in order
    edges,         \* descriptors with something new since the last report
    fds,           \* the Pool: connections that are watched
    nevents,       \* the Pool: number of descriptors, the listener included
    pc,            \* where the thread is
    batch,         \* rdyfds: descriptors reported and not yet dealt with
    cur,           \* the connection Server::process is on
    stale,         \* its Message still holds one that was handled
    pong_flag,     \* set by SIGALRM
    armed,         \* alarm() is running
    reload_flag    \* set by SIGHUP

client == <<stage, inbox, part, hung, backlog>>
flags  == <<pong_flag, armed, reload_flag>>
given  == <<epoll, maxfds, whole>>
vars   == <<epoll, maxfds, whole, stage, inbox, part, hung, backlog, edges, fds, nevents, pc,
            batch, cur, stale, pong_flag, armed, reload_flag>>

TypeOK ==
    /\ epoll \in BOOLEAN /\ whole \in BOOLEAN
    /\ maxfds \in 1..MaxClients
    /\ stage \in [Conns -> {"away", "queued", "open"}]
    /\ inbox \in [Conns -> 0..MaxMsgs]
    /\ part \in [Conns -> BOOLEAN]
    /\ hung \in [Conns -> BOOLEAN]
    /\ backlog \in Seq(Conns) /\ Len(backlog) <= MaxBacklog
    /\ edges \subseteq fds \cup {Listener}
    /\ fds \subseteq Conns
    /\ nevents \in 1..maxfds
    /\ pc \in {"top", "wait", "batch", "read", "drop"}
    /\ batch \subseteq Conns \cup {Listener}
    /\ cur \in Conns \cup {NULL}
    /\ stale \in BOOLEAN
    /\ pong_flag \in BOOLEAN /\ armed \in BOOLEAN /\ reload_flag \in BOOLEAN

\* The constructor does not initialise reload_flag.
Init ==
    /\ epoll \in BOOLEAN /\ whole \in BOOLEAN
    /\ maxfds \in 1..MaxClients
    /\ stage = [c \in Conns |-> "away"]
    /\ inbox = [c \in Conns |-> 0]
    /\ part = [c \in Conns |-> FALSE]
    /\ hung = [c \in Conns |-> FALSE]
    /\ backlog = <<>>
    /\ edges = {}
    /\ fds = {}
    /\ nevents = 1
    /\ pc = "top"
    /\ batch = {}
    /\ cur = NULL
    /\ stale = FALSE
    /\ pong_flag = FALSE
    /\ armed = TRUE
    /\ reload_flag \in BOOLEAN

-----------------------------------------------------------------------------
(* The kernel's view of readiness.                                         *)

HasInput(c) == inbox[c] > 0 \/ part[c] \/ hung[c]

\* Something new on a descriptor that is watched is an edge.
Notify(d) == IF d \in fds \cup {Listener} THEN edges \cup {d} ELSE edges

\* Mutant: kqueue's filters are added with EV_CLEAR.
Ready_Clear == edges

\* epoll reports the edges since the last report, kqueue what has input.
Ready ==
    IF epoll THEN edges
    ELSE {c \in fds : HasInput(c)} \cup (IF backlog = <<>> THEN {} ELSE {Listener})

-----------------------------------------------------------------------------
(* The clients and the signals.                                            *)

Arrive(c) ==
    /\ stage[c] = "away"
    /\ Len(backlog) < MaxBacklog
    /\ stage' = [stage EXCEPT ![c] = "queued"]
    /\ backlog' = Append(backlog, c)
    /\ edges' = Notify(Listener)
    /\ UNCHANGED <<inbox, part, hung, fds, nevents, pc, batch, cur, stale, flags>>

\* The whole, or the rest, of a message.  A client may go on forever, also on
\* one connection.
Send(c) ==
    /\ stage[c] # "away" /\ ~hung[c]
    /\ inbox[c] < MaxMsgs
    /\ inbox' = [inbox EXCEPT ![c] = @ + 1]
    /\ part' = [part EXCEPT ![c] = FALSE]
    /\ edges' = Notify(c)
    /\ UNCHANGED <<stage, hung, backlog, fds, nevents, pc, batch, cur, stale, flags>>

\* The beginning of a message, without its terminator.
SendPart(c) ==
    /\ ~whole
    /\ stage[c] # "away" /\ ~hung[c] /\ ~part[c]
    /\ inbox[c] < MaxMsgs
    /\ part' = [part EXCEPT ![c] = TRUE]
    /\ edges' = Notify(c)
    /\ UNCHANGED <<stage, inbox, hung, backlog, fds, nevents, pc, batch, cur, stale, flags>>

Hangup(c) ==
    /\ stage[c] # "away" /\ ~hung[c]
    /\ hung' = [hung EXCEPT ![c] = TRUE]
    /\ edges' = Notify(c)
    /\ UNCHANGED <<stage, inbox, part, backlog, fds, nevents, pc, batch, cur, stale, flags>>

\* SIGALRM: alarmhandler.  An interrupted wait is resumed inside Pool::wait.
Alarm ==
    /\ armed
    /\ armed' = FALSE
    /\ pong_flag' = TRUE
    /\ UNCHANGED <<client, edges, fds, nevents, pc, batch, cur, stale, reload_flag>>

\* SIGHUP: reloadhandler.
Hup ==
    /\ reload_flag' = TRUE
    /\ UNCHANGED <<client, edges, fds, nevents, pc, batch, cur, stale, pong_flag, armed>>

-----------------------------------------------------------------------------
(* The server's thread.                                                    *)

\* Mutant: the alarm is not set again after the pong.
Top_NoAlarm ==
    /\ pc = "top"
    /\ pong_flag' = FALSE
    /\ reload_flag' = FALSE
    /\ pc' = "wait"
    /\ UNCHANGED <<client, edges, fds, nevents, batch, cur, stale, armed>>

\* The top of the loop: the pong if it is due, the reload if it was asked
\* for.  Pool::flush finds nothing to drop (Sessions: IdleConnected).
Top ==
    /\ pc = "top"
    /\ pong_flag' = FALSE
    /\ armed' = (armed \/ pong_flag)
    /\ reload_flag' = FALSE
    /\ pc' = "wait"
    /\ UNCHANGED <<client, edges, fds, nevents, batch, cur, stale>>

\* Mutant: the event array has room for one event.
Wait_One ==
    /\ pc = "wait"
    /\ \E d \in Ready : batch' = {d} /\ edges' = edges \ {d}
    /\ pc' = "batch"
    /\ UNCHANGED <<client, fds, nevents, cur, stale, flags>>

\* Pool::wait returns what is ready,
Wait ==
    /\ pc = "wait"
    /\ Ready # {}
    /\ batch' = Ready
    /\ edges' = {}
    /\ pc' = "batch"
    /\ UNCHANGED <<client, fds, nevents, cur, stale, flags>>

\* or nothing, after TIMEOUT seconds.
Timeout ==
    /\ pc = "wait"
    /\ Ready = {}
    /\ pc' = "top"
    /\ UNCHANGED <<client, edges, fds, nevents, batch, cur, stale, flags>>

BatchDone ==
    /\ pc = "batch"
    /\ batch = {}
    /\ pc' = "top"
    /\ UNCHANGED <<client, edges, fds, nevents, batch, cur, stale, flags>>

\* Pool::add refuses a descriptor once maxfds are watched.
Full == nevents >= maxfds

\* Pool::add.  What is there already counts as new.
add(c) ==
    IF Full THEN UNCHANGED <<fds, nevents, edges>>
    ELSE /\ fds' = fds \cup {c}
         /\ nevents' = nevents + 1
         /\ edges' = IF HasInput(c) THEN edges \cup {c} ELSE edges

\* Mutant: one report of the listener empties the queue.
Open_All ==
    /\ pc = "batch" /\ Listener \in batch /\ backlog # <<>>
    /\ batch' = batch \ {Listener}
    /\ backlog' = <<>>
    /\ stage' = [c \in Conns |-> IF stage[c] = "queued" THEN "open" ELSE stage[c]]
    /\ UNCHANGED <<inbox, part, hung, edges, fds, nevents, pc, cur, stale, flags>>

\* Socket::open accepts one connection per report of the listener (with none
\* to accept it would spin on EAGAIN).  A connection the Pool refuses stays
\* open and is not watched: nothing will ever read or close it.
Open ==
    /\ pc = "batch" /\ Listener \in batch /\ backlog # <<>>
    /\ batch' = batch \ {Listener}
    /\ LET c == Head(backlog) IN
         /\ backlog' = Tail(backlog)
         /\ stage' = [stage EXCEPT ![c] = "open"]
         /\ add(c)
    /\ UNCHANGED <<inbox, part, hung, pc, cur, stale, flags>>

\* accept fails, for want of a descriptor for instance: open returns NULL, and
\* the connection stays in the queue.
OpenFails ==
    /\ pc = "batch" /\ Listener \in batch
    /\ batch' = batch \ {Listener}
    /\ UNCHANGED <<client, edges, fds, nevents, pc, cur, stale, flags>>

\* Mutant: the entry is not taken off the list it is served from.
Serve_Again(c) ==
    /\ pc = "batch" /\ c \in batch
    /\ cur' = c
    /\ pc' = "read"
    /\ stale' = FALSE
    /\ UNCHANGED <<client, edges, fds, nevents, batch, flags>>

\* Server::process starts on a connection that was reported.
Serve(c) ==
    /\ pc = "batch" /\ c \in batch
    /\ batch' = batch \ {c}
    /\ cur' = c
    /\ pc' = "read"
    /\ stale' = FALSE
    /\ UNCHANGED <<client, edges, fds, nevents, flags>>

\* Taking the last whole message, read_msg throws away what is behind it if
\* that is a single byte.
Behind(c) == IF inbox[c] = 1 THEN {part[c], FALSE} ELSE {part[c]}

\* Mutant: process handles one message per report.
ReadMsg_Once ==
    /\ pc = "read" /\ inbox[cur] > 0
    /\ inbox' = [inbox EXCEPT ![cur] = @ - 1]
    /\ \E p \in Behind(cur) : part' = [part EXCEPT ![cur] = p]
    /\ stale' = TRUE
    /\ \/ pc' = "batch" /\ cur' = NULL
       \/ pc' = "drop" /\ cur' = cur
    /\ UNCHANGED <<stage, hung, backlog, edges, fds, nevents, batch, flags>>

\* One turn of the read loop: the handler returns true, or false.  A client
\* that keeps sending keeps the loop turning.  (In the code Socket::in reads
\* until nothing is left before a message is taken: the thread may stay in
\* there as well, with the same effect on the others.)
ReadMsg ==
    /\ pc = "read" /\ inbox[cur] > 0
    /\ inbox' = [inbox EXCEPT ![cur] = @ - 1]
    /\ \E p \in Behind(cur) : part' = [part EXCEPT ![cur] = p]
    /\ stale' = TRUE
    /\ pc' \in {"read", "drop"}
    /\ UNCHANGED <<stage, hung, backlog, edges, fds, nevents, batch, cur, flags>>

\* The beginning of a message keeps the loop turning, also after the end of
\* the stream; if a message was handled before, its handler is called again,
\* and may return false this time.
Spin ==
    /\ pc = "read" /\ inbox[cur] = 0 /\ part[cur]
    /\ \/ UNCHANGED pc
       \/ stale /\ pc' = "drop"
    /\ UNCHANGED <<client, edges, fds, nevents, batch, cur, stale, flags>>

\* Nothing is left: process returns connected(), false after an end of stream.
Drained ==
    /\ pc = "read" /\ inbox[cur] = 0 /\ ~part[cur]
    /\ IF hung[cur] THEN pc' = "drop" /\ cur' = cur
                    ELSE pc' = "batch" /\ cur' = NULL
    /\ UNCHANGED <<client, edges, fds, nevents, batch, stale, flags>>

\* Mutant: the descriptor is erased, and still counted.
Drop_KeepCount ==
    /\ pc = "drop"
    /\ fds' = fds \ {cur}
    /\ nevents' = nevents
    /\ edges' = edges \ {cur}
    /\ stage' = [stage EXCEPT ![cur] = "away"]
    /\ inbox' = [inbox EXCEPT ![cur] = 0]
    /\ part' = [part EXCEPT ![cur] = FALSE]
    /\ hung' = [hung EXCEPT ![cur] = FALSE]
    /\ pc' = "batch" /\ cur' = NULL
    /\ UNCHANGED <<backlog, batch, stale, flags>>

\* Socket::disconnect: the destructor takes the descriptor out of the Pool
\* and closes it; the client may connect again.
Drop ==
    /\ pc = "drop"
    /\ fds' = fds \ {cur}
    /\ nevents' = nevents - 1
    /\ edges' = edges \ {cur}
    /\ stage' = [stage EXCEPT ![cur] = "away"]
    /\ inbox' = [inbox EXCEPT ![cur] = 0]
    /\ part' = [part EXCEPT ![cur] = FALSE]
    /\ hung' = [hung EXCEPT ![cur] = FALSE]
    /\ pc' = "batch" /\ cur' = NULL
    /\ UNCHANGED <<backlog, batch, stale, flags>>

Thread ==
    \/ Top \/ Wait \/ Timeout \/ BatchDone \/ Open \/ OpenFails
    \/ \E c \in Conns : Serve(c)
    \/ ReadMsg \/ Spin \/ Drained \/ Drop

Outside ==
    \/ \E c \in Conns : Arrive(c) \/ Send(c) \/ SendPart(c) \/ Hangup(c)
    \/ Alarm
    \/ Hup

Next == (Thread \/ Outside) /\ UNCHANGED given

Spec == Init /\ [][Next]_vars

\* The process is scheduled, its waits return, and a running alarm goes off;
\* nothing is assumed of the clients.
Fairness == WF_vars(Thread /\ UNCHANGED given) /\ WF_vars(Alarm /\ UNCHANGED given)

FairSpec == Spec /\ Fairness

-----------------------------------------------------------------------------
(* Properties.  One thread reads a connection until nothing is left, so it *)
(* serves nobody else while a client sends faster than it reads, or pauses *)
(* inside a message (Spin).  What is promised to the others is promised    *)
(* while neither lasts.                                                    *)

\* A client whose connection the thread stays on stops sending some time.
Yields == \A c \in Conns : <>[](cur = c) => <>[][~Send(c)]_vars

\* Clients send whole messages, and leave the thread time for the others.
Considerate == whole /\ Yields

\* The Pool's count is the number of descriptors it watches, and it never
\* exceeds the size of the event array epoll_wait fills.
PoolCounts ==
    /\ nevents = Cardinality(fds) + 1
    /\ nevents <= maxfds
    /\ \A c \in fds : stage[c] = "open"

\* The Pool's count is right, and every variable has its type.
PoolOK == TypeOK /\ PoolCounts

\* No Socket is deleted while rdyfds still holds a pointer to it.
BatchWatched ==
    /\ batch \subseteq fds \cup {Listener}
    /\ pc \in {"read", "drop"} => cur \in fds \ batch

\* A watched connection with something to read, or hung up, is on epoll's
\* list, in the batch or being read: no report is lost between the last read
\* of Server::process and the next wait.
NoInputLost ==
    \A c \in fds : HasInput(c) => c \in Ready \cup batch \/ cur = c

\* Every report of the listener finds a connection to accept: Socket::open
\* never turns on EAGAIN.
AcceptHasWork == Listener \in batch => backlog # <<>>

\* The pong becomes due and is sent, again and again, also when no client ever
\* sends anything, or all of them send forever, in turns: the timer is never
\* lost.
PongsGoOn == Considerate => []<>pong_flag /\ []<>~pong_flag

\* What a watched client has sent is read to the end and, once it has hung up,
\* its connection closed, though it and the others never stop sending for good.
InputServed ==
    Considerate => \A c \in Conns :
        (c \in fds /\ (inbox[c] > 0 \/ hung[c]))
            ~> (c \in fds => inbox[c] = 0 /\ ~hung[c])

\* With kqueue every connection the kernel has queued is accepted, also when
\* several come between two waits, unless accept fails again and again.
KqueueAccepts ==
    Considerate /\ ~epoll /\ <>[][~OpenFails]_vars
        => \A c \in Conns : stage[c] = "queued" ~> stage[c] # "queued"
=============================================================================
