-------------------------------- MODULE Output --------------------------------
(***************************************************************************)
(* What the server writes: Socket::out and the calls that go through it,   *)
(* a reply to one client and a broadcast to several, against peers that    *)
(* read at their own pace, stop reading, or are gone.                      *)
(*                                                                         *)
(* The sockets do not block: a write takes what there is room for, at      *)
(* least a byte, or fails.  Its -1 is stored in a size_t, so the test for  *)
(* an error is never true, and adding it takes one off written.            *)
(*                                                                         *)
(* The kernel delivers what it took in the order it took it, so a peer     *)
(* gets what the writes say; the model keeps how far they got.             *)
(***************************************************************************)
EXTENDS Naturals, Sequences

CONSTANTS
    Conns,     \* logged-in clients
    NULL,
    Room,      \* bytes the kernel holds for a peer that does not read
    MaxLen,    \* bound: the length of a message
    MaxMsgs,   \* bound: messages sent
    Width      \* the number of values of a size_t

ASSUME Nobody == NULL \notin Conns

\* A message is far shorter than the address space.
ASSUME Sizes == /\ Room \in Nat \ {0}
                /\ MaxLen \in Nat \ {0}
                /\ MaxMsgs \in Nat
                /\ Width \in Nat /\ MaxLen + 1 < Width

VARIABLES
    peer,      \* connection -> what the other end does
    used,      \* connection -> bytes the kernel holds for it
    pc,        \* where the thread is
    todo,      \* connections the message is still to be written to
    cur,       \* the one Socket::out is on
    len,       \* the length of the message
    written    \* out's size_t

\* How far the call got, and what became of the ones before.
VARIABLES
    high,      \* bytes of the message the kernel has taken, from the first
    again,     \* it took some of them twice
    failed,    \* a write failed
    log        \* one entry for each call of out that returned

call    == <<pc, todo, cur, len, written>>
history == <<high, again, failed, log>>
vars    == <<peer, used, call, history>>

SizeT   == 0..Width - 1
Outcome == [to : Conns, len : 1..MaxLen, high : 0..MaxLen, again : BOOLEAN,
            failed : BOOLEAN, sent : BOOLEAN]

TypeOK ==
    /\ peer \in [Conns -> {"reading", "stopped", "gone"}]
    /\ used \in [Conns -> 0..Room]
    /\ pc \in {"idle", "loop", "write"}
    /\ todo \subseteq Conns
    /\ cur \in Conns \cup {NULL}
    /\ len \in 0..MaxLen
    /\ written \in SizeT
    /\ high \in 0..len
    /\ again \in BOOLEAN
    /\ failed \in BOOLEAN
    /\ log \in Seq(Outcome)

Init ==
    /\ peer = [c \in Conns |-> "reading"]
    /\ used = [c \in Conns |-> 0]
    /\ pc = "idle"
    /\ todo = {}
    /\ cur = NULL
    /\ len = 0
    /\ written = 0
    /\ high = 0
    /\ again = FALSE
    /\ failed = FALSE
    /\ log = <<>>

-----------------------------------------------------------------------------
(* The peers.                                                              *)

Read(c) ==
    /\ peer[c] = "reading"
    /\ used[c] > 0
    /\ \E n \in 0..used[c] - 1 : used' = [used EXCEPT ![c] = n]
    /\ UNCHANGED <<peer, call, history>>

\* It stops reading for good, the connection staying up.
Stop(c) ==
    /\ peer[c] = "reading"
    /\ peer' = [peer EXCEPT ![c] = "stopped"]
    /\ UNCHANGED <<used, call, history>>

\* It resets the connection.  SIGPIPE is ignored: writes fail from now on.
Leave(c) ==
    /\ peer[c] # "gone"
    /\ peer' = [peer EXCEPT ![c] = "gone"]
    /\ used' = [used EXCEPT ![c] = 0]
    /\ UNCHANGED <<call, history>>

-----------------------------------------------------------------------------
(* The server's thread.                                                    *)

Least(m, n) == IF m < n THEN m ELSE n

\* A handler sends a message to one client, to a room, or to every user.
Send(n, to) ==
    /\ pc = "idle"
    /\ Len(log) + 1 <= MaxMsgs
    /\ len' = n
    /\ todo' = to
    /\ pc' = "loop"
    /\ UNCHANGED <<peer, used, cur, written, history>>

\* The next socket of the list: its build() makes the same text again.
Out(c) ==
    /\ pc = "loop"
    /\ c \in todo
    /\ todo' = todo \ {c}
    /\ cur' = c
    /\ pc' = "write"
    /\ UNCHANGED <<peer, used, len, written, history>>

\* How many bytes a write of what is left can take: none if it fails.
CanTake == IF peer[cur] = "gone" THEN 0 ELSE Least(len - written, Room - used[cur])

\* Mutant: the terminator is counted with every write.
add_Terminator(t) == (written + t + 1) % Width

\* Mutant: everything is taken to be written at once.
add_All(t) == len

\* written += t
add(t) == (written + t) % Width

Write ==
    /\ pc = "write"
    /\ written < len
    /\ \E t \in 1..CanTake :
          /\ used' = [used EXCEPT ![cur] = @ + t]
          /\ written' = add(t)
          /\ high' = IF written + t > high THEN written + t ELSE high
    /\ again' = (again \/ written < high)
    /\ UNCHANGED <<peer, pc, todo, cur, len, failed, log>>

\* out returns what it has written, and its caller makes this of it.
Ret(result, lost) ==
    /\ log' = Append(log, [to |-> cur, len |-> len, high |-> high, again |-> again,
                           failed |-> failed \/ lost, sent |-> result])
    /\ cur' = NULL
    /\ written' = 0
    /\ high' = 0
    /\ again' = FALSE
    /\ failed' = FALSE
    /\ pc' = IF todo = {} THEN "idle" ELSE "loop"

\* Mutant: t is signed: an error is one, and EAGAIN tries again.
Fail_Signed ==
    /\ pc = "write"
    /\ written < len
    /\ CanTake = 0
    /\ IF peer[cur] = "gone" THEN Ret(FALSE, TRUE)
       ELSE /\ failed' = TRUE
            /\ UNCHANGED <<pc, cur, written, high, again, log>>
    /\ UNCHANGED <<peer, used, todo, len>>

\* write returns -1.  The branch for errors is not taken, whatever errno says.
Fail ==
    /\ pc = "write"
    /\ written < len
    /\ CanTake = 0
    /\ written' = add(Width - 1)
    /\ failed' = TRUE
    /\ UNCHANGED <<peer, used, pc, todo, cur, len, high, again, log>>

\* s.size() > out(s) compares a size_t and an int: as size_t.
sent == ~(len > written)

\* The loop is over: the terminator, whose write nobody looks at.
Return ==
    /\ pc = "write"
    /\ written >= len
    /\ LET room == peer[cur] # "gone" /\ used[cur] < Room
       IN  /\ used' = IF room THEN [used EXCEPT ![cur] = @ + 1] ELSE used
           /\ Ret(sent, ~room)
    /\ UNCHANGED <<peer, todo, len>>

Thread ==
    \/ \E c \in Conns : Out(c)
    \/ Write \/ Fail \/ Return

Outside ==
    \/ \E c \in Conns : Read(c) \/ Stop(c) \/ Leave(c)
    \/ \E n \in 1..MaxLen, to \in (SUBSET Conns) \ {{}} : Send(n, to)

Next == Thread \/ Outside

\* The process is scheduled; nothing is assumed of the peers.
Spec == Init /\ [][Next]_vars /\ WF_vars(Thread)

-----------------------------------------------------------------------------
(* Properties.                                                             *)

\* Within a message no byte is ever skipped, wherever out goes back to: it
\* writes at most one byte further than what the kernel has taken.
NoGap == pc = "write" /\ written < len => written <= high

\* A client whose connection took every write it was asked to gets the message
\* whole, once, whatever the other peers of the broadcast do.
KeptUpIsWhole ==
    \A k \in DOMAIN log : ~log[k].failed => log[k].high = log[k].len /\ ~log[k].again

\* Socket::out never has its caller told that it failed: handlers never end a
\* connection because of what they wrote to it (Sessions: Reply).
AlwaysSent == \A k \in DOMAIN log : log[k].sent

\* A peer that does not read, or is gone, does not keep the thread: out comes
\* back from it, having gone back to the first byte of the message if need be.
OutReturns == \A c \in Conns : (cur = c /\ peer[c] # "reading") ~> cur # c
=============================================================================
