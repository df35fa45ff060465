------------------------------- MODULE Framing -------------------------------
(***************************************************************************)
(* From the bytes of one connection to the messages its handlers get:      *)
(* Socket::in, Socket::read_msg, Message::parse and the loop of            *)
(* Server::process around them, while the bytes arrive at their own pace.  *)
(*                                                                         *)
(* The client prints its messages the way Message::build and Socket::out   *)
(* do: a line "key:value" for each field, a newline behind each line, and  *)
(* a NUL behind the message.  Of a line only its first byte is told from   *)
(* the rest of it, and of its content only what parse makes of it.  A line *)
(* that has lost its first byte is a field with another key.               *)
(***************************************************************************)
EXTENDS Naturals, FiniteSets, SequencesExt

CONSTANTS
    Messages,   \* what a client may send: sequences of lines
    MaxMsgs     \* bound: messages on one connection

\* What parse finds in a line: the field that names the handler, another
\* field, a field without a value, or no field (no ':', or two of them).
Lines == {"msg", "field", "novalue", "nofield"}

\* A Message has a key once.
ASSUME Printed ==
    \A t \in Messages :
        /\ t \in Seq(Lines) /\ t # <<>>
        /\ \A k, l \in DOMAIN t : t[k] = "msg" /\ t[l] = "msg" => k = l
ASSUME Bound == MaxMsgs \in Nat

VARIABLES
    msgs,     \* the messages of the client
    coming,   \* the byte that arrives next
    unread,   \* bytes that have arrived and have not been read
    hung,     \* the client has hung up
    pc,       \* where Server::process is
    s,        \* its buffer
    m,        \* its Message: where the fields come from
    calls,    \* Messages handlers were called with, repeated calls counted once
    thrown    \* bytes read_msg has thrown away

vars == <<msgs, coming, unread, hung, pc, s, m, calls, thrown>>

-----------------------------------------------------------------------------
(* The bytes on the wire: byte b of line l of message i.                   *)

Byte(i, l, b) == [msg |-> i, line |-> l, byte |-> b]

\* What is behind it: a newline behind each line, a NUL behind the last.
after(c) ==
    CASE c.byte = "first"   -> [c EXCEPT !.byte = "rest"]
      [] c.byte = "rest"    -> [c EXCEPT !.byte = "newline"]
      [] c.byte = "newline" -> IF c.line < Len(msgs[c.msg]) THEN Byte(c.msg, c.line + 1, "first")
                               ELSE Byte(c.msg, 0, "nul")
      [] c.byte = "nul"     -> Byte(c.msg + 1, 1, "first")

AllSent == coming.msg \notin DOMAIN msgs

isNul(c) == c.byte = "nul"

\* Socket::in reads all there is and turns '\n', '\r' and '~' into NUL.
in(bytes) == [k \in DOMAIN bytes |->
                 IF bytes[k].byte = "newline" THEN [bytes[k] EXCEPT !.byte = "nul"]
                 ELSE bytes[k]]

-----------------------------------------------------------------------------
(* Message::parse.                                                         *)

\* The fields of no message.
NoFields == [msg |-> 0, lines |-> {}]

\* Where a text has the lines it has bytes of.
LinesOf(text) == {k \in DOMAIN text : text[k].byte = "rest"}

IsWhole(text, c) == Contains(text, Byte(c.msg, c.line, "first"))

Content(text, c) ==
    LET line == msgs[c.msg][c.line]
    IN IF line = "msg" /\ ~IsWhole(text, c) THEN "field" ELSE line

\* find_key and find_value stop behind a field that has no value, and give up
\* at a line that is no field: parse then leaves the Message as it was.
parse(text, old) ==
    LET stops == {k \in LinesOf(text) : Content(text, text[k]) = "novalue"}
        read  == {k \in LinesOf(text) : \A j \in stops : k <= j}
    IN  IF \E k \in read : Content(text, text[k]) = "nofield" THEN old
        ELSE IF read = {} THEN NoFields
        ELSE [msg   |-> text[CHOOSE k \in read : \A j \in read : k <= j].msg,
              lines |-> {<<text[k].msg, text[k].line, IsWhole(text, text[k])>> : k \in read}]

\* m["msg"] is not empty.
Callable(fields) ==
    \E f \in fields.lines : f[3] /\ msgs[f[1]][f[2]] = "msg"

-----------------------------------------------------------------------------
(* Server::process.                                                        *)

Init ==
    /\ msgs \in BoundedSeq(Messages, MaxMsgs)
    /\ coming = Byte(1, 1, "first")
    /\ unread = <<>>
    /\ hung = FALSE
    /\ pc = "idle"
    /\ s = <<>>
    /\ m = NoFields
    /\ calls = <<>>
    /\ thrown = {}

Arrive ==
    /\ ~hung
    /\ ~AllSent
    /\ unread' = Append(unread, coming)
    /\ coming' = after(coming)
    /\ UNCHANGED <<msgs, hung, pc, s, m, calls, thrown>>

Hangup ==
    /\ ~hung
    /\ hung' = TRUE
    /\ UNCHANGED <<msgs, coming, unread, pc, s, m, calls, thrown>>

\* serve calls process for a connection that was reported.
Start ==
    /\ pc = "idle"
    /\ unread # <<>> \/ hung
    /\ pc' = "process"
    /\ s' = <<>>
    /\ m' = NoFields
    /\ UNCHANGED <<msgs, coming, unread, hung, calls, thrown>>

\* Mutant: what was read before goes behind what is read now.
Buffer_Behind == in(unread) \o s

\* read_msg appends what in() reads to what is left.
Buffer == s \o in(unread)

\* Mutant: the last terminator is looked for.
FirstNul_Last(buf) == SelectLastInSeq(buf, isNul)

\* Where the first message in the buffer ends, or 0.
FirstNul(buf) == SelectInSeq(buf, isNul)

\* Mutant: (i+3) for (i+2).
Behind_TwoBytes(buf, end) ==
    IF end + 2 < Len(buf) THEN SubSeq(buf, end + 1, Len(buf)) ELSE <<>>

\* What stays in the buffer behind the message: nothing if it is one byte.
Behind(buf, end) ==
    IF end + 1 < Len(buf) THEN SubSeq(buf, end + 1, Len(buf)) ELSE <<>>

\* The handler m["msg"] names, if any, returns true, or false.
Call(fields) ==
    IF Callable(fields)
    THEN /\ calls' = IF calls # <<>> /\ Last(calls) = fields THEN calls
                     ELSE Append(calls, fields)
         /\ pc' \in {"process", "dropped"}
    ELSE UNCHANGED <<calls, pc>>

\* One turn of the loop: read_msg finds a message, and it is handled.
Turn ==
    /\ pc = "process"
    /\ FirstNul(Buffer) # 0
    /\ LET end == FirstNul(Buffer)
       IN  /\ m' = parse(SubSeq(Buffer, 1, end - 1), m)
           /\ s' = Behind(Buffer, end)
           /\ thrown' = thrown \cup
                  (ToSet(SubSeq(Buffer, end + 1, Len(Buffer))) \ ToSet(s'))
    /\ unread' = <<>>
    /\ Call(m')
    /\ UNCHANGED <<msgs, coming, hung>>

\* No terminator yet: read_msg returns true and leaves the Message as it was,
\* which is handled again.
TurnAgain ==
    /\ pc = "process"
    /\ FirstNul(Buffer) = 0
    /\ Buffer # <<>>
    /\ s' = Buffer
    /\ unread' = <<>>
    /\ Call(m)
    /\ UNCHANGED <<msgs, coming, hung, m, thrown>>

\* Nothing is left: process returns connected().
Drained ==
    /\ pc = "process"
    /\ Buffer = <<>>
    /\ pc' = IF hung THEN "dropped" ELSE "idle"
    /\ UNCHANGED <<msgs, coming, unread, hung, s, m, calls, thrown>>

Next == Arrive \/ Hangup \/ Start \/ Turn \/ TurnAgain \/ Drained

Spec == Init /\ [][Next]_vars

-----------------------------------------------------------------------------
(* Properties.                                                             *)

TypeOK ==
    /\ msgs \in Seq(Messages) /\ Len(msgs) <= MaxMsgs
    /\ coming.msg \in 1..Len(msgs) + 1
    /\ \A k \in DOMAIN unread : unread[k].byte \in {"first", "rest", "newline", "nul"}
    /\ hung \in BOOLEAN
    /\ pc \in {"idle", "process", "dropped"}
    /\ \A c \in ToSet(s) \cup thrown : c.byte \in {"first", "rest", "nul"}
    /\ m.msg \in {0} \cup DOMAIN msgs

\* However the bytes are split over reads, no handler gets fields of two
\* messages at once.
NoMixture == \A k \in DOMAIN calls : \A f \in calls[k].lines : f[1] = calls[k].msg

\* Messages are handled in the order they were sent.  (The last one may be
\* handled again, by a partial message or a line that is no field behind it.)
InOrder == \A j, k \in DOMAIN calls : j < k => calls[j].msg < calls[k].msg

Handled(i) == \E k \in DOMAIN calls : calls[k].msg = i

\* What read_msg throws away is a terminator or the first byte of a line, and
\* nothing else is lost: when all that was sent has been read and process has
\* returned, every message that names a handler has been handled, or lost the
\* first byte of the line that names it.
Complete ==
    /\ \A c \in thrown : c.byte \in {"nul", "first"}
    /\ pc = "idle" /\ AllSent /\ unread = <<>> =>
          \A i \in DOMAIN msgs : \A l \in DOMAIN msgs[i] :
              msgs[i][l] = "msg" => Handled(i) \/ Byte(i, l, "first") \in thrown

\* Nothing else is lost, and every variable has its type.
FramingOK == TypeOK /\ Complete
=============================================================================
