---------------------------- MODULE FramingProof ----------------------------
(***************************************************************************)
(* How the bytes of a connection become messages, for every conversation   *)
(* of any length.                                                          *)
(*                                                                         *)
(* What has arrived and is in no message yet is a piece of the stream      *)
(* (WireOK): its messages come in order, two bytes of different lines have *)
(* a terminator between them, and what is in front of a byte of a line is  *)
(* the line's, or was thrown away.  So a text up to the first terminator   *)
(* has bytes of one line (OneLine), and a Message has the field of one.    *)
(***************************************************************************)
EXTENDS Framing, SequenceTheorems, WellFoundedInduction, TLAPS

\* What Socket::in makes of a byte.
Taken(c) == IF c.byte = "newline" THEN [c EXCEPT !.byte = "nul"] ELSE c

Numbered == {"first", "rest", "newline"}

\* The bytes that may come next.
ComingOK(M, c) ==
    /\ c \in [msg : Nat, line : Nat, byte : Numbered \cup {"nul"}]
    /\ c.msg \in 1..Len(M) + 1
    /\ c.byte = "nul" => c.line = 0
    /\ c.byte \in Numbered => c.line > 0
    /\ c.msg \in DOMAIN M /\ c.byte # "nul" => c.line \in DOMAIN M[c.msg]
    /\ c.msg \notin DOMAIN M => c = Byte(c.msg, 1, "first")

\* The bytes of a buffer.
Bytes(M) ==
    {c \in [msg : DOMAIN M, line : Nat, byte : {"first", "rest", "nul"}] :
        /\ c.line > 0 => c.line \in DOMAIN M[c.msg]
        /\ c.byte # "nul" => c.line > 0}

SameLine(c, d) == c.msg = d.msg /\ c.line = d.line

\* The first byte of the line c is of is in front of position k, or was thrown
\* away.
Begun(B, T, c, k) ==
    \/ k = 1 /\ Byte(c.msg, c.line, "first") \in T
    \/ k > 1 /\ B[k - 1] = Byte(c.msg, c.line, "first")

\* And the second one.
Ended(B, c, k) == k > 1 /\ B[k - 1] = Byte(c.msg, c.line, "rest")

\* B, and what comes behind it.
WireOK(M, B, c, T) ==
    /\ B \in Seq(Bytes(M)) /\ ComingOK(M, c)
    /\ \A j, k \in DOMAIN B : j <= k =>
          /\ B[j].msg <= B[k].msg
          /\ SameLine(B[j], B[k]) \/ \E n \in j..k - 1 : isNul(B[n])
    /\ \A j \in DOMAIN B :
          /\ B[j].msg <= c.msg
          /\ SameLine(B[j], c) \/ \E n \in j..Len(B) : isNul(B[n])
    /\ \A k \in DOMAIN B :
          /\ B[k].byte = "rest" => Begun(B, T, B[k], k)
          /\ B[k].byte = "nul" /\ B[k].line > 0 => Ended(B, B[k], k)
    /\ c.byte = "rest" => Begun(B, T, c, Len(B) + 1)
    /\ c.byte = "newline" => Ended(B, c, Len(B) + 1)

\* The end of line l of message i has not been found yet.
Ahead(B, c, i, l) ==
    \/ c.msg < i
    \/ c.msg = i /\ c.line \in 1..l
    \/ \E k \in DOMAIN B : B[k] = Byte(i, l, "nul")

\* A message that names a handler is still to come, or was handled, or has lost
\* the first byte of that line.
NotLost(M, B, c, T) ==
    \A i \in DOMAIN M : \A l \in DOMAIN M[i] :
        M[i][l] = "msg" => Handled(i) \/ Byte(i, l, "first") \in T \/ Ahead(B, c, i, l)

\* The fields of one line.
Field(i, l, w) == [msg |-> i, lines |-> {<<i, l, w>>}]

MessageOK(M, f) ==
    \/ f = NoFields
    \/ \E i \in DOMAIN M : \E l \in DOMAIN M[i] : \E w \in BOOLEAN : f = Field(i, l, w)

\* A call was for the one line that names a handler, and for a message that is
\* not behind what is still to be read.
CallsOK(M, B, c) ==
    \A k \in DOMAIN calls :
        /\ \E i \in DOMAIN M : \E l \in DOMAIN M[i] :
              M[i][l] = "msg" /\ calls[k] = Field(i, l, TRUE)
        /\ calls[k].msg <= c.msg
        /\ \A j \in DOMAIN B : calls[k].msg <= B[j].msg

\* The Message that is handled again was the last one to be handled.
LastCalled == Callable(m) => calls # <<>> /\ Last(calls) = m

Fields == [msg : Nat, lines : SUBSET (Nat \X Nat \X BOOLEAN)]

RawBytes == [msg : Nat, line : Nat, byte : Numbered \cup {"nul"}]

Typed ==
    /\ msgs \in Seq(Messages) /\ Len(msgs) <= MaxMsgs
    /\ unread \in Seq(RawBytes)
    /\ hung \in BOOLEAN
    /\ pc \in {"idle", "process", "dropped"}
    /\ pc = "idle" => s = <<>>
    /\ s \in Seq(Bytes(msgs))
    /\ \A c \in thrown : c.byte \in {"nul", "first"}

IInv ==
    /\ Typed
    /\ WireOK(msgs, Buffer, coming, thrown)
    /\ NotLost(msgs, Buffer, coming, thrown)
    /\ MessageOK(msgs, m) /\ LastCalled
    /\ calls \in Seq(Fields)
    /\ CallsOK(msgs, Buffer, coming) /\ InOrder

-----------------------------------------------------------------------------
(* Sequences.                                                              *)

\* A set of natural numbers has a least one.
LEMMA LeastNatural ==
    ASSUME NEW T, \A n \in T : n \in Nat, NEW n0 \in T
    PROVE  \E x \in T : \A y \in T : x <= y
<1>1. IsWellFoundedOn(OpToRel(<, Nat), Nat)
  BY NatLessThanWellFounded
<1>2. T \subseteq Nat /\ T # {}
  OBVIOUS
<1>3. PICK x \in T : \A y \in T : ~(<<y, x>> \in OpToRel(<, Nat))
  BY <1>1, <1>2, WFMin
<1>4. ASSUME NEW y \in T
      PROVE  x <= y
  <2>1. ~(y < x)
    BY <1>3 DEF OpToRel
  <2> QED
    BY <2>1
<1> QED
  BY <1>4

\* FirstNul finds the first terminator, if there is one.
LEMMA FirstNulIs ==
    ASSUME NEW S, NEW B \in Seq(S)
    PROVE  /\ FirstNul(B) = 0 => \A n \in DOMAIN B : ~isNul(B[n])
           /\ FirstNul(B) # 0 => /\ FirstNul(B) \in DOMAIN B
                                 /\ isNul(B[FirstNul(B)])
                                 /\ \A n \in 1..FirstNul(B) - 1 : ~isNul(B[n])
<1> DEFINE I == {i \in 1..Len(B) : isNul(B[i])}
<1>1. FirstNul(B) = IF I # {} THEN Min(I) ELSE 0
  BY DEF FirstNul, SelectInSeq
<1>2. DOMAIN B = 1..Len(B) /\ Len(B) \in Nat
  OBVIOUS
<1>3. CASE I = {}
  BY <1>1, <1>2, <1>3
<1>4. CASE I # {}
  <2>1. PICK n0 \in I : TRUE
    BY <1>4
  <2>2. \A n \in I : n \in Nat
    OBVIOUS
  <2>3. \E x \in I : \A y \in I : x <= y
    BY <2>1, <2>2, LeastNatural
  <2>4. Min(I) \in I /\ \A y \in I : Min(I) <= y
    BY <2>3 DEF Min
  <2>5. FirstNul(B) = Min(I)
    BY <1>1, <1>4
  <2> HIDE DEF I
  <2>6. FirstNul(B) \in 1..Len(B) /\ isNul(B[FirstNul(B)])
    BY <2>4, <2>5 DEF I
  <2>7. ASSUME NEW n \in 1..FirstNul(B) - 1, isNul(B[n])
        PROVE  FALSE
    <3>1. n \in 1..Len(B) /\ n < FirstNul(B)
      BY <1>2, <2>6
    <3>2. n \in I
      BY <2>7, <3>1 DEF I
    <3> QED
      BY <2>4, <2>5, <2>6, <3>1, <3>2
  <2> QED
    BY <1>2, <2>6, <2>7
<1> QED
  BY <1>3, <1>4

\* in turns the bytes one by one.
LEMMA InIs ==
    ASSUME NEW u \in Seq(RawBytes)
    PROVE  /\ Len(in(u)) = Len(u) /\ DOMAIN in(u) = 1..Len(u)
           /\ \A k \in 1..Len(u) : in(u)[k] = Taken(u[k])
           /\ in(u) \in Seq(RawBytes)
<1>1. in(u) = [k \in 1..Len(u) |-> Taken(u[k])]
  BY DEF in, Taken
<1>2. \A k \in 1..Len(u) : Taken(u[k]) \in RawBytes
  <2>1. \A k \in 1..Len(u) : u[k] \in RawBytes
    BY ElementOfSeq
  <2> QED
    BY <2>1 DEF Taken, RawBytes, Numbered
<1> HIDE DEF Taken
<1>3. in(u) \in Seq(RawBytes)
  BY <1>1, <1>2, IsASeq
<1> QED
  BY <1>1, <1>3

-----------------------------------------------------------------------------
(* A byte arrives.                                                         *)

\* A message has lines.
LEMMA MessagesAre ==
    ASSUME msgs \in Seq(Messages), NEW i \in DOMAIN msgs
    PROVE  /\ msgs[i] \in Messages /\ msgs[i] \in Seq(Lines)
           /\ Len(msgs[i]) \in Nat /\ Len(msgs[i]) > 0
           /\ DOMAIN msgs[i] = 1..Len(msgs[i])
<1>1. msgs[i] \in Messages
  BY ElementOfSeq
<1>2. msgs[i] \in Seq(Lines) /\ msgs[i] # <<>>
  BY <1>1, Printed
<1> QED
  BY <1>1, <1>2, EmptySeq, LenProperties

\* What is behind a byte of a message is one that may come.
LEMMA AfterIs ==
    ASSUME msgs \in Seq(Messages), NEW c, ComingOK(msgs, c), c.msg \in DOMAIN msgs
    PROVE  /\ ComingOK(msgs, after(c))
           /\ c.msg <= after(c).msg
           /\ c.byte = "first" => SameLine(c, after(c)) /\ after(c).byte = "rest"
           /\ c.byte = "rest" => SameLine(c, after(c)) /\ after(c).byte = "newline"
           /\ c.byte \in {"newline", "nul"} => after(c).byte \in {"first", "nul"}
<1>1. /\ c \in [msg : Nat, line : Nat, byte : Numbered \cup {"nul"}]
      /\ c.msg \in 1..Len(msgs)
  BY DEF ComingOK
<1>2. /\ Len(msgs) \in Nat /\ Len(msgs[c.msg]) \in Nat /\ Len(msgs[c.msg]) > 0
      /\ DOMAIN msgs[c.msg] = 1..Len(msgs[c.msg])
  BY MessagesAre, LenProperties
<1>3. CASE c.byte \in {"first", "rest"}
  <2>1. /\ after(c) = [c EXCEPT !.byte = IF c.byte = "first" THEN "rest" ELSE "newline"]
    BY <1>3 DEF after
  <2> QED
    BY <1>1, <1>2, <1>3, <2>1 DEF ComingOK, SameLine, Numbered, Byte
<1>4. CASE c.byte = "newline" /\ c.line < Len(msgs[c.msg])
  <2>1. after(c) = Byte(c.msg, c.line + 1, "first")
    BY <1>4 DEF after
  <2> QED
    BY <1>1, <1>2, <1>4, <2>1 DEF ComingOK, Numbered, Byte
<1>5. CASE c.byte = "newline" /\ ~(c.line < Len(msgs[c.msg]))
  <2>1. after(c) = Byte(c.msg, 0, "nul")
    BY <1>5 DEF after
  <2> QED
    BY <1>1, <1>2, <1>5, <2>1 DEF ComingOK, Numbered, Byte
<1>6. CASE c.byte = "nul"
  <2>1. after(c) = Byte(c.msg + 1, 1, "first")
    BY <1>6 DEF after
  <2>2. c.msg + 1 \in 1..Len(msgs) + 1
    BY <1>1, <1>2
  <2>3. c.msg + 1 \in DOMAIN msgs => 1 \in DOMAIN msgs[c.msg + 1]
    BY MessagesAre
  <2> QED
    BY <1>1, <1>2, <1>6, <2>1, <2>2, <2>3 DEF ComingOK, Numbered, Byte
<1> QED
  BY <1>1, <1>3, <1>4, <1>5, <1>6 DEF Numbered

\* What the process reads of it.
LEMMA TakenIs ==
    ASSUME NEW M, NEW c, ComingOK(M, c), c.msg \in DOMAIN M
    PROVE  /\ Taken(c) \in Bytes(M) /\ SameLine(Taken(c), c)
           /\ isNul(Taken(c)) <=> c.byte \in {"newline", "nul"}
           /\ ~isNul(Taken(c)) => Taken(c) = c
           /\ Taken(c).byte = "nul" /\ Taken(c).line > 0 => c.byte = "newline"
           /\ c = Byte(c.msg, c.line, c.byte)
BY DEF ComingOK, Taken, Bytes, SameLine, isNul, Numbered, Byte

\* The buffer stays a piece of the stream when it grows by what comes next.
LEMMA WireGrows ==
    ASSUME msgs \in Seq(Messages), NEW B, NEW c, NEW T, WireOK(msgs, B, c, T),
           c.msg \in DOMAIN msgs
    PROVE  WireOK(msgs, Append(B, Taken(c)), after(c), T)
<1> DEFINE G == Append(B, Taken(c))
           n == Len(B) + 1
           d == after(c)
<1>1. ComingOK(msgs, c) /\ B \in Seq(Bytes(msgs))
  BY DEF WireOK
<1>2. /\ Taken(c) \in Bytes(msgs) /\ SameLine(Taken(c), c)
      /\ isNul(Taken(c)) <=> c.byte \in {"newline", "nul"}
      /\ ~isNul(Taken(c)) => Taken(c) = c
      /\ Taken(c).byte = "nul" /\ Taken(c).line > 0 => c.byte = "newline"
      /\ c = Byte(c.msg, c.line, c.byte)
  BY <1>1, TakenIs
<1>3. /\ ComingOK(msgs, d) /\ c.msg <= d.msg
      /\ c.byte = "first" => SameLine(c, d) /\ d.byte = "rest"
      /\ c.byte = "rest" => SameLine(c, d) /\ d.byte = "newline"
      /\ c.byte \in {"newline", "nul"} => d.byte \in {"first", "nul"}
  BY <1>1, AfterIs
<1>4. /\ c.msg \in Nat /\ d.msg \in Nat /\ c.byte \in {"first", "rest", "newline", "nul"}
      /\ Taken(c).msg = c.msg
  BY <1>1, <1>2, <1>3 DEF ComingOK, Numbered, SameLine
<1>5. /\ G \in Seq(Bytes(msgs)) /\ Len(G) = n /\ G[n] = Taken(c)
      /\ \A k \in 1..Len(B) : G[k] = B[k]
      /\ Len(B) \in Nat /\ DOMAIN G = 1..n /\ DOMAIN B = 1..Len(B)
  BY <1>1, <1>2, AppendProperties
<1>6. \A k \in DOMAIN B : B[k].msg \in Nat
  <2>1. \A b \in Bytes(msgs) : b.msg \in DOMAIN msgs
    BY DEF Bytes
  <2>2. DOMAIN msgs = 1..Len(msgs) /\ Len(msgs) \in Nat
    OBVIOUS
  <2>3. \A k \in DOMAIN B : B[k] \in Bytes(msgs)
    BY <1>1, ElementOfSeq
  <2> QED
    BY <2>1, <2>2, <2>3
<1> HIDE DEF G, d
<1>7. ASSUME NEW j \in 1..n, NEW k \in 1..n, j <= k
      PROVE  G[j].msg <= G[k].msg /\ (SameLine(G[j], G[k]) \/ \E i \in j..k - 1 : isNul(G[i]))
  <2>1. CASE k < n
    <3>1. j \in 1..Len(B) /\ k \in 1..Len(B) /\ \A i \in j..k - 1 : i \in 1..Len(B)
      BY <1>5, <1>7, <2>1
    <3>2. B[j].msg <= B[k].msg /\ (SameLine(B[j], B[k]) \/ \E i \in j..k - 1 : isNul(B[i]))
      BY <1>5, <1>7, <3>1 DEF WireOK
    <3> QED
      BY <1>5, <3>1, <3>2
  <2>2. CASE k = n /\ j < n
    <3>1. j \in 1..Len(B) /\ \A i \in j..Len(B) : i \in 1..Len(B)
      BY <1>5, <1>7, <2>2
    <3>2. B[j].msg <= c.msg /\ (SameLine(B[j], c) \/ \E i \in j..Len(B) : isNul(B[i]))
      BY <1>5, <3>1 DEF WireOK
    <3>3. n - 1 = Len(B)
      BY <1>5
    <3>4. SameLine(G[j], G[k]) \/ \E i \in j..k - 1 : isNul(G[i])
      BY <1>2, <1>5, <2>2, <3>1, <3>2, <3>3 DEF SameLine
    <3> QED
      BY <1>4, <1>5, <2>2, <3>1, <3>2, <3>4
  <2>3. CASE k = n /\ j = n
    BY <1>4, <1>5, <2>3 DEF SameLine
  <2> QED
    BY <1>5, <1>7, <2>1, <2>2, <2>3
<1>8. ASSUME NEW j \in 1..n
      PROVE  G[j].msg <= d.msg /\ (SameLine(G[j], d) \/ \E i \in j..n : isNul(G[i]))
  <2>1. n \in 1..n /\ j <= n /\ \A i \in j..n - 1 : i \in j..n
    BY <1>5
  <2>2. G[j].msg <= c.msg /\ (SameLine(G[j], c) \/ \E i \in j..n - 1 : isNul(G[i]))
    BY <1>2, <1>4, <1>5, <1>7, <2>1 DEF SameLine
  <2>3. CASE c.byte \in {"first", "rest"}
    BY <1>3, <1>4, <2>1, <2>2, <2>3 DEF SameLine
  <2>4. CASE c.byte \in {"newline", "nul"}
    <3>1. isNul(G[n]) /\ n \in j..n
      BY <1>2, <1>5, <2>1, <2>4
    <3>2. G[j].msg \in Nat
      <4>1. j = n \/ (j \in DOMAIN B /\ G[j] = B[j])
        BY <1>5
      <4>2. G[n].msg \in Nat
        BY <1>4, <1>5
      <4> QED
        BY <1>6, <4>1, <4>2
    <3>3. G[j].msg <= d.msg
      BY <1>3, <1>4, <2>2, <3>2
    <3>4. \E i \in j..n : isNul(G[i])
      BY <3>1
    <3> QED
      BY <3>3, <3>4
  <2> QED
    BY <1>4, <2>3, <2>4
<1>9. \A e : \A k \in 1..n : Begun(B, T, e, k) => Begun(G, T, e, k)
  BY <1>5 DEF Begun
<1>10. \A e : \A k \in 1..n : Ended(B, e, k) => Ended(G, e, k)
  BY <1>5 DEF Ended
<1>11. ASSUME NEW k \in 1..n
       PROVE  /\ G[k].byte = "rest" => Begun(G, T, G[k], k)
              /\ G[k].byte = "nul" /\ G[k].line > 0 => Ended(G, G[k], k)
  <2>1. CASE k < n
    BY <1>5, <1>9, <1>10, <2>1 DEF WireOK
  <2>2. CASE k = n
    <3>1. /\ c.byte = "rest" => Begun(G, T, c, n)
          /\ c.byte = "newline" => Ended(G, c, n)
      BY <1>9, <1>10, <2>2 DEF WireOK
    <3>2. G[k].byte = "rest" => G[k] = c /\ c.byte = "rest"
      BY <1>2, <1>5, <2>2 DEF isNul
    <3>3. G[k].byte = "nul" /\ G[k].line > 0 => Ended(G, G[k], k)
      BY <1>2, <1>5, <2>2, <3>1 DEF Ended, SameLine
    <3> QED
      BY <2>2, <3>1, <3>2, <3>3
  <2> QED
    BY <1>5, <2>1, <2>2
<1>12. d.byte = "rest" => Begun(G, T, d, n + 1)
  <2> SUFFICES ASSUME d.byte = "rest"
               PROVE  Begun(G, T, d, n + 1)
    OBVIOUS
  <2>1. c.byte = "first" /\ SameLine(c, d)
    BY <1>3, <1>4
  <2>2. G[n] = Byte(d.msg, d.line, "first")
    BY <1>2, <1>5, <2>1 DEF SameLine
  <2> QED
    BY <1>5, <2>2 DEF Begun
<1>13. d.byte = "newline" => Ended(G, d, n + 1)
  <2> SUFFICES ASSUME d.byte = "newline"
               PROVE  Ended(G, d, n + 1)
    OBVIOUS
  <2>1. c.byte = "rest" /\ SameLine(c, d)
    BY <1>3, <1>4
  <2>2. G[n] = Byte(d.msg, d.line, "rest")
    BY <1>2, <1>5, <2>1 DEF SameLine
  <2> QED
    BY <1>5, <2>2 DEF Ended
<1> QED
  BY <1>3, <1>5, <1>7, <1>8, <1>11, <1>12, <1>13 DEF WireOK, G, d

-----------------------------------------------------------------------------
(* A message is taken out of the buffer.                                   *)

\* What stays in the buffer, and what does not.
LEMMA BehindIs ==
    ASSUME NEW S, NEW B \in Seq(S), NEW e \in DOMAIN B
    PROVE  LET D == Behind(B, e)
               L == ToSet(SubSeq(B, e + 1, Len(B))) \ ToSet(D)
           IN  \/ /\ e + 1 < Len(B) /\ L = {}
                  /\ D \in Seq(S) /\ Len(D) = Len(B) - e
                  /\ \A k \in 1..Len(D) : D[k] = B[e + k]
               \/ e + 1 = Len(B) /\ D = <<>> /\ L = {B[Len(B)]}
               \/ e = Len(B) /\ D = <<>> /\ L = {}
<1> DEFINE R == SubSeq(B, e + 1, Len(B))
           D == Behind(B, e)
<1>1. e \in 1..Len(B) /\ Len(B) \in Nat
  OBVIOUS
<1>2. /\ R \in Seq(S) /\ Len(R) = Len(B) - e
      /\ \A k \in 1..Len(R) : R[k] = B[e + k]
  <2>1. /\ e + 1 \in 1..Len(B) + 1 /\ Len(B) \in e..Len(B)
    BY <1>1
  <2> QED
    BY <1>1, <2>1, SubSeqProperties
<1>3. CASE e + 1 < Len(B)
  <2>1. D = R
    BY <1>3 DEF Behind
  <2> QED
    BY <1>2, <1>3, <2>1
<1>4. CASE e + 1 = Len(B)
  <2>1. D = <<>> /\ Len(R) = 1 /\ R[1] = B[Len(B)]
    BY <1>1, <1>2, <1>4 DEF Behind
  <2>2. ToSet(R) = {B[Len(B)]}
    <3>1. DOMAIN R = {1}
      <4>1. DOMAIN R = 1..Len(R)
        BY <1>2, LenProperties
      <4>2. \A k : k \in 1..1 <=> k = 1
        OBVIOUS
      <4> HIDE DEF R
      <4> QED
        BY <2>1, <4>1, <4>2
    <3> HIDE DEF R
    <3> QED
      BY <2>1, <3>1 DEF ToSet
  <2>3. ToSet(D) = {}
    BY <2>1 DEF ToSet
  <2> QED
    BY <1>4, <2>1, <2>2, <2>3
<1>5. CASE e = Len(B)
  <2>1. D = <<>> /\ Len(R) = 0
    BY <1>1, <1>2, <1>5 DEF Behind
  <2>2. ToSet(R) = {}
    BY <1>2, <2>1 DEF ToSet
  <2> QED
    BY <1>5, <2>1, <2>2
<1> QED
  BY <1>1, <1>3, <1>4, <1>5

\* The bytes that are not kept.
Dropped(B, e) == ToSet(SubSeq(B, e + 1, Len(B))) \ ToSet(Behind(B, e))

\* The rest is a piece of the stream again; the one byte that may be thrown away
\* is a terminator or the first of a line.
LEMMA WireCut ==
    ASSUME NEW M, NEW B, NEW c, NEW T, WireOK(M, B, c, T), M \in Seq(Messages),
           NEW e \in DOMAIN B, isNul(B[e])
    PROVE  /\ WireOK(M, Behind(B, e), c, T \cup Dropped(B, e))
           /\ \A b \in Dropped(B, e) : b.byte \in {"nul", "first"}
<1> SUFFICES ASSUME NEW D, D = Behind(B, e), NEW L, L = Dropped(B, e)
             PROVE  WireOK(M, D, c, T \cup L) /\ \A b \in L : b.byte \in {"nul", "first"}
  OBVIOUS
<1>1. /\ B \in Seq(Bytes(M)) /\ e \in 1..Len(B) /\ Len(B) \in Nat /\ DOMAIN B = 1..Len(B)
      /\ ComingOK(M, c)
  BY DEF WireOK
<1>2. B[e].byte = "nul"
  BY DEF isNul
<1>3. \A b : ~Begun(B, T, b, e + 1) /\ ~Ended(B, b, e + 1)
  BY <1>1, <1>2 DEF Begun, Ended, Byte
<1>4. e + 1 \in DOMAIN B => B[e + 1].byte \in {"nul", "first"}
                            /\ (B[e + 1].byte = "nul" => ~(B[e + 1].line > 0))
  <2> SUFFICES ASSUME e + 1 \in DOMAIN B
               PROVE  /\ B[e + 1].byte \in {"nul", "first"}
                      /\ (B[e + 1].byte = "nul" => ~(B[e + 1].line > 0))
    OBVIOUS
  <2>1. B[e + 1].byte # "rest"
    BY <1>3 DEF WireOK
  <2>2. B[e + 1] \in Bytes(M)
    BY <1>1, ElementOfSeq
  <2>3. B[e + 1].byte \in {"first", "rest", "nul"}
    BY <2>2 DEF Bytes
  <2>4. B[e + 1].byte = "nul" => ~(B[e + 1].line > 0)
    BY <1>3 DEF WireOK
  <2> QED
    BY <2>1, <2>3, <2>4
<1>5. CASE e + 1 < Len(B) /\ L = {} /\ D \in Seq(Bytes(M)) /\ Len(D) = Len(B) - e
           /\ \A k \in 1..Len(D) : D[k] = B[e + k]
  <2>1. /\ DOMAIN D = 1..Len(D) /\ Len(D) \in Nat /\ Len(D) > 1
        /\ \A k \in 1..Len(D) : e + k \in DOMAIN B
    BY <1>1, <1>5
  <2>2. ASSUME NEW j \in 1..Len(D), NEW k \in 1..Len(D), j <= k
        PROVE  D[j].msg <= D[k].msg /\ (SameLine(D[j], D[k]) \/ \E n \in j..k - 1 : isNul(D[n]))
    <3>1. e + j \in DOMAIN B /\ e + k \in DOMAIN B /\ e + j <= e + k
      BY <1>1, <2>1, <2>2
    <3>2. /\ B[e + j].msg <= B[e + k].msg
          /\ SameLine(B[e + j], B[e + k]) \/ \E n \in e + j..(e + k) - 1 : isNul(B[n])
      BY <3>1 DEF WireOK
    <3>3. CASE SameLine(B[e + j], B[e + k])
      BY <1>5, <3>2, <3>3
    <3>4. ASSUME NEW n \in e + j..(e + k) - 1, isNul(B[n])
          PROVE  \E i \in j..k - 1 : isNul(D[i])
      <4>1. n - e \in j..k - 1 /\ n - e \in 1..Len(D) /\ e + (n - e) = n
        BY <1>1, <2>1
      <4> QED
        BY <1>5, <3>4, <4>1
    <3> QED
      BY <1>5, <3>2, <3>3, <3>4
  <2>3. ASSUME NEW j \in 1..Len(D)
        PROVE  D[j].msg <= c.msg /\ (SameLine(D[j], c) \/ \E n \in j..Len(D) : isNul(D[n]))
    <3>1. /\ B[e + j].msg <= c.msg
          /\ SameLine(B[e + j], c) \/ \E n \in e + j..Len(B) : isNul(B[n])
      BY <2>1 DEF WireOK
    <3>2. CASE SameLine(B[e + j], c)
      BY <1>5, <3>1, <3>2
    <3>3. ASSUME NEW n \in e + j..Len(B), isNul(B[n])
          PROVE  \E i \in j..Len(D) : isNul(D[i])
      <4>1. n - e \in j..Len(D) /\ n - e \in 1..Len(D) /\ e + (n - e) = n
        BY <1>1, <1>5, <2>1
      <4> QED
        BY <1>5, <3>3, <4>1
    <3> QED
      BY <1>5, <3>1, <3>2, <3>3
  <2>4. ASSUME NEW b, NEW k \in 1..Len(D) + 1
        PROVE  /\ Begun(B, T, b, e + k) => Begun(D, T, b, k)
               /\ Ended(B, b, e + k) => Ended(D, b, k)
    <3>1. CASE k = 1
      BY <1>3, <3>1
    <3>2. CASE k > 1
      <4>1. k - 1 \in 1..Len(D) /\ e + (k - 1) = (e + k) - 1 /\ e + k # 1
        BY <1>1, <2>1, <3>2
      <4>2. D[k - 1] = B[(e + k) - 1]
        BY <1>5, <4>1
      <4> QED
        BY <3>2, <4>1, <4>2 DEF Begun, Ended
    <3> QED
      BY <2>1, <3>1, <3>2
  <2>5. ASSUME NEW k \in 1..Len(D)
        PROVE  /\ D[k].byte = "rest" => Begun(D, T, D[k], k)
               /\ D[k].byte = "nul" /\ D[k].line > 0 => Ended(D, D[k], k)
    <3>1. k \in 1..Len(D) + 1 /\ e + k \in DOMAIN B /\ D[k] = B[e + k]
      BY <1>5, <2>1
    <3>2. /\ B[e + k].byte = "rest" => Begun(B, T, B[e + k], e + k)
          /\ B[e + k].byte = "nul" /\ B[e + k].line > 0 => Ended(B, B[e + k], e + k)
      BY <3>1 DEF WireOK
    <3> QED
      BY <2>4, <3>1, <3>2
  <2>6. /\ c.byte = "rest" => Begun(D, T, c, Len(D) + 1)
        /\ c.byte = "newline" => Ended(D, c, Len(D) + 1)
    <3>1. Len(D) + 1 \in 1..Len(D) + 1 /\ e + (Len(D) + 1) = Len(B) + 1
      BY <1>1, <1>5, <2>1
    <3> QED
      BY <2>4, <3>1 DEF WireOK
  <2>7. T \cup L = T
    BY <1>5
  <2> QED
    BY <1>1, <1>5, <2>1, <2>2, <2>3, <2>5, <2>6, <2>7 DEF WireOK
<1>6. CASE e + 1 = Len(B) /\ D = <<>> /\ L = {B[Len(B)]}
  <2>1. B[e + 1].byte \in {"nul", "first"}
    BY <1>1, <1>4, <1>6
  <2>2. c.byte = "rest" => Begun(D, T \cup L, c, 1)
    <3> SUFFICES ASSUME c.byte = "rest"
                 PROVE  Byte(c.msg, c.line, "first") \in L
      BY DEF Begun
    <3>1. Begun(B, T, c, Len(B) + 1)
      BY DEF WireOK
    <3>2. (Len(B) + 1) - 1 = Len(B) /\ Len(B) + 1 # 1
      BY <1>1, <1>6
    <3> QED
      BY <1>6, <3>1, <3>2 DEF Begun
  <2>3. c.byte # "newline"
    <3> SUFFICES ASSUME c.byte = "newline"
                 PROVE  FALSE
      OBVIOUS
    <3>1. Ended(B, c, Len(B) + 1)
      BY DEF WireOK
    <3>2. (Len(B) + 1) - 1 = e + 1
      BY <1>1, <1>6
    <3>3. B[e + 1].byte = "rest"
      BY <3>1, <3>2 DEF Ended, Byte
    <3> QED
      BY <2>1, <3>3
  <2>4. D \in Seq(Bytes(M)) /\ Len(D) = 0 /\ DOMAIN D = {}
    BY <1>6
  <2>5. Len(D) + 1 = 1
    BY <2>4
  <2>6. \A b \in L : b.byte \in {"nul", "first"}
    BY <1>6, <2>1
  <2>7. WireOK(M, D, c, T \cup L)
    BY <1>1, <2>2, <2>3, <2>4, <2>5 DEF WireOK
  <2> QED
    BY <2>6, <2>7
<1>7. CASE e = Len(B) /\ D = <<>> /\ L = {}
  <2>1. c.byte # "rest" /\ c.byte # "newline"
    BY <1>3, <1>7 DEF WireOK
  <2>2. D \in Seq(Bytes(M)) /\ Len(D) = 0 /\ DOMAIN D = {}
    BY <1>7
  <2>3. WireOK(M, D, c, T \cup L)
    BY <1>1, <2>1, <2>2 DEF WireOK
  <2> QED
    BY <1>7, <2>3
<1> QED
  <2>1. \/ /\ e + 1 < Len(B) /\ L = {}
           /\ D \in Seq(Bytes(M)) /\ Len(D) = Len(B) - e
           /\ \A k \in 1..Len(D) : D[k] = B[e + k]
        \/ e + 1 = Len(B) /\ D = <<>> /\ L = {B[Len(B)]}
        \/ e = Len(B) /\ D = <<>> /\ L = {}
    BY <1>1, BehindIs DEF Dropped
  <2> QED
    BY <1>5, <1>6, <1>7, <2>1

-----------------------------------------------------------------------------
(* The text up to the first terminator.                                    *)

FirstAt(B, e) == e \in DOMAIN B /\ isNul(B[e]) /\ \A n \in 1..e - 1 : ~isNul(B[n])

TextOf(B, e) == SubSeq(B, 1, e - 1)

\* It has bytes of one line, the one the terminator ends or is behind.
LEMMA OneLine ==
    ASSUME NEW M, NEW B, NEW c, NEW T, WireOK(M, B, c, T), NEW e, FirstAt(B, e)
    PROVE  LET text == TextOf(B, e) IN
           /\ text \in Seq(Bytes(M)) /\ Len(text) = e - 1 /\ DOMAIN text = 1..e - 1
           /\ \A k \in 1..e - 1 : text[k] = B[k] /\ SameLine(B[k], B[e])
<1> DEFINE text == TextOf(B, e)
<1>1. /\ B \in Seq(Bytes(M)) /\ e \in 1..Len(B) /\ Len(B) \in Nat /\ DOMAIN B = 1..Len(B)
  BY DEF WireOK, FirstAt
<1>2. /\ text \in Seq(Bytes(M)) /\ Len(text) = e - 1
      /\ \A k \in 1..e - 1 : text[k] = B[k]
  <2>1. 1 \in 1..Len(B) + 1 /\ e - 1 \in 1 - 1..Len(B)
    BY <1>1
  <2>2. /\ SubSeq(B, 1, e - 1) \in Seq(Bytes(M))
        /\ Len(SubSeq(B, 1, e - 1)) = IF 1 <= e - 1 THEN (e - 1) - 1 + 1 ELSE 0
        /\ \A i \in 1..(e - 1) - 1 + 1 : SubSeq(B, 1, e - 1)[i] = B[1 + i - 1]
    BY <1>1, <2>1, SubSeqProperties
  <2> QED
    BY <1>1, <2>2 DEF TextOf
<1>3. DOMAIN text = 1..e - 1
  BY <1>2, LenProperties
<1>4. ASSUME NEW k \in 1..e - 1
      PROVE  SameLine(B[k], B[e])
  <2>1. k \in DOMAIN B /\ e \in DOMAIN B /\ k <= e
    BY <1>1
  <2>2. SameLine(B[k], B[e]) \/ \E n \in k..e - 1 : isNul(B[n])
    BY <2>1 DEF WireOK
  <2>3. \A n \in k..e - 1 : n \in 1..e - 1
    BY <1>1
  <2> QED
    BY <2>2, <2>3 DEF FirstAt
<1> QED
  BY <1>2, <1>3, <1>4

\* p has the field of line l of message i, or what was there before, or none;
\* and the field, if it names the handler and its first byte was kept.
ParsedOK(i, l, T, p, old) ==
    /\ i \in DOMAIN msgs
    /\ \/ p = old \/ p = NoFields
       \/ l \in DOMAIN msgs[i] /\ \E w \in BOOLEAN : p = Field(i, l, w)
    /\ l > 0 /\ msgs[i][l] = "msg" =>
          Byte(i, l, "first") \in T \/ p = Field(i, l, TRUE)

\* That is what parse finds, in a text of one line.
LEMMA ParseIs ==
    ASSUME msgs \in Seq(Messages), NEW B, NEW c, NEW T, WireOK(msgs, B, c, T),
           NEW e, FirstAt(B, e), NEW old
    PROVE  ParsedOK(B[e].msg, B[e].line, T, parse(TextOf(B, e), old), old)
<1> DEFINE i == B[e].msg
           l == B[e].line
           text == TextOf(B, e)
           p == parse(text, old)
           line == Byte(i, l, "rest")
           w == IsWhole(text, line)
           stops == {k \in LinesOf(text) : Content(text, text[k]) = "novalue"}
           read  == {k \in LinesOf(text) : \A j \in stops : k <= j}
<1>1. /\ B \in Seq(Bytes(msgs)) /\ e \in 1..Len(B) /\ Len(B) \in Nat
      /\ B[e] \in Bytes(msgs)
  BY ElementOfSeq DEF WireOK, FirstAt
<1>2. /\ i \in DOMAIN msgs /\ l \in Nat /\ (l > 0 => l \in DOMAIN msgs[i])
      /\ B[e] = Byte(i, l, "nul")
  BY <1>1 DEF Bytes, isNul, Byte, FirstAt
<1>3. /\ text \in Seq(Bytes(msgs)) /\ Len(text) = e - 1 /\ DOMAIN text = 1..e - 1
      /\ \A k \in 1..e - 1 : text[k] = B[k] /\ SameLine(B[k], B[e])
      /\ \A k \in LinesOf(text) : text[k] = line
  <2>1. text \in Seq(Bytes(msgs))
    BY OneLine
  <2>2. Len(text) = e - 1 /\ DOMAIN text = 1..e - 1
    BY OneLine
  <2>3. \A k \in 1..e - 1 : text[k] = B[k] /\ SameLine(B[k], B[e])
    BY OneLine
  <2>4. ASSUME NEW k \in LinesOf(text)
        PROVE  text[k] = Byte(B[e].msg, B[e].line, "rest")
    <3>1. k \in 1..e - 1 /\ text[k].byte = "rest"
      BY <2>2 DEF LinesOf
    <3>2. text[k] \in Bytes(msgs)
      BY <2>1, <2>2, <3>1, ElementOfSeq
    <3>3. text[k].msg = B[e].msg /\ text[k].line = B[e].line
      BY <2>3, <3>1 DEF SameLine
    <3> QED
      BY <3>1, <3>2, <3>3 DEF Bytes, Byte
  <2> QED
    BY <2>1, <2>2, <2>3, <2>4
<1>4. \A k \in LinesOf(text) : k \in 1..e - 1
  BY <1>3 DEF LinesOf
<1>5. line.msg = i /\ line.line = l /\ line.byte = "rest"
  BY DEF Byte
<1>6. w \in BOOLEAN
  BY DEF IsWhole, Contains
<1>7. ASSUME read # {}, ~\E k \in read : Content(text, text[k]) = "nofield"
      PROVE  p = Field(i, l, w)
  <2> DEFINE first == CHOOSE k \in read : \A j \in read : k <= j
             lines == {<<text[k].msg, text[k].line, IsWhole(text, text[k])>> : k \in read}
  <2>1. p = [msg |-> text[first].msg, lines |-> lines]
    BY <1>7 DEF parse
  <2>2. first \in read
    <3>1. \A k \in read : k \in Nat
      BY <1>4
    <3>2. PICK k0 : k0 \in read
      BY <1>7
    <3> HIDE DEF read
    <3>3. \E k \in read : \A j \in read : k <= j
      BY <3>1, <3>2, LeastNatural
    <3> QED
      BY <3>3
  <2>3. \A k \in read : text[k] = line
    BY <1>3
  <2> HIDE DEF read, first, p, w, line
  <2>4. text[first].msg = i
    BY <1>5, <2>2, <2>3
  <2>5. lines = {<<i, l, w>>}
    <3>1. \A k \in read : <<text[k].msg, text[k].line, IsWhole(text, text[k])>> = <<i, l, w>>
      BY <1>5, <2>3 DEF w
    <3>2. \E k \in read : TRUE
      BY <1>7
    <3> QED
      BY <3>1, <3>2
  <2> QED
    BY <2>1, <2>4, <2>5 DEF Field
<1>8. (\E k \in read : Content(text, text[k]) = "nofield") \/ read = {} => p = old \/ p = NoFields
  BY DEF parse
<1>9. ASSUME l > 0, msgs[i][l] = "msg"
      PROVE  Byte(i, l, "first") \in T \/ p = Field(i, l, TRUE)
  <2>1. e > 1 /\ B[e - 1] = line
    <3>1. Ended(B, B[e], e)
      <4>1. e \in DOMAIN B /\ B[e].byte = "nul" /\ B[e].line > 0
        BY <1>9 DEF FirstAt, isNul
      <4> QED
        BY <4>1 DEF WireOK
    <3> QED
      BY <3>1 DEF Ended
  <2>2. e - 1 \in 1..e - 1 /\ e - 1 \in DOMAIN B /\ e - 2 = (e - 1) - 1
    BY <1>1, <2>1
  <2>3. e - 1 \in LinesOf(text)
    BY <1>3, <1>5, <2>1, <2>2 DEF LinesOf
  <2>4. Begun(B, T, line, e - 1)
    BY <1>5, <2>1, <2>2 DEF WireOK
  <2>5. CASE Byte(i, l, "first") \in T
    BY <2>5
  <2>6. CASE e - 1 > 1 /\ B[e - 2] = Byte(i, l, "first")
    <3>1. e - 2 \in 1..e - 1 /\ e - 2 \in 1..Len(text)
      BY <1>1, <1>3, <2>6
    <3>2. w = TRUE
      <4>1. text[e - 2] = Byte(line.msg, line.line, "first")
        BY <1>3, <1>5, <2>6, <3>1
      <4> HIDE DEF line
      <4> QED
        BY <3>1, <4>1 DEF IsWhole, Contains
    <3>3. \A k \in LinesOf(text) : Content(text, text[k]) = "msg"
      BY <1>3, <1>5, <1>9, <3>2 DEF Content
    <3>4. stops = {} /\ read # {}
      BY <2>3, <3>3
    <3>5. ~\E k \in read : Content(text, text[k]) = "nofield"
      BY <3>3
    <3>6. p = Field(i, l, w)
      BY <1>7, <3>4, <3>5
    <3> QED
      BY <3>2, <3>6
  <2> QED
    BY <1>5, <2>4, <2>5, <2>6, <2>2 DEF Begun
<1>10. (p = old \/ p = NoFields) \/ (l \in DOMAIN msgs[i] /\ \E v \in BOOLEAN : p = Field(i, l, v))
  <2>1. CASE read # {} /\ ~\E k \in read : Content(text, text[k]) = "nofield"
    <3>1. l \in DOMAIN msgs[i]
      <4>1. PICK k \in read : TRUE
        BY <2>1
      <4>2. text[k] = line /\ text[k] \in Bytes(msgs)
        BY <1>3, <1>4, ElementOfSeq
      <4> QED
        BY <1>2, <1>5, <4>2 DEF Bytes
    <3> HIDE DEF p, w
    <3> QED
      BY <1>6, <1>7, <2>1, <3>1
  <2> QED
    BY <1>8, <2>1
<1> HIDE DEF p, w
<1> QED
  BY <1>2, <1>9, <1>10 DEF p, ParsedOK

-----------------------------------------------------------------------------
(* The calls.                                                              *)

\* What a Message has that a handler is called with: the line that names it.
LEMMA CallableIs ==
    ASSUME NEW f, MessageOK(msgs, f)
    PROVE  Callable(f) <=> \E i \in DOMAIN msgs : \E l \in DOMAIN msgs[i] :
                               msgs[i][l] = "msg" /\ f = Field(i, l, TRUE)
<1>1. CASE f = NoFields
  <2>1. f.lines = {}
    BY <1>1 DEF NoFields
  <2>2. \A i, l : Field(i, l, TRUE).lines # {}
    BY DEF Field
  <2> QED
    BY <2>1, <2>2 DEF Callable
<1>2. ASSUME NEW i \in DOMAIN msgs, NEW l \in DOMAIN msgs[i], NEW w \in BOOLEAN, f = Field(i, l, w)
      PROVE  Callable(f) <=> \E j \in DOMAIN msgs : \E k \in DOMAIN msgs[j] :
                                 msgs[j][k] = "msg" /\ f = Field(j, k, TRUE)
  <2>1. f.lines = {<<i, l, w>>}
    BY <1>2 DEF Field
  <2>2. Callable(f) <=> w /\ msgs[i][l] = "msg"
    BY <2>1 DEF Callable
  <2>3. ASSUME NEW j, NEW k, f = Field(j, k, TRUE)
        PROVE  i = j /\ l = k /\ w
    <3>1. <<i, l, w>> \in {<<j, k, TRUE>>}
      BY <2>1, <2>3 DEF Field
    <3> QED
      BY <3>1
  <2>4. w => w = TRUE
    OBVIOUS
  <2>5. ASSUME w, msgs[i][l] = "msg"
        PROVE  \E j \in DOMAIN msgs : \E k \in DOMAIN msgs[j] :
                   msgs[j][k] = "msg" /\ f = Field(j, k, TRUE)
    BY <1>2, <2>4, <2>5
  <2>6. ASSUME NEW j \in DOMAIN msgs, NEW k \in DOMAIN msgs[j],
               msgs[j][k] = "msg", f = Field(j, k, TRUE)
        PROVE  w /\ msgs[i][l] = "msg"
    <3>1. i = j /\ l = k /\ w
      BY <2>3, <2>6
    <3>2. msgs[i][l] = "msg"
      BY <2>6, <3>1
    <3> QED
      BY <3>1, <3>2
  <2> QED
    BY <2>2, <2>5, <2>6
<1> QED
  BY <1>1, <1>2 DEF MessageOK

Called(f) ==
    calls' = IF calls # <<>> /\ Last(calls) = f THEN calls ELSE Append(calls, f)

\* A handler is called for a message that none behind it was called for.
LEMMA NewCall ==
    ASSUME msgs \in Seq(Messages), calls \in Seq(Fields), InOrder,
           NEW B, NEW c, CallsOK(msgs, B, c),
           NEW i \in DOMAIN msgs, NEW l \in DOMAIN msgs[i], msgs[i][l] = "msg",
           \A k \in DOMAIN calls : calls[k].msg <= i,
           NEW f, f = Field(i, l, TRUE), Called(f)
    PROVE  /\ calls' \in Seq(Fields) /\ InOrder'
           /\ calls' # <<>> /\ Last(calls') = f
           /\ \A k \in DOMAIN calls : k \in DOMAIN calls' /\ calls'[k] = calls[k]
           /\ \A k \in DOMAIN calls' : calls'[k] = f \/ (k \in DOMAIN calls /\ calls'[k] = calls[k])
<1> DEFINE n == Len(calls)
<1>1. n \in Nat /\ DOMAIN calls = 1..n /\ (calls # <<>> <=> n > 0)
  BY EmptySeq, LenProperties
<1> HIDE DEF n
<1>2. f \in Fields /\ f.msg = i /\ i \in Nat
  <2>1. l \in Nat /\ i \in Nat
    BY MessagesAre
  <2>2. <<i, l, TRUE>> \in Nat \X Nat \X BOOLEAN
    BY <2>1
  <2> QED
    BY <2>1, <2>2 DEF Fields, Field
<1>3. CASE calls # <<>> /\ Last(calls) = f
  <2>1. calls' = calls
    BY <1>3 DEF Called
  <2> QED
    BY <1>3, <2>1 DEF InOrder
<1>4. CASE ~(calls # <<>> /\ Last(calls) = f)
  <2>1. calls' = Append(calls, f)
    BY <1>4 DEF Called
  <2>2. /\ calls' \in Seq(Fields) /\ Len(calls') = n + 1 /\ DOMAIN calls' = 1..n + 1
        /\ calls'[n + 1] = f /\ \A k \in 1..n : calls'[k] = calls[k]
    <3> DEFINE g == Append(calls, f)
    <3>1. g \in Seq(Fields) /\ Len(g) = n + 1 /\ g[n + 1] = f
      BY <1>2, AppendProperties DEF n
    <3>2. \A k \in 1..n : g[k] = calls[k]
      BY <1>2, AppendProperties DEF n
    <3>3. DOMAIN g = 1..n + 1
      BY <3>1, LenProperties
    <3> QED
      BY <2>1, <3>1, <3>2, <3>3
  <2>3. ASSUME NEW k \in 1..n, calls[k].msg = i
        PROVE  FALSE
    <3>0. PICK j \in DOMAIN msgs : \E h \in DOMAIN msgs[j] :
             msgs[j][h] = "msg" /\ calls[k] = Field(j, h, TRUE)
      BY <1>1 DEF CallsOK
    <3>1. PICK h \in DOMAIN msgs[j] : msgs[j][h] = "msg" /\ calls[k] = Field(j, h, TRUE)
      BY <3>0
    <3>2. j = i
      BY <2>3, <3>1 DEF Field
    <3>3. h = l
      <4>1. msgs[i] \in Messages
        BY MessagesAre
      <4> QED
        BY <3>1, <3>2, <4>1, Printed
    <3>4. calls[k] = f
      BY <3>1, <3>2, <3>3
    <3>5. CASE k = n
      BY <1>1, <1>4, <3>4, <3>5 DEF Last, n
    <3>6. CASE k < n
      <4>1. n \in DOMAIN calls /\ k \in DOMAIN calls
        BY <1>1
      <4>2. calls[k].msg < calls[n].msg
        BY <3>6, <4>1 DEF InOrder
      <4>3. calls[n].msg <= i /\ calls[n].msg \in Nat
        <5>1. calls[n] \in Fields
          BY <4>1, ElementOfSeq
        <5> QED
          BY <4>1, <5>1 DEF Fields
      <4> QED
        BY <1>2, <2>3, <4>2, <4>3
    <3> QED
      BY <1>1, <3>5, <3>6
  <2>4. \A k \in 1..n : calls[k].msg < i
    <3>1. \A k \in 1..n : calls[k] \in Fields
      BY <1>1, ElementOfSeq
    <3>2. \A k \in 1..n : calls[k].msg \in Nat /\ calls[k].msg <= i /\ calls[k].msg # i
      BY <1>1, <2>3, <3>1 DEF Fields
    <3> QED
      BY <1>2, <3>2
  <2>5. InOrder'
    <3> SUFFICES ASSUME NEW j \in 1..n + 1, NEW k \in 1..n + 1, j < k
                 PROVE  calls'[j].msg < calls'[k].msg
      BY <2>2 DEF InOrder
    <3>1. j \in 1..n
      BY <1>1
    <3>2. CASE k \in 1..n
      BY <1>1, <2>2, <3>1, <3>2 DEF InOrder
    <3>3. CASE k = n + 1
      BY <1>2, <2>2, <2>4, <3>1, <3>3
    <3> QED
      BY <1>1, <3>2, <3>3
  <2>6. calls' # <<>> /\ Last(calls') = f
    <3>1. Len(calls') > 0
      BY <1>1, <2>2
    <3> QED
      BY <2>2, <3>1, EmptySeq DEF Last
  <2>7. \A k \in 1..n + 1 : k = n + 1 \/ k \in 1..n
    BY <1>1
  <2>8. \A k \in 1..n : k \in 1..n + 1
    BY <1>1
  <2> QED
    BY <1>1, <2>2, <2>5, <2>6, <2>7, <2>8
<1> QED
  BY <1>3, <1>4

\* A Message that is handled again calls nothing that was not called last.
LEMMA SameCall ==
    ASSUME LastCalled, Call(m), pc = "process"
    PROVE  calls' = calls /\ pc' \in {"process", "dropped"}
BY DEF LastCalled, Call

-----------------------------------------------------------------------------
(* The buffer.                                                             *)

\* One byte more.
LEMMA OneMore ==
    ASSUME NEW u \in Seq(RawBytes), NEW t \in Seq(RawBytes), NEW c \in RawBytes
    PROVE  t \o in(Append(u, c)) = Append(t \o in(u), Taken(c))
<1> DEFINE v == Append(u, c)
<1>1. /\ v \in Seq(RawBytes) /\ Len(v) = Len(u) + 1 /\ v[Len(u) + 1] = c
      /\ \A k \in 1..Len(u) : v[k] = u[k]
  BY AppendProperties
<1>2. Taken(c) \in RawBytes
  BY DEF Taken, RawBytes, Numbered
<1>3. /\ in(u) \in Seq(RawBytes) /\ Len(in(u)) = Len(u)
      /\ \A k \in 1..Len(u) : in(u)[k] = Taken(u[k])
  BY InIs
<1>4. /\ in(v) \in Seq(RawBytes) /\ Len(in(v)) = Len(v)
      /\ \A k \in 1..Len(v) : in(v)[k] = Taken(v[k])
  BY <1>1, InIs
<1> DEFINE w == Append(in(u), Taken(c))
<1>5. /\ w \in Seq(RawBytes) /\ Len(w) = Len(u) + 1 /\ w[Len(u) + 1] = Taken(c)
      /\ \A k \in 1..Len(u) : w[k] = in(u)[k]
  BY <1>2, <1>3, AppendProperties
<1>6. in(v) = w
  <2>1. Len(u) \in Nat
    OBVIOUS
  <2>2. \A k \in 1..Len(u) + 1 : k \in 1..Len(u) \/ k = Len(u) + 1
    BY <2>1
  <2> HIDE DEF v, w
  <2>3. \A k \in 1..Len(w) : in(v)[k] = w[k]
    BY <1>1, <1>3, <1>4, <1>5, <2>2
  <2> QED
    BY <1>1, <1>4, <1>5, <2>3, SeqEqual
<1>7. w = in(u) \o <<Taken(c)>>
  BY <1>2, <1>3, AppendIsConcat
<1>8. <<Taken(c)>> \in Seq(RawBytes) /\ t \o in(u) \in Seq(RawBytes)
  BY <1>2, <1>3, ConcatProperties
<1>9. t \o w = (t \o in(u)) \o <<Taken(c)>>
  BY <1>3, <1>7, <1>8, ConcatAssociative
<1>10. Append(t \o in(u), Taken(c)) = (t \o in(u)) \o <<Taken(c)>>
  BY <1>2, <1>8, AppendIsConcat
<1> QED
  BY <1>6, <1>9, <1>10

\* And none.
LEMMA NothingIn ==
    ASSUME NEW t \in Seq(RawBytes)
    PROVE  t \o in(<<>>) = t
<1>1. in(<<>>) = <<>>
  BY DEF in
<1> QED
  BY <1>1, ConcatEmptySeq

\* Bytes of the stream are bytes.
LEMMA BytesAre ==
    ASSUME msgs \in Seq(Messages)
    PROVE  /\ \A t \in Seq(Bytes(msgs)) : t \in Seq(RawBytes)
           /\ \A c \in Bytes(msgs) : c.msg \in Nat
<1>1. \A b \in Bytes(msgs) : b \in RawBytes
  BY DEF Bytes, RawBytes, Numbered
<1> QED
  BY <1>1, SeqMonotonic DEF RawBytes

\* A byte arrives.
LEMMA ArriveStep == IInv /\ Arrive => IInv'
<1> SUFFICES ASSUME IInv, Arrive
             PROVE  IInv'
  OBVIOUS
<1>1. /\ unread' = Append(unread, coming) /\ coming' = after(coming)
      /\ coming.msg \in DOMAIN msgs
      /\ UNCHANGED <<msgs, hung, pc, s, m, calls, thrown>>
  BY DEF Arrive, AllSent
<1>2. Typed /\ WireOK(msgs, Buffer, coming, thrown)
  BY DEF IInv
<1>3. /\ ComingOK(msgs, coming) /\ coming \in RawBytes /\ s \in Seq(RawBytes)
      /\ unread \in Seq(RawBytes)
  BY <1>2, BytesAre DEF WireOK, ComingOK, RawBytes, Typed
<1> DEFINE B == Buffer
           G == Append(B, Taken(coming))
<1>4. Buffer' = G
  <2>1. Buffer' = s' \o in(unread')
    BY DEF Buffer
  <2> QED
    BY <1>1, <1>3, <2>1, OneMore DEF Buffer
<1>5. WireOK(msgs, G, after(coming), thrown)
  BY <1>1, <1>2, WireGrows DEF Typed
<1>6. /\ Taken(coming) \in Bytes(msgs) /\ SameLine(Taken(coming), coming)
      /\ coming.msg <= after(coming).msg
      /\ coming = Byte(coming.msg, coming.line, coming.byte)
      /\ coming.byte \in {"first", "rest"} => SameLine(coming, after(coming))
  BY <1>1, <1>2, <1>3, AfterIs, TakenIs DEF Typed
<1>7. /\ B \in Seq(Bytes(msgs)) /\ Len(B) \in Nat /\ DOMAIN B = 1..Len(B)
      /\ DOMAIN G = 1..Len(B) + 1 /\ G[Len(B) + 1] = Taken(coming)
      /\ \A k \in 1..Len(B) : G[k] = B[k]
  BY <1>2, <1>6, AppendProperties DEF WireOK
<1> HIDE DEF B, G
<1>8. NotLost(msgs, G, after(coming), thrown)
  <2> SUFFICES ASSUME NEW i \in DOMAIN msgs, NEW l \in DOMAIN msgs[i], msgs[i][l] = "msg",
                      ~Handled(i), Byte(i, l, "first") \notin thrown
               PROVE  Ahead(G, after(coming), i, l)
    BY DEF NotLost
  <2>1. Ahead(B, coming, i, l)
    BY DEF IInv, NotLost, B
  <2>2. /\ i \in Nat /\ l \in 1..Len(msgs[i]) /\ Len(msgs[i]) \in Nat
        /\ coming.msg \in Nat /\ after(coming).msg \in Nat
        /\ coming.line \in Nat /\ after(coming).line \in Nat
    <3>1. ComingOK(msgs, coming) /\ ComingOK(msgs, after(coming))
      BY <1>2, <1>5 DEF WireOK
    <3>2. \A c : ComingOK(msgs, c) => c.msg \in Nat /\ c.line \in Nat
      BY DEF ComingOK
    <3>3. i \in Nat /\ l \in 1..Len(msgs[i]) /\ Len(msgs[i]) \in Nat
      BY <1>2, <1>3, MessagesAre DEF Typed
    <3> QED
      BY <3>1, <3>2, <3>3
  <2>3. CASE \E k \in DOMAIN B : B[k] = Byte(i, l, "nul")
    BY <1>7, <2>3 DEF Ahead
  <2>4. CASE coming.msg = i /\ coming.line \in 1..l
    <3>1. CASE coming.byte \in {"first", "rest"}
      BY <1>6, <2>4, <3>1 DEF Ahead, SameLine
    <3>2. CASE coming.byte = "newline" /\ coming.line = l
      <4>1. Taken(coming) = Byte(i, l, "nul")
        BY <1>6, <2>4, <3>2 DEF Taken, Byte
      <4> QED
        BY <1>7, <4>1 DEF Ahead
    <3>3. CASE coming.byte = "newline" /\ coming.line < l
      <4>1. after(coming) = Byte(i, coming.line + 1, "first")
        BY <2>2, <2>4, <3>3 DEF after
      <4>2. after(coming).msg = i /\ after(coming).line \in 1..l
        BY <2>2, <3>3, <4>1 DEF Byte
      <4> QED
        BY <4>2 DEF Ahead
    <3>4. coming.byte # "nul"
      BY <1>3, <2>2, <2>4 DEF ComingOK
    <3>5. coming.byte \in {"first", "rest", "newline", "nul"}
      BY <1>3 DEF RawBytes, Numbered
    <3> QED
      BY <2>2, <2>4, <3>1, <3>2, <3>3, <3>4, <3>5
  <2>5. CASE coming.msg < i
    <3>1. CASE coming.byte \in {"first", "rest", "newline"}
      <4>1. after(coming).msg = coming.msg
        BY <1>6, <3>1 DEF after, SameLine, Byte
      <4> QED
        BY <2>5, <4>1 DEF Ahead
    <3>2. CASE coming.byte = "nul"
      <4>1. after(coming).msg = coming.msg + 1 /\ after(coming).line = 1
        BY <3>2 DEF after, Byte
      <4> QED
        BY <2>2, <2>5, <4>1 DEF Ahead
    <3>3. coming.byte \in {"first", "rest", "newline", "nul"}
      BY <1>3 DEF RawBytes, Numbered
    <3> QED
      BY <3>1, <3>2, <3>3
  <2> QED
    BY <2>1, <2>3, <2>4, <2>5 DEF Ahead
<1>9. CallsOK(msgs, G, after(coming))
  <2>1. CallsOK(msgs, B, coming)
    BY DEF IInv, B
  <2>2. \A k \in DOMAIN calls : calls[k].msg \in Nat
    <3>1. \A k \in DOMAIN calls : calls[k] \in Fields
      BY ElementOfSeq DEF IInv
    <3> QED
      BY <3>1 DEF Fields
  <2>3. Taken(coming).msg = coming.msg /\ coming.msg \in Nat /\ after(coming).msg \in Nat
    BY <1>3, <1>5, <1>6 DEF SameLine, WireOK, ComingOK
  <2>4. \A k \in DOMAIN calls : calls[k].msg <= after(coming).msg
    <3>1. \A k \in DOMAIN calls : calls[k].msg <= coming.msg
      BY <2>1 DEF CallsOK
    <3> QED
      BY <1>6, <2>2, <2>3, <3>1
  <2>5. ASSUME NEW k \in DOMAIN calls, NEW j \in 1..Len(B) + 1
        PROVE  calls[k].msg <= G[j].msg
    <3>1. CASE j \in 1..Len(B)
      BY <1>7, <2>1, <3>1 DEF CallsOK
    <3>2. CASE j = Len(B) + 1
      BY <1>7, <2>1, <2>3, <3>2 DEF CallsOK
    <3> QED
      BY <1>7, <3>1, <3>2
  <2> QED
    BY <1>7, <2>1, <2>4, <2>5 DEF CallsOK
<1>10. Typed'
  BY <1>1, <1>2, <1>3, AppendProperties DEF Typed
<1>11. MessageOK(msgs, m)' /\ LastCalled' /\ InOrder'
  <2>1. Callable(m)' <=> Callable(m)
    BY <1>1 DEF Callable
  <2> QED
    BY <1>1, <2>1 DEF IInv, LastCalled, InOrder, MessageOK
<1>12. WireOK(msgs', Buffer', coming', thrown')
  BY <1>1, <1>4, <1>5
<1>13. NotLost(msgs, Buffer, coming, thrown)'
  BY <1>1, <1>4, <1>8 DEF NotLost, Handled
<1>14. CallsOK(msgs, Buffer, coming)'
  BY <1>1, <1>4, <1>9 DEF CallsOK
<1> QED
  BY <1>1, <1>10, <1>11, <1>12, <1>13, <1>14 DEF IInv

-----------------------------------------------------------------------------
(* Server::process.                                                        *)

\* The steps that call nothing and leave the buffer as it is.
LEMMA QuietStep == IInv /\ (Hangup \/ Start \/ Drained \/ UNCHANGED vars) => IInv'
<1> SUFFICES ASSUME IInv, Hangup \/ Start \/ Drained \/ UNCHANGED vars
             PROVE  IInv'
  OBVIOUS
<1>1. Typed /\ WireOK(msgs, Buffer, coming, thrown)
  BY DEF IInv
<1>2. UNCHANGED <<msgs, coming, unread, calls, thrown>>
  BY DEF Hangup, Start, Drained, vars
<1>3. s' = s /\ (pc' = "idle" => s = <<>>) /\ pc' \in {"idle", "process", "dropped"}
      /\ hung' \in BOOLEAN
  <2>1. CASE Hangup \/ Start \/ UNCHANGED vars
    BY <1>1, <2>1 DEF Hangup, Start, vars, Typed
  <2>2. CASE Drained
    <3>1. s \in Seq(RawBytes) /\ in(unread) \in Seq(RawBytes) /\ s \o in(unread) = <<>>
      BY <1>1, <2>2, BytesAre, InIs DEF Typed, Drained, Buffer
    <3>2. s = <<>>
      BY <3>1, ConcatProperties, EmptySeq
    <3> QED
      BY <1>1, <2>2, <3>2 DEF Drained, Typed
  <2> QED
    BY <2>1, <2>2
<1>4. m' = m \/ m' = NoFields
  BY DEF Hangup, Start, Drained, vars
<1>5. MessageOK(msgs, m)' /\ LastCalled'
  <2>1. CASE m' = m
    <3>1. Callable(m)' <=> Callable(m)
      BY <1>2, <2>1 DEF Callable
    <3> QED
      BY <1>2, <2>1, <3>1 DEF IInv, LastCalled, MessageOK
  <2>2. CASE m' = NoFields
    <3>1. ~Callable(m)'
      BY <2>2 DEF Callable, NoFields
    <3> QED
      BY <2>2, <3>1 DEF LastCalled, MessageOK
  <2> QED
    BY <1>4, <2>1, <2>2
<1>6. Buffer' = Buffer
  BY <1>2, <1>3 DEF Buffer
<1>7. Typed'
  BY <1>1, <1>2, <1>3 DEF Typed
<1>8. NotLost(msgs, Buffer, coming, thrown)' /\ CallsOK(msgs, Buffer, coming)' /\ InOrder'
  BY <1>2, <1>6 DEF IInv, NotLost, Handled, CallsOK, InOrder
<1> QED
  BY <1>1, <1>2, <1>5, <1>6, <1>7, <1>8 DEF IInv

\* No terminator: what was read stays, and the Message is handled again.
LEMMA TurnAgainStep == IInv /\ TurnAgain => IInv'
<1> SUFFICES ASSUME IInv, TurnAgain
             PROVE  IInv'
  OBVIOUS
<1>1. Typed /\ WireOK(msgs, Buffer, coming, thrown)
  BY DEF IInv
<1>2. /\ pc = "process" /\ s' = Buffer /\ unread' = <<>> /\ Call(m)
      /\ UNCHANGED <<msgs, coming, hung, m, thrown>>
  BY DEF TurnAgain
<1>3. calls' = calls /\ pc' \in {"process", "dropped"}
  BY <1>2, SameCall DEF IInv
<1>4. Buffer \in Seq(Bytes(msgs)) /\ Buffer \in Seq(RawBytes)
  BY <1>1, BytesAre DEF WireOK, Typed
<1>5. Buffer' = Buffer
  <2>1. Buffer' = s' \o in(unread')
    BY DEF Buffer
  <2> QED
    BY <1>2, <1>4, <2>1, NothingIn
<1>6. Typed'
  BY <1>1, <1>2, <1>3, <1>4 DEF Typed
<1>7. MessageOK(msgs, m)' /\ LastCalled'
  <2>1. Callable(m)' <=> Callable(m)
    BY <1>2 DEF Callable
  <2> QED
    BY <1>2, <1>3, <2>1 DEF IInv, LastCalled, MessageOK
<1>8. NotLost(msgs, Buffer, coming, thrown)' /\ CallsOK(msgs, Buffer, coming)' /\ InOrder'
  BY <1>2, <1>3, <1>5 DEF IInv, NotLost, Handled, CallsOK, InOrder
<1> QED
  BY <1>1, <1>2, <1>3, <1>5, <1>6, <1>7, <1>8 DEF IInv

\* A line that ends has been found, or is behind the terminator still.
LEMMA StillAhead ==
    ASSUME NEW M, NEW B, NEW c, NEW T, WireOK(M, B, c, T), NEW e, FirstAt(B, e),
           NEW i, NEW l, l > 0, Ahead(B, c, i, l)
    PROVE  Ahead(Behind(B, e), c, i, l) \/ B[e] = Byte(i, l, "nul")
<1> DEFINE D == Behind(B, e)
<1>1. /\ B \in Seq(Bytes(M)) /\ e \in DOMAIN B /\ e \in 1..Len(B) /\ Len(B) \in Nat
      /\ DOMAIN B = 1..Len(B) /\ B[e].byte = "nul"
      /\ \A n \in 1..e - 1 : B[n].byte # "nul"
  BY DEF WireOK, FirstAt, isNul
<1>2. CASE ~\E k \in DOMAIN B : B[k] = Byte(i, l, "nul")
  BY <1>2 DEF Ahead
<1>3. ASSUME NEW k \in DOMAIN B, B[k] = Byte(i, l, "nul")
      PROVE  Ahead(D, c, i, l) \/ B[e] = Byte(i, l, "nul")
  <2>1. B[k].byte = "nul" /\ B[k].line > 0
    BY <1>3 DEF Byte
  <2>2. Ended(B, B[k], k)
    BY <2>1 DEF WireOK
  <2>3. k # e + 1
    <3> SUFFICES ASSUME k = e + 1
                 PROVE  FALSE
      OBVIOUS
    <3>1. k - 1 = e
      BY <1>1
    <3>2. B[e].byte = "rest"
      BY <2>2, <3>1 DEF Ended, Byte
    <3> QED
      BY <1>1, <3>2
  <2>4. CASE k < e
    BY <1>1, <2>1, <2>4
  <2>5. CASE k = e
    BY <1>3, <2>5
  <2>6. CASE k > e
    <3>1. k > e + 1 /\ e + 1 < Len(B)
      BY <1>1, <2>3, <2>6
    <3>2. D \in Seq(Bytes(M)) /\ Len(D) = Len(B) - e
          /\ \A n \in 1..Len(D) : D[n] = B[e + n]
      <4>1. \/ /\ D \in Seq(Bytes(M)) /\ Len(D) = Len(B) - e
               /\ \A n \in 1..Len(D) : D[n] = B[e + n]
            \/ e + 1 = Len(B) \/ e = Len(B)
        BY <1>1, BehindIs
      <4> HIDE DEF D
      <4> QED
        BY <1>1, <3>1, <4>1
    <3>3. k - e \in 1..Len(D) /\ e + (k - e) = k
      BY <1>1, <3>1, <3>2
    <3>4. k - e \in DOMAIN D /\ D[k - e] = Byte(i, l, "nul")
      BY <1>3, <3>2, <3>3, LenProperties
    <3> HIDE DEF D
    <3> QED
      BY <3>4 DEF Ahead
  <2> QED
    BY <1>1, <2>4, <2>5, <2>6
<1> QED
  BY <1>2, <1>3

\* A message is found, and handled.
LEMMA TurnStep == IInv /\ Turn => IInv'
<1> SUFFICES ASSUME IInv, Turn
             PROVE  IInv'
  OBVIOUS
<1> DEFINE B == Buffer
           e == FirstNul(Buffer)
           D == Behind(Buffer, e)
           L == Dropped(Buffer, e)
           i == B[e].msg
           l == B[e].line
<1>1. Typed /\ WireOK(msgs, B, coming, thrown) /\ msgs \in Seq(Messages)
  BY DEF IInv, Typed
<1>2. /\ pc = "process" /\ e # 0
      /\ m' = parse(TextOf(B, e), m)
      /\ s' = D /\ thrown' = thrown \cup L /\ unread' = <<>>
      /\ Call(m')
      /\ UNCHANGED <<msgs, coming, hung>>
  BY DEF Turn, TextOf, Dropped
<1>3. FirstAt(B, e)
  <2>1. B \in Seq(Bytes(msgs))
    BY <1>1 DEF WireOK
  <2> HIDE DEF B
  <2> QED
    BY <1>2, <2>1, FirstNulIs DEF FirstAt, B
<1>4. WireOK(msgs, D, coming, thrown \cup L) /\ \A b \in L : b.byte \in {"nul", "first"}
  <2>1. e \in DOMAIN B /\ isNul(B[e])
    BY <1>3 DEF FirstAt
  <2> QED
    BY <1>1, <2>1, WireCut
<1>5. D \in Seq(Bytes(msgs)) /\ D \in Seq(RawBytes)
  BY <1>1, <1>4, BytesAre DEF WireOK
<1>6. Buffer' = D
  <2>1. Buffer' = s' \o in(unread')
    BY DEF Buffer
  <2> HIDE DEF D
  <2> QED
    BY <1>2, <1>5, <2>1, NothingIn
<1>7. /\ i \in DOMAIN msgs
      /\ \/ m' = m \/ m' = NoFields
         \/ l \in DOMAIN msgs[i] /\ \E w \in BOOLEAN : m' = Field(i, l, w)
      /\ l > 0 /\ msgs[i][l] = "msg" =>
            Byte(i, l, "first") \in thrown \/ m' = Field(i, l, TRUE)
  <2> DEFINE p == parse(TextOf(B, e), m)
  <2> HIDE DEF B, e
  <2>1. ParsedOK(i, l, thrown, p, m)
    BY <1>1, <1>3, ParseIs
  <2>2. m' = p
    BY <1>2
  <2>3. ParsedOK(i, l, thrown, m', m)
    <3> HIDE DEF p, i, l
    <3> QED
      BY <2>1, <2>2
  <2> HIDE DEF p, i, l
  <2> QED
    BY <2>3 DEF ParsedOK
<1> HIDE DEF B, e, D, L, i, l
<1>8. MessageOK(msgs, m') /\ MessageOK(msgs, m)
  <2>1. MessageOK(msgs, m)
    BY DEF IInv
  <2> QED
    BY <1>7, <2>1 DEF MessageOK
<1>9. /\ i <= coming.msg /\ \A j \in DOMAIN D : i <= D[j].msg
      /\ \A k \in DOMAIN calls : calls[k].msg <= i
  <2>1. e \in DOMAIN B
    BY <1>3 DEF FirstAt
  <2>2. i = B[e].msg
    BY DEF i
  <2>3. i <= coming.msg
    BY <1>1, <2>1, <2>2 DEF WireOK
  <2>4. \A k \in DOMAIN calls : calls[k].msg <= i
    <3>1. CallsOK(msgs, B, coming)
      BY DEF IInv, B
    <3> QED
      BY <2>1, <2>2, <3>1 DEF CallsOK
  <2>5. ASSUME NEW j \in DOMAIN D
        PROVE  \E k \in DOMAIN B : e <= k /\ D[j] = B[k]
    <3>1. B \in Seq(Bytes(msgs)) /\ e \in 1..Len(B) /\ Len(B) \in Nat /\ DOMAIN B = 1..Len(B)
      BY <1>1, <2>1 DEF WireOK
    <3>2. D # <<>> /\ DOMAIN D = 1..Len(D)
      BY <1>5, <2>5
    <3>3. Len(D) = Len(B) - e /\ \A k \in 1..Len(D) : D[k] = B[e + k]
      <4>1. D = Behind(B, e)
        BY DEF D, B
      <4>2. \/ Len(D) = Len(B) - e /\ \A k \in 1..Len(D) : D[k] = B[e + k]
            \/ D = <<>>
        <5>1. \/ /\ Len(Behind(B, e)) = Len(B) - e
                 /\ \A k \in 1..Len(Behind(B, e)) : Behind(B, e)[k] = B[e + k]
              \/ Behind(B, e) = <<>>
          BY <2>1, <3>1, BehindIs
        <5> QED
          BY <4>1, <5>1
      <4> QED
        BY <3>2, <4>2
    <3>4. j \in 1..Len(D) /\ e + j \in DOMAIN B /\ e <= e + j
      BY <2>5, <3>1, <3>2, <3>3
    <3> QED
      BY <3>3, <3>4
  <2>6. \A j \in DOMAIN D : i <= D[j].msg
    BY <1>1, <2>1, <2>2, <2>5 DEF WireOK
  <2> QED
    BY <2>3, <2>4, <2>6
<1>10. /\ calls' \in Seq(Fields) /\ InOrder' /\ LastCalled'
       /\ pc' \in {"process", "dropped"}
       /\ CallsOK(msgs, Buffer, coming)'
       /\ \A k \in DOMAIN calls : k \in DOMAIN calls' /\ calls'[k] = calls[k]
       /\ Callable(m') => calls' # <<>> /\ Last(calls') = m'
  <2>0. CallsOK(msgs, B, coming) /\ calls \in Seq(Fields) /\ InOrder
    BY DEF IInv, B
  <2>1. LastCalled' <=> (Callable(m') => calls' # <<>> /\ Last(calls') = m')
    BY <1>2 DEF LastCalled, Callable
  <2>2. pc' \in {"process", "dropped"}
    BY <1>2 DEF Call
  <2>3. CASE Callable(m') /\ m' # m
    <3>1. l \in DOMAIN msgs[i] /\ msgs[i][l] = "msg" /\ m' = Field(i, l, TRUE)
      <4>0. PICK j \in DOMAIN msgs : \E k \in DOMAIN msgs[j] :
               msgs[j][k] = "msg" /\ m' = Field(j, k, TRUE)
        BY <1>8, <2>3, CallableIs
      <4>1. PICK k \in DOMAIN msgs[j] : msgs[j][k] = "msg" /\ m' = Field(j, k, TRUE)
        BY <4>0
      <4>2. m' # NoFields
        BY <4>1 DEF Field, NoFields
      <4>3. PICK w \in BOOLEAN : l \in DOMAIN msgs[i] /\ m' = Field(i, l, w)
        BY <1>7, <2>3, <4>2
      <4>4. m'.msg = j /\ m'.msg = i /\ m'.lines = {<<j, k, TRUE>>} /\ m'.lines = {<<i, l, w>>}
        <5>1. m'.msg = j /\ m'.lines = {<<j, k, TRUE>>}
          BY <4>1 DEF Field
        <5>2. m'.msg = i /\ m'.lines = {<<i, l, w>>}
          BY <4>3 DEF Field
        <5> QED
          BY <5>1, <5>2
      <4>5. j = i /\ k = l
        <5>1. <<j, k, TRUE>> \in {<<i, l, w>>}
          BY <4>4
        <5> QED
          BY <5>1
      <4> QED
        BY <4>1, <4>3, <4>5
    <3>2. Called(m')
      BY <1>2, <2>3 DEF Call, Called
    <3>3. /\ calls' \in Seq(Fields) /\ InOrder'
          /\ calls' # <<>> /\ Last(calls') = m'
          /\ \A k \in DOMAIN calls : k \in DOMAIN calls' /\ calls'[k] = calls[k]
          /\ \A k \in DOMAIN calls' : calls'[k] = m' \/ (k \in DOMAIN calls /\ calls'[k] = calls[k])
      BY <1>1, <1>7, <1>9, <2>0, <3>1, <3>2, NewCall
    <3>4. m'.msg = i
      BY <3>1 DEF Field
    <3>5. ASSUME NEW k \in DOMAIN calls'
          PROVE  /\ \E j \in DOMAIN msgs : \E h \in DOMAIN msgs[j] :
                       msgs[j][h] = "msg" /\ calls'[k] = Field(j, h, TRUE)
                 /\ calls'[k].msg <= coming.msg
                 /\ \A j \in DOMAIN D : calls'[k].msg <= D[j].msg
      <4>1. CASE calls'[k] = m'
        BY <1>7, <1>9, <3>1, <3>4, <4>1
      <4>2. CASE k \in DOMAIN calls /\ calls'[k] = calls[k]
        <5>1. \E j \in DOMAIN msgs : \E h \in DOMAIN msgs[j] :
                  msgs[j][h] = "msg" /\ calls[k] = Field(j, h, TRUE)
          BY <2>0, <4>2 DEF CallsOK
        <5>2. calls[k].msg <= coming.msg
          BY <2>0, <4>2 DEF CallsOK
        <5>3. calls[k].msg \in Nat /\ i \in Nat /\ calls[k].msg <= i
          <6>1. calls[k] \in Fields
            BY <2>0, <4>2, ElementOfSeq
          <6> QED
            BY <1>1, <1>7, <1>9, <4>2, <6>1, LenProperties DEF Fields
        <5>4. \A j \in DOMAIN D : D[j].msg \in Nat
          <6>1. \A j \in DOMAIN D : D[j] \in Bytes(msgs)
            BY <1>5, ElementOfSeq
          <6> QED
            BY <1>1, <6>1, BytesAre
        <5>5. \A j \in DOMAIN D : calls[k].msg <= D[j].msg
          BY <1>9, <5>3, <5>4
        <5> QED
          BY <4>2, <5>1, <5>2, <5>5
      <4> QED
        BY <3>3, <4>1, <4>2
    <3>6. CallsOK(msgs, Buffer, coming)'
      BY <1>2, <1>6, <3>5 DEF CallsOK
    <3> QED
      BY <2>1, <2>2, <3>3, <3>6
  <2>4. CASE ~(Callable(m') /\ m' # m)
    <3>1. calls' = calls
      <4>1. CASE Callable(m')
        <5>1. m' = m /\ Callable(m) /\ Call(m)
          BY <1>2, <2>4, <4>1
        <5> QED
          BY <1>2, <5>1, SameCall DEF IInv
      <4>2. CASE ~Callable(m')
        BY <1>2, <4>2 DEF Call
      <4> QED
        BY <4>1, <4>2
    <3>2. Callable(m') => calls' # <<>> /\ Last(calls') = m'
      <4> SUFFICES ASSUME Callable(m')
                   PROVE  calls' # <<>> /\ Last(calls') = m'
        OBVIOUS
      <4>1. m' = m /\ Callable(m)
        BY <2>4
      <4> QED
        BY <3>1, <4>1 DEF IInv, LastCalled
    <3>3. ASSUME NEW k \in DOMAIN calls, NEW j \in DOMAIN D
          PROVE  calls[k].msg <= D[j].msg
      <4>1. calls[k].msg \in Nat /\ i \in Nat /\ calls[k].msg <= i
        <5>1. calls[k] \in Fields
          BY <2>0, ElementOfSeq
        <5> QED
          BY <1>1, <1>7, <1>9, <5>1, LenProperties DEF Fields
      <4>2. D[j] \in Bytes(msgs)
        BY <1>5, ElementOfSeq
      <4>3. D[j].msg \in Nat /\ i <= D[j].msg
        BY <1>1, <1>9, <4>2, BytesAre
      <4> QED
        BY <4>1, <4>3
    <3>4. CallsOK(msgs, Buffer, coming)'
      BY <1>2, <1>6, <2>0, <3>1, <3>3 DEF CallsOK
    <3>5. calls' \in Seq(Fields) /\ InOrder'
      BY <2>0, <3>1 DEF InOrder
    <3> QED
      BY <2>1, <2>2, <3>1, <3>2, <3>4, <3>5
  <2> QED
    BY <2>3, <2>4
<1>11. NotLost(msgs, Buffer, coming, thrown)'
  <2>0. \A j : Handled(j) => Handled(j)'
    BY <1>10 DEF Handled
  <2>1. ASSUME NEW j \in DOMAIN msgs, NEW h \in DOMAIN msgs[j], msgs[j][h] = "msg"
        PROVE  Handled(j)' \/ Byte(j, h, "first") \in thrown \cup L \/ Ahead(D, coming, j, h)
    <3>1. Handled(j) \/ Byte(j, h, "first") \in thrown \/ Ahead(B, coming, j, h)
      BY <2>1 DEF IInv, NotLost, B
    <3>2. CASE Ahead(B, coming, j, h)
      <4>1. h > 0
        BY <1>1, MessagesAre
      <4>2. Ahead(D, coming, j, h) \/ B[e] = Byte(j, h, "nul")
        BY <1>1, <1>3, <3>2, <4>1, StillAhead DEF D, B
      <4>3. CASE B[e] = Byte(j, h, "nul")
        <5>1. i = j /\ l = h
          BY <4>3 DEF i, l, Byte
        <5>2. Byte(j, h, "first") \in thrown \/ m' = Field(j, h, TRUE)
          BY <1>7, <2>1, <4>1, <5>1
        <5>3. CASE m' = Field(j, h, TRUE)
          <6>1. Callable(m')
            BY <2>1, <5>3 DEF Callable, Field
          <6>2. calls' # <<>> /\ Last(calls') = m' /\ calls' \in Seq(Fields)
            BY <1>10, <6>1
          <6>3. Len(calls') \in DOMAIN calls' /\ calls'[Len(calls')] = m'
            BY <6>2, EmptySeq, LenProperties DEF Last
          <6>4. m'.msg = j
            BY <5>3 DEF Field
          <6> QED
            BY <6>3, <6>4 DEF Handled
        <5> QED
          BY <5>2, <5>3
      <4> QED
        BY <4>2, <4>3
    <3> QED
      BY <2>0, <3>1, <3>2
  <2> QED
    BY <1>2, <1>6, <2>1 DEF NotLost
<1>12. Typed'
  <2>1. \A b \in thrown \cup L : b.byte \in {"nul", "first"}
    BY <1>1, <1>4 DEF Typed
  <2> QED
    BY <1>1, <1>2, <1>5, <1>10, <2>1 DEF Typed
<1>13. WireOK(msgs', Buffer', coming', thrown')
  BY <1>2, <1>4, <1>6
<1>14. MessageOK(msgs, m)'
  BY <1>2, <1>8 DEF MessageOK
<1> QED
  BY <1>10, <1>11, <1>12, <1>13, <1>14 DEF IInv

-----------------------------------------------------------------------------
(* The invariant.                                                          *)

\* Nothing has arrived.
LEMMA InitIInv == Init => IInv
<1> SUFFICES ASSUME Init
             PROVE  IInv
  OBVIOUS
<1>1. msgs \in Seq(Messages) /\ Len(msgs) <= MaxMsgs
  <2>1. PICK n \in 0..MaxMsgs : msgs \in [1..n -> Messages]
    BY DEF Init, BoundedSeq, SeqOf
  <2>2. n \in Nat /\ n <= MaxMsgs
    BY <2>1, Bound
  <2>3. msgs \in Seq(Messages) /\ Len(msgs) = n
    <3>1. msgs = [k \in 1..n |-> msgs[k]] /\ \A k \in 1..n : msgs[k] \in Messages
      BY <2>1
    <3>2. msgs \in Seq(Messages)
      BY <2>2, <3>1, IsASeq
    <3>3. DOMAIN msgs = 1..n
      BY <2>1
    <3> QED
      BY <2>2, <3>2, <3>3, LenProperties
  <2> QED
    BY <2>2, <2>3
<1>2. Buffer = <<>>
  <2>1. s = <<>> /\ unread = <<>> /\ <<>> \in Seq(RawBytes)
    BY DEF Init
  <2> QED
    BY <2>1, NothingIn DEF Buffer
<1>3. ComingOK(msgs, coming)
  <2>1. coming = Byte(1, 1, "first")
    BY DEF Init
  <2>2. 1 \in DOMAIN msgs => 1 \in DOMAIN msgs[1]
    BY <1>1, MessagesAre
  <2>3. 1 \in 1..Len(msgs) + 1
    BY <1>1, LenProperties
  <2> QED
    BY <1>1, <2>1, <2>2, <2>3 DEF ComingOK, Byte, Numbered
<1>4. coming.msg = 1 /\ coming.line = 1 /\ coming.byte = "first"
  BY DEF Init, Byte
<1>5. WireOK(msgs, <<>>, coming, thrown)
  <2>1. <<>> \in Seq(Bytes(msgs)) /\ DOMAIN <<>> = {}
    OBVIOUS
  <2> QED
    BY <1>3, <1>4, <2>1 DEF WireOK
<1>6. NotLost(msgs, <<>>, coming, thrown)
  <2> SUFFICES ASSUME NEW i \in DOMAIN msgs, NEW l \in DOMAIN msgs[i]
               PROVE  Ahead(<<>>, coming, i, l)
    BY DEF NotLost
  <2>1. i \in Nat /\ i >= 1 /\ l \in Nat /\ l >= 1
    BY <1>1, MessagesAre, LenProperties
  <2> QED
    BY <1>4, <2>1 DEF Ahead
<1>7. calls = <<>> /\ m = NoFields
  BY DEF Init
<1>8. MessageOK(msgs, m) /\ LastCalled
  <2>1. ~Callable(m)
    BY <1>7 DEF Callable, NoFields
  <2> QED
    BY <1>7, <2>1 DEF MessageOK, LastCalled
<1>9. calls \in Seq(Fields) /\ CallsOK(msgs, Buffer, coming) /\ InOrder
  BY <1>7 DEF CallsOK, InOrder
<1>10. Typed
  <2>1. <<>> \in Seq(RawBytes) /\ <<>> \in Seq(Bytes(msgs))
    OBVIOUS
  <2>2. unread \in Seq(RawBytes) /\ s = <<>> /\ s \in Seq(Bytes(msgs))
    BY <2>1 DEF Init
  <2>3. hung \in BOOLEAN /\ pc \in {"idle", "process", "dropped"}
    BY DEF Init
  <2>4. \A c \in thrown : c.byte \in {"nul", "first"}
    BY DEF Init
  <2> QED
    BY <1>1, <2>2, <2>3, <2>4 DEF Typed
<1> QED
  BY <1>2, <1>5, <1>6, <1>8, <1>9, <1>10 DEF IInv

\* What has arrived and is in no message yet stays a piece of the stream.
THEOREM FramingInvariant == Spec => []IInv
<1>1. IInv /\ [Next]_vars => IInv'
  BY ArriveStep, QuietStep, TurnStep, TurnAgainStep DEF Next
<1> QED
  BY <1>1, InitIInv, PTL DEF Spec

-----------------------------------------------------------------------------
(* The properties.                                                         *)

\* A handler gets the fields of one message, wherever the reads of Socket::in
\* end.
THEOREM MessagesAreNotMixed == Spec => []NoMixture
<1>1. IInv => NoMixture
  <2> SUFFICES ASSUME IInv, NEW k \in DOMAIN calls, NEW f \in calls[k].lines
               PROVE  f[1] = calls[k].msg
    BY DEF NoMixture
  <2>0. PICK i \in DOMAIN msgs : \E l \in DOMAIN msgs[i] : calls[k] = Field(i, l, TRUE)
    BY DEF IInv, CallsOK
  <2>1. PICK l \in DOMAIN msgs[i] : calls[k] = Field(i, l, TRUE)
    BY <2>0
  <2>2. calls[k].msg = i /\ calls[k].lines = {<<i, l, TRUE>>}
    <3>1. Field(i, l, TRUE).msg = i /\ Field(i, l, TRUE).lines = {<<i, l, TRUE>>}
      BY DEF Field
    <3> QED
      BY <2>1, <3>1
  <2>3. f = <<i, l, TRUE>>
    BY <2>2
  <2>4. f[1] = i
    BY <2>3
  <2> QED
    BY <2>2, <2>4
<1> QED
  BY <1>1, FramingInvariant, PTL

\* Messages are handled in the order in which they were sent, each once, but for
\* the repetitions of the last one.
THEOREM MessagesAreInOrder == Spec => []InOrder
<1>1. IInv => InOrder
  BY DEF IInv
<1> QED
  BY <1>1, FramingInvariant, PTL

\* read_msg throws away terminators and first bytes of lines only, and when all
\* that was sent has been read, each message that names a handler was handled or
\* has lost the first byte of the line that does.
THEOREM NothingElseIsLost == Spec => []FramingOK
<1>1. IInv => TypeOK
  <2> SUFFICES ASSUME IInv
               PROVE  TypeOK
    OBVIOUS
  <2>1. Typed /\ ComingOK(msgs, coming) /\ MessageOK(msgs, m)
    BY DEF IInv, WireOK
  <2>2. \A k \in DOMAIN unread : unread[k].byte \in {"first", "rest", "newline", "nul"}
    <3>1. \A k \in DOMAIN unread : unread[k] \in RawBytes
      BY <2>1, ElementOfSeq DEF Typed
    <3> QED
      BY <3>1 DEF RawBytes, Numbered
  <2>3. \A c \in ToSet(s) \cup thrown : c.byte \in {"first", "rest", "nul"}
    <3>1. \A k \in DOMAIN s : s[k] \in Bytes(msgs)
      BY <2>1, ElementOfSeq DEF Typed
    <3> QED
      BY <2>1, <3>1 DEF Typed, Bytes, ToSet
  <2>4. m.msg \in {0} \cup DOMAIN msgs
    BY <2>1 DEF MessageOK, NoFields, Field
  <2> QED
    BY <2>1, <2>2, <2>3, <2>4 DEF TypeOK, Typed, ComingOK
<1>2. IInv => Complete
  <2> SUFFICES ASSUME IInv
               PROVE  Complete
    OBVIOUS
  <2>1. Typed /\ ComingOK(msgs, coming) /\ NotLost(msgs, Buffer, coming, thrown)
    BY DEF IInv, WireOK
  <2>2. ASSUME pc = "idle", AllSent, unread = <<>>,
               NEW i \in DOMAIN msgs, NEW l \in DOMAIN msgs[i], msgs[i][l] = "msg"
        PROVE  Handled(i) \/ Byte(i, l, "first") \in thrown
    <3>1. Buffer = <<>>
      <4>1. s = <<>> /\ <<>> \in Seq(RawBytes)
        BY <2>1, <2>2 DEF Typed
      <4> QED
        BY <2>2, <4>1, NothingIn DEF Buffer
    <3>2. coming.msg \in 1..Len(msgs) + 1 /\ coming.msg \notin DOMAIN msgs
      BY <2>1, <2>2 DEF ComingOK, AllSent
    <3>3. ~Ahead(Buffer, coming, i, l)
      <4>1. DOMAIN msgs = 1..Len(msgs) /\ Len(msgs) \in Nat /\ DOMAIN Buffer = {}
        BY <2>1, <3>1, LenProperties DEF Typed
      <4>2. ~(coming.msg < i) /\ coming.msg # i
        BY <3>2, <4>1
      <4> QED
        BY <4>1, <4>2 DEF Ahead
    <3> QED
      BY <2>1, <2>2, <3>3 DEF NotLost
  <2>3. \A c \in thrown : c.byte \in {"nul", "first"}
    BY <2>1 DEF Typed
  <2> QED
    BY <2>2, <2>3 DEF Complete
<1>3. IInv => FramingOK
  BY <1>1, <1>2 DEF FramingOK
<1> QED
  BY <1>3, FramingInvariant, PTL
=============================================================================
