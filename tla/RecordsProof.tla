---------------------------- MODULE RecordsProof ----------------------------
(* A record comes back from the database as it was saved, whatever clients *)
(* put in its fields.                                                      *)
EXTENDS Records, SequenceTheorems, WellFoundedInduction, TLAPS

(***************************************************************************)
(* Induction, over sets: of numbers, and of sequences.                     *)
(***************************************************************************)

\* A set that has 0, and with all numbers below k also k, has all up to n.
LEMMA Below ==
    ASSUME NEW n \in Nat, NEW T, 0 \in T, \A k \in 1..n : 0..k - 1 \subseteq T => k \in T
    PROVE  0..n \subseteq T
<1> DEFINE U == (0..n) \ T
<1>1. SUFFICES ASSUME U # {}
               PROVE  FALSE
  OBVIOUS
<1>2. IsWellFoundedOn(OpToRel(<, Nat), Nat)
  BY NatLessThanWellFounded
<1>3. U \subseteq Nat
  OBVIOUS
<1>4. PICK x \in U : \A y \in U : ~(<<y, x>> \in OpToRel(<, Nat))
  BY <1>1, <1>2, <1>3, WFMin
<1>5. x \in 1..n /\ x \notin T
  OBVIOUS
<1>6. ASSUME NEW y \in 0..x - 1
      PROVE  y \in T
  <2>1. <<y, x>> \in OpToRel(<, Nat)
    BY <1>5 DEF OpToRel
  <2>2. y \notin U
    BY <1>4, <2>1
  <2> QED
    BY <1>5, <2>2
<1> QED
  BY <1>5, <1>6

\* And one that has 0, and with k - 1 also k.
LEMMA UpTo ==
    ASSUME NEW n \in Nat, NEW T, 0 \in T, \A k \in 1..n : k - 1 \in T => k \in T
    PROVE  0..n \subseteq T
<1>1. ASSUME NEW k \in 1..n, 0..k - 1 \subseteq T
      PROVE  k \in T
  <2>1. k - 1 \in 0..k - 1
    OBVIOUS
  <2> QED
    BY <1>1, <2>1
<1> QED
  BY <1>1, Below

\* A set that has the empty sequence, and with each one those that are longer
\* by one, has them all.
LEMMA OnSequences ==
    ASSUME NEW S, NEW T, <<>> \in T,
           \A s \in Seq(S) : \A c \in S : s \in T => Append(s, c) \in T
    PROVE  \A s \in Seq(S) : s \in T
<1> TAKE s0 \in Seq(S)
<1> DEFINE U == {k \in 0..Len(s0) : \A s \in Seq(S) : Len(s) = k => s \in T}
<1>0. Len(s0) \in Nat
  BY LenProperties
<1>1. 0 \in U
  <2>1. \A s \in Seq(S) : Len(s) = 0 => s = <<>>
    BY EmptySeq
  <2> QED
    BY <1>0, <2>1
<1>2. ASSUME NEW k \in 1..Len(s0), k - 1 \in U
      PROVE  k \in U
  <2>1. ASSUME NEW s \in Seq(S), Len(s) = k
        PROVE  s \in T
    <3>1. s # <<>>
      BY <2>1, EmptySeq
    <3>2. PICK t \in Seq(S), c \in S : s = Append(t, c)
      BY <3>1, SequenceEmptyOrAppend
    <3>3. Len(t) = k - 1
      BY <2>1, <3>2, AppendProperties, LenProperties
    <3> QED
      BY <1>2, <3>2, <3>3
  <2> QED
    BY <2>1
<1>3. 0..Len(s0) \subseteq U
  <2> HIDE DEF U
  <2> QED
    BY <1>0, <1>1, <1>2, UpTo
<1> QED
  BY <1>0, <1>3

(***************************************************************************)
(* A loop over the characters of a string that makes a new value of the    *)
(* last one and the next character, as those of util.cc and object.cc are. *)
(***************************************************************************)
IsLoop(V, C, base, step) == base \in V /\ step \in [V \X C -> V]

\* r has the values of the loop over s.
Runs(r, s, base, step) ==
    r = [i \in 0..Len(s) |-> IF i = 0 THEN base ELSE step[<<r[i - 1], s[i]>>]]

\* There is such an r.
LEMMA RunExists ==
    ASSUME NEW V, NEW C, NEW base, NEW step, IsLoop(V, C, base, step), NEW s \in Seq(C)
    PROVE  \E r \in [0..Len(s) -> V] : Runs(r, s, base, step)
<1>0. base \in V /\ step \in [V \X C -> V] /\ Len(s) \in Nat
  BY LenProperties DEF IsLoop
<1> DEFINE n == Len(s)
           Upto(k, f) == f[0] = base /\ \A j \in 1..k : f[j] = step[<<f[j - 1], s[j]>>]
           T == {k \in 0..n : \E f \in [0..n -> V] : Upto(k, f)}
<1>1. 0 \in T
  <2> DEFINE f0 == [j \in 0..n |-> base]
  <2>1. f0 \in [0..n -> V] /\ Upto(0, f0)
    BY <1>0
  <2> HIDE DEF f0, Upto
  <2> QED
    BY <1>0, <2>1
<1>2. ASSUME NEW k \in 1..n, k - 1 \in T
      PROVE  k \in T
  <2>1. PICK f \in [0..n -> V] : Upto(k - 1, f)
    BY <1>2
  <2> DEFINE v == step[<<f[k - 1], s[k]>>]
             g == [f EXCEPT ![k] = v]
  <2>2. v \in V
    <3>1. s[k] \in C
      BY ElementOfSeq
    <3>2. f[k - 1] \in V
      BY <1>0
    <3> QED
      BY <1>0, <3>1, <3>2
  <2>3. g \in [0..n -> V]
    BY <2>2
  <2>4. g[k] = v /\ \A j \in 0..n : j # k => g[j] = f[j]
    BY <1>0
  <2>5. k - 1 \in 0..n /\ k - 1 # k
    BY <1>0
  <2> HIDE DEF g
  <2>6. g[0] = base
    BY <1>0, <2>1, <2>4
  <2>7. ASSUME NEW j \in 1..k
        PROVE  g[j] = step[<<g[j - 1], s[j]>>]
    <3>1. g[j - 1] = f[j - 1]
      BY <1>0, <2>4
    <3>2. CASE j = k
      BY <2>4, <3>1, <3>2
    <3>3. CASE j # k
      <4>1. j \in 1..k - 1 /\ g[j] = f[j]
        BY <1>0, <2>4, <3>3
      <4> QED
        BY <2>1, <3>1, <4>1
    <3> QED
      BY <3>2, <3>3
  <2> QED
    BY <2>3, <2>6, <2>7
<1>3. n \in T
  <2>1. 0..n \subseteq T
    <3> HIDE DEF T
    <3> QED
      BY <1>0, <1>1, <1>2, UpTo
  <2> QED
    BY <1>0, <2>1
<1>4. PICK f \in [0..n -> V] : Upto(n, f)
  BY <1>3
<1>5. f = [i \in 0..n |-> IF i = 0 THEN base ELSE step[<<f[i - 1], s[i]>>]]
  BY <1>0, <1>4
<1> QED
  BY <1>5 DEF Runs

\* What the loop returns.
Loop(s, base, step) == (CHOOSE r : Runs(r, s, base, step))[Len(s)]

\* f need only follow the loop as far as its values are in V.
LEMMA LoopIs ==
    ASSUME NEW V, NEW C, NEW base, NEW step, IsLoop(V, C, base, step), NEW s \in Seq(C),
           NEW n \in 0..Len(s), NEW f, f[0] = base,
           \A i \in 1..n : f[i - 1] \in V => f[i] = step[<<f[i - 1], s[i]>>]
    PROVE  /\ f[n] \in V
           /\ \A r : Runs(r, s, base, step) => f[n] = r[n]
<1>0. base \in V /\ step \in [V \X C -> V] /\ Len(s) \in Nat /\ n \in Nat
  BY LenProperties DEF IsLoop
<1> DEFINE T == {k \in 0..n : f[k] \in V /\ \A r : Runs(r, s, base, step) => f[k] = r[k]}
<1>1. 0 \in T
  <2>1. ASSUME NEW r, Runs(r, s, base, step)
        PROVE  r[0] = base
    BY <1>0, <2>1 DEF Runs
  <2> QED
    BY <1>0, <2>1
<1>2. ASSUME NEW k \in 1..n, k - 1 \in T
      PROVE  k \in T
  <2>1. f[k] = step[<<f[k - 1], s[k]>>] /\ f[k - 1] \in V
    BY <1>2
  <2>2. s[k] \in C
    BY <1>0, ElementOfSeq
  <2>3. f[k] \in V
    BY <1>0, <2>1, <2>2
  <2>4. ASSUME NEW r, Runs(r, s, base, step)
        PROVE  f[k] = r[k]
    <3>1. r[k - 1] = f[k - 1]
      BY <1>2, <2>4
    <3>2. r[k] = step[<<r[k - 1], s[k]>>]
      BY <1>0, <2>4 DEF Runs
    <3> QED
      BY <2>1, <3>1, <3>2
  <2> QED
    BY <2>3, <2>4
<1>3. 0..n \subseteq T
  <2> HIDE DEF T
  <2> QED
    BY <1>0, <1>1, <1>2, UpTo
<1>4. n \in T
  BY <1>0, <1>3
<1> QED
  BY <1>4

\* What the loop makes of nothing, and of one character more.
LEMMA LoopGoesOn ==
    ASSUME NEW V, NEW C, NEW base, NEW step, IsLoop(V, C, base, step)
    PROVE  /\ Loop(<<>>, base, step) = base
           /\ \A s \in Seq(C) : Loop(s, base, step) \in V
           /\ \A s \in Seq(C) : \A c \in C :
                Loop(Append(s, c), base, step) = step[<<Loop(s, base, step), c>>]
<1> DEFINE run(s) == CHOOSE r : Runs(r, s, base, step)
<1>1. ASSUME NEW s \in Seq(C)
      PROVE  Runs(run(s), s, base, step)
  <2>1. \E r : Runs(r, s, base, step)
    BY RunExists
  <2> QED
    BY <2>1
<1>2. ASSUME NEW s \in Seq(C)
      PROVE  /\ run(s)[0] = base
             /\ \A i \in 1..Len(s) : run(s)[i] = step[<<run(s)[i - 1], s[i]>>]
  <2> DEFINE r == run(s)
  <2>1. Len(s) \in Nat
    BY LenProperties
  <2>2. r = [i \in 0..Len(s) |-> IF i = 0 THEN base ELSE step[<<r[i - 1], s[i]>>]]
    BY <1>1 DEF Runs
  <2> HIDE DEF r
  <2>3. r[0] = base /\ \A i \in 1..Len(s) : r[i] = step[<<r[i - 1], s[i]>>]
    BY <2>1, <2>2
  <2> QED
    BY <2>3 DEF r
<1> HIDE DEF run
<1>3. \A s : Loop(s, base, step) = run(s)[Len(s)]
  BY DEF Loop, run
<1>4. Loop(<<>>, base, step) = base
  <2>1. <<>> \in Seq(C) /\ Len(<<>>) = 0
    BY EmptySeq
  <2> QED
    BY <1>2, <1>3, <2>1
<1>5. ASSUME NEW s \in Seq(C)
      PROVE  Loop(s, base, step) \in V
  <2>1. Len(s) \in 0..Len(s)
    BY LenProperties
  <2>2. run(s)[Len(s)] \in V
    BY <1>2, <2>1, LoopIs
  <2> QED
    BY <1>3, <2>2
<1>6. ASSUME NEW s \in Seq(C), NEW c \in C
      PROVE  Loop(Append(s, c), base, step) = step[<<Loop(s, base, step), c>>]
  <2> DEFINE t == Append(s, c)
             n == Len(s)
             r == run(t)
  <2>1. /\ t \in Seq(C) /\ Len(t) = n + 1 /\ n \in Nat
        /\ \A i \in 1..n : t[i] = s[i]
        /\ t[n + 1] = c
    BY AppendProperties, LenProperties
  <2> HIDE DEF t
  <2>2. r[0] = base /\ \A i \in 1..n + 1 : r[i] = step[<<r[i - 1], t[i]>>]
    BY <1>2, <2>1
  <2> HIDE DEF r, n
  <2>3. \A i \in 1..n : r[i] = step[<<r[i - 1], s[i]>>]
    BY <2>1, <2>2
  <2>4. Runs(run(s), s, base, step)
    BY <1>1
  <2>5. r[n] = run(s)[n]
    <3>1. n \in 0..Len(s)
      BY <2>1 DEF n
    <3> QED
      BY <2>2, <2>3, <2>4, <3>1, LoopIs
  <2>6. r[n + 1] = step[<<r[n], c>>]
    <3>1. n + 1 \in 1..n + 1 /\ (n + 1) - 1 = n
      BY <2>1
    <3> QED
      BY <2>1, <2>2, <3>1
  <2> QED
    BY <1>3, <2>1, <2>5, <2>6 DEF t, n, r
<1> QED
  BY <1>4, <1>5, <1>6

(***************************************************************************)
(* The loops of the program: the number in a string, the parts of one, and *)
(* what is escaped in it.                                                  *)
(***************************************************************************)

\* A value of the machine fits.
LEMMA Wraps == \A n \in Int : Wrap(n) \in Guids
<1> TAKE n \in Int
<1>1. ASSUME NEW h \in Nat \ {0}, NEW a \in Int
      PROVE  a % h \in 0..h - 1
  OBVIOUS
<1>2. 2 * Half \in Nat \ {0} /\ n + Half \in Int /\ Half \in Nat
  BY Bits
<1>3. (n + Half) % (2 * Half) \in 0..(2 * Half) - 1
  BY <1>1, <1>2
<1> QED
  BY <1>2, <1>3 DEF Wrap, Guids

\* A time is an integer, whatever its width.
LEMMA TimesAre == \A n \in Guids \cup Times : n \in Int
<1>1. Guids \subseteq Int
  BY Bits DEF Guids
<1>2. Times \subseteq Int
  BY Numbers
<1> QED
  BY <1>1, <1>2

\* Every character counts for a number.
LEMMA ValueIs ==
    /\ \A c : value(c) \in Int
    /\ \A k \in 0..9 : Figures[k + 1] \in ToSet(Figures) /\ value(Figures[k + 1]) = k
<1>1. ToSet(Figures) = {"0", "1", "2", "3", "4", "5", "6", "7", "8", "9"}
  BY DEF ToSet, Figures
<1>2. ASSUME NEW k \in 0..9
      PROVE  Figures[k + 1] \in ToSet(Figures) /\ Figures[k + 1] # "-"
  BY <1>1 DEF Figures
<1>3. ASSUME NEW k \in 0..9, NEW j \in 0..9, Figures[j + 1] = Figures[k + 1]
      PROVE  j = k
  BY <1>3 DEF Figures
<1>4. ASSUME NEW c \in ToSet(Figures)
      PROVE  \E k \in 0..9 : Figures[k + 1] = c
  <2>1. DOMAIN Figures = 1..10
    BY DEF Figures
  <2>2. PICK i \in 1..10 : Figures[i] = c
    BY <2>1 DEF ToSet
  <2>3. i - 1 \in 0..9 /\ (i - 1) + 1 = i
    OBVIOUS
  <2> QED
    BY <2>2, <2>3
<1>5. ASSUME NEW c
      PROVE  value(c) \in Int
  <2>1. CASE c = "-"
    <3>1. value(c) = -3
      BY <1>1, <2>1 DEF value
    <3> QED
      BY <3>1
  <2>2. CASE c # "-" /\ c \in ToSet(Figures)
    <3>1. value(c) = CHOOSE k \in 0..9 : Figures[k + 1] = c
      BY <2>2 DEF value
    <3>2. \E k \in 0..9 : Figures[k + 1] = c
      BY <1>4, <2>2
    <3>3. value(c) \in 0..9
      BY <3>1, <3>2, Zenon
    <3> QED
      BY <3>3
  <2>3. CASE c # "-" /\ c \notin ToSet(Figures)
    BY <2>3 DEF value
  <2> QED
    BY <2>1, <2>2, <2>3
<1>6. ASSUME NEW k \in 0..9
      PROVE  value(Figures[k + 1]) = k
  <2> DEFINE c == Figures[k + 1]
  <2>1. value(c) = CHOOSE j \in 0..9 : Figures[j + 1] = c
    BY <1>2 DEF value
  <2> HIDE DEF c
  <2>2. \E j \in 0..9 : Figures[j + 1] = c
    BY DEF c
  <2>3. (CHOOSE j \in 0..9 : Figures[j + 1] = c) = k
    BY <2>2, <1>3 DEF c
  <2> QED
    BY <2>1, <2>3 DEF c
<1> QED
  BY <1>2, <1>5, <1>6

\* int_of_string goes on by one figure.
LEMMA NumberIs ==
    ASSUME NEW C
    PROVE  /\ int_of_string(<<>>) = 0
           /\ \A s \in Seq(C) : int_of_string(s) \in Guids
           /\ \A s \in Seq(C) : \A c \in C :
                int_of_string(Append(s, c)) = Wrap(int_of_string(s) * 10 + value(c))
<1> DEFINE step == [x \in Guids \X C |-> Wrap(x[1] * 10 + value(x[2]))]
<1>1. ASSUME NEW v \in Guids, NEW c \in C
      PROVE  Wrap(v * 10 + value(c)) \in Guids /\ step[<<v, c>>] = Wrap(v * 10 + value(c))
  <2>1. v * 10 + value(c) \in Int
    BY Bits, ValueIs DEF Guids
  <2> QED
    BY <2>1, Wraps
<1>2. IsLoop(Guids, C, 0, step)
  <2>1. step \in [Guids \X C -> Guids]
    BY <1>1
  <2>2. 0 \in Guids
    BY Bits DEF Guids
  <2> QED
    BY <2>1, <2>2 DEF IsLoop
<1> HIDE DEF step
<1>3. ASSUME NEW s \in Seq(C)
      PROVE  int_of_string(s) = Loop(s, 0, step)
  <2> DEFINE Follows(r) ==
               r = [i \in 0..Len(s) |-> IF i = 0 THEN 0 ELSE Wrap(r[i - 1] * 10 + value(s[i]))]
             h == CHOOSE r : Follows(r)
             n == Len(s)
  <2>0. n \in Nat /\ \A i \in 1..n : s[i] \in C
    BY LenProperties, ElementOfSeq
  <2>1. int_of_string(s) = h[n]
    BY DEF int_of_string
  <2>2. \E r : Follows(r)
    <3>1. PICK r \in [0..n -> Guids] : Runs(r, s, 0, step)
      BY <1>2, RunExists
    <3>2. r = [i \in 0..n |-> IF i = 0 THEN 0 ELSE step[<<r[i - 1], s[i]>>]]
      BY <3>1, Zenon DEF Runs
    <3>3. ASSUME NEW i \in 1..n
          PROVE  step[<<r[i - 1], s[i]>>] = Wrap(r[i - 1] * 10 + value(s[i]))
      <4>1. i - 1 \in 0..n
        BY <2>0
      <4>2. r[i - 1] \in Guids /\ s[i] \in C
        BY <2>0, <3>1, <4>1
      <4> QED
        BY <1>1, <4>2
    <3>4. r[0] = 0 /\ \A i \in 1..n : r[i] = Wrap(r[i - 1] * 10 + value(s[i]))
      <4>1. ASSUME NEW i \in 1..n
            PROVE  r[i] = step[<<r[i - 1], s[i]>>]
        <5>1. i \in 0..n /\ i # 0
          BY <2>0
        <5> QED
          BY <3>2, <5>1
      <4>2. r[0] = 0
        BY <2>0, <3>2
      <4> QED
        BY <3>3, <4>1, <4>2
    <3>5. DOMAIN r = 0..n
      BY <3>1
    <3>6. \A i \in 0..n : r[i] = IF i = 0 THEN 0 ELSE Wrap(r[i - 1] * 10 + value(s[i]))
      BY <2>0, <3>4
    <3> QED
      BY <3>1, <3>5, <3>6
  <2>3. Follows(h)
    <3> HIDE DEF Follows
    <3> QED
      BY <2>2
  <2> HIDE DEF h
  <2>4. h[0] = 0 /\ \A i \in 1..n : h[i] = Wrap(h[i - 1] * 10 + value(s[i]))
    BY <2>0, <2>3
  <2>5. \A i \in 1..n : h[i - 1] \in Guids => h[i] = step[<<h[i - 1], s[i]>>]
    BY <1>1, <2>0, <2>4
  <2>6. PICK r : Runs(r, s, 0, step) /\ Loop(s, 0, step) = r[n]
    <3>1. \E r : Runs(r, s, 0, step)
      BY <1>2, RunExists
    <3> QED
      BY <3>1 DEF Loop
  <2>7. n \in 0..Len(s)
    BY <2>0
  <2>8. h[n] = r[n]
    BY <1>2, <2>4, <2>5, <2>6, <2>7, LoopIs
  <2> QED
    BY <2>1, <2>6, <2>8
<1>4. int_of_string(<<>>) = 0
  <2>1. <<>> \in Seq(C)
    BY EmptySeq
  <2>2. Loop(<<>>, 0, step) = 0
    BY <1>2, LoopGoesOn
  <2> QED
    BY <1>3, <2>1, <2>2
<1>5. ASSUME NEW s \in Seq(C)
      PROVE  int_of_string(s) \in Guids
  BY <1>2, <1>3, LoopGoesOn
<1>6. ASSUME NEW s \in Seq(C), NEW c \in C
      PROVE  int_of_string(Append(s, c)) = Wrap(int_of_string(s) * 10 + value(c))
  <2>1. Append(s, c) \in Seq(C)
    BY AppendProperties
  <2>2. Loop(Append(s, c), 0, step) = step[<<Loop(s, 0, step), c>>]
    BY <1>2, LoopGoesOn
  <2> QED
    BY <1>1, <1>3, <1>5, <2>1, <2>2
<1> QED
  BY <1>4, <1>5, <1>6

\* escaped goes on by one character.
LEMMA EscapedIs ==
    ASSUME NEW C, {"%", "2", "7"} \subseteq C
    PROVE  /\ escaped(<<>>) = <<>>
           /\ \A s \in Seq(C) : escaped(s) \in Seq(C)
           /\ \A s \in Seq(C) : \A c \in C :
                escaped(Append(s, c)) = escape_tick(escaped(s), c)
<1> DEFINE V == Seq(C)
           base == <<>>
           step == [x \in V \X C |-> escape_tick(x[1], x[2])]
<1>1. ASSUME NEW v \in V, NEW c \in C
      PROVE  escape_tick(v, c) \in V /\ step[<<v, c>>] = escape_tick(v, c)
  <2>1. <<"%", "2", "7">> \in Seq(C) /\ <<c>> \in Seq(C)
    OBVIOUS
  <2>2. escape_tick(v, c) \in Seq(C)
    <3> HIDE DEF step
    <3> QED
      BY <2>1, ConcatProperties DEF escape_tick
  <2> QED
    BY <2>2
<1>2. IsLoop(V, C, base, step)
  <2>1. step \in [V \X C -> V]
    BY <1>1
  <2>2. base \in V
    BY EmptySeq
  <2> QED
    BY <2>1, <2>2 DEF IsLoop
<1> HIDE DEF step, V, base
<1>3. ASSUME NEW s \in Seq(C)
      PROVE  escaped(s) = Loop(s, base, step)
  <2> DEFINE Follows(r) ==
               r = [i \in 0..Len(s) |-> IF i = 0 THEN base ELSE escape_tick(r[i - 1], s[i])]
             h == CHOOSE r : Follows(r)
             n == Len(s)
  <2>0. n \in Nat /\ \A i \in 1..n : s[i] \in C
    BY LenProperties, ElementOfSeq
  <2>1. escaped(s) = h[n]
    BY DEF escaped, base
  <2>2. \E r : Follows(r)
    <3>1. PICK r \in [0..n -> V] : Runs(r, s, base, step)
      BY <1>2, RunExists
    <3>2. r = [i \in 0..n |-> IF i = 0 THEN base ELSE step[<<r[i - 1], s[i]>>]]
      BY <3>1 DEF Runs
    <3>3. ASSUME NEW i \in 1..n
          PROVE  step[<<r[i - 1], s[i]>>] = escape_tick(r[i - 1], s[i])
      BY <1>1, <2>0, <3>1
    <3>4. r[0] = base /\ \A i \in 1..n : r[i] = escape_tick(r[i - 1], s[i])
      <4>1. ASSUME NEW i \in 1..n
            PROVE  r[i] = step[<<r[i - 1], s[i]>>]
        <5>1. i \in 0..n /\ i # 0
          BY <2>0
        <5> QED
          BY <3>2, <5>1
      <4>2. r[0] = base
        BY <2>0, <3>2
      <4> QED
        BY <3>3, <4>1, <4>2
    <3>5. DOMAIN r = 0..n
      BY <3>1
    <3>6. \A i \in 0..n : r[i] = IF i = 0 THEN base ELSE escape_tick(r[i - 1], s[i])
      BY <2>0, <3>4
    <3> QED
      BY <3>1, <3>5, <3>6
  <2>3. Follows(h)
    <3> HIDE DEF Follows
    <3> QED
      BY <2>2
  <2> HIDE DEF h
  <2>4. h[0] = base /\ \A i \in 1..n : h[i] = escape_tick(h[i - 1], s[i])
    BY <2>0, <2>3
  <2>5. \A i \in 1..n : h[i - 1] \in V => h[i] = step[<<h[i - 1], s[i]>>]
    BY <1>1, <2>0, <2>4
  <2>6. PICK r : Runs(r, s, base, step) /\ Loop(s, base, step) = r[n]
    <3>1. \E r : Runs(r, s, base, step)
      BY <1>2, RunExists
    <3> QED
      BY <3>1 DEF Loop
  <2>7. n \in 0..Len(s)
    BY <2>0
  <2>8. h[n] = r[n]
    BY <1>2, <2>4, <2>5, <2>6, <2>7, LoopIs
  <2> QED
    BY <2>1, <2>6, <2>8
<1>4. escaped(<<>>) = base
  <2>1. <<>> \in Seq(C)
    BY EmptySeq
  <2>2. Loop(<<>>, base, step) = base
    BY <1>2, LoopGoesOn
  <2> QED
    BY <1>3, <2>1, <2>2
<1>5. ASSUME NEW s \in Seq(C)
      PROVE  escaped(s) \in V
  BY <1>2, <1>3, LoopGoesOn
<1>6. ASSUME NEW s \in Seq(C), NEW c \in C
      PROVE  escaped(Append(s, c)) = escape_tick(escaped(s), c)
  <2>1. Append(s, c) \in Seq(C)
    BY AppendProperties
  <2>2. Loop(Append(s, c), base, step) = step[<<Loop(s, base, step), c>>]
    BY <1>2, LoopGoesOn
  <2> QED
    BY <1>1, <1>3, <1>5, <2>1, <2>2
<1> QED
  BY <1>4, <1>5, <1>6 DEF V, base

\* The loop of split: there is at least one part.
OneOrMore(C)  == Seq(Seq(C)) \ {<<>>}
CutStep(C, d) == [x \in OneOrMore(C) \X C |-> cut(d, x[1], x[2])]

\* Parts is what it returns.
LEMMA PartsAre ==
    ASSUME NEW C, NEW d
    PROVE  /\ IsLoop(OneOrMore(C), C, <<<<>>>>, CutStep(C, d))
           /\ \A v \in OneOrMore(C) : \A c \in C : CutStep(C, d)[<<v, c>>] = cut(d, v, c)
           /\ \A s \in Seq(C) : Parts(d, s) = Loop(s, <<<<>>>>, CutStep(C, d))
<1> DEFINE V == OneOrMore(C)
           base == <<<<>>>>
           step == CutStep(C, d)
<1>1. ASSUME NEW v \in V, NEW c \in C
      PROVE  cut(d, v, c) \in V /\ step[<<v, c>>] = cut(d, v, c)
  <2>1. v \in Seq(Seq(C)) /\ v # <<>>
    BY DEF OneOrMore
  <2>2. Len(v) \in 1..Len(v)
    BY <2>1, EmptySeq
  <2>3. cut(d, v, c) \in Seq(Seq(C)) /\ cut(d, v, c) # <<>>
    <3> HIDE DEF step, V
    <3>1. CASE c = d
      <4>1. <<>> \in Seq(C)
        BY EmptySeq
      <4> QED
        BY <2>1, <3>1, <4>1, AppendProperties DEF cut
    <3>2. CASE c # d
      <4>1. v[Len(v)] \in Seq(C)
        BY <2>1, <2>2, ElementOfSeq
      <4>2. Append(v[Len(v)], c) \in Seq(C)
        BY <4>1, AppendProperties
      <4>3. cut(d, v, c) = [v EXCEPT ![Len(v)] = Append(v[Len(v)], c)]
        BY <3>2 DEF cut
      <4>4. cut(d, v, c) \in Seq(Seq(C)) /\ Len(cut(d, v, c)) = Len(v)
        BY <2>1, <2>2, <4>2, <4>3, ExceptSeq
      <4> QED
        BY <2>1, <2>2, <4>4, EmptySeq
    <3> QED
      BY <3>1, <3>2
  <2> QED
    BY <2>3 DEF CutStep, OneOrMore
<1>2. IsLoop(V, C, base, step)
  <2>1. step \in [V \X C -> V]
    BY <1>1 DEF CutStep
  <2>2. base \in V
    <3>1. <<>> \in Seq(C)
      BY EmptySeq
    <3>2. <<<<>>>> \in Seq(Seq(C)) /\ <<<<>>>> # <<>>
      BY <3>1
    <3> QED
      BY <3>2 DEF OneOrMore
  <2> QED
    BY <2>1, <2>2 DEF IsLoop
<1> HIDE DEF step, V, base
<1>3. ASSUME NEW s \in Seq(C)
      PROVE  Parts(d, s) = Loop(s, base, step)
  <2> DEFINE Follows(r) ==
               r = [i \in 0..Len(s) |-> IF i = 0 THEN base ELSE cut(d, r[i - 1], s[i])]
             h == CHOOSE r : Follows(r)
             n == Len(s)
  <2>0. n \in Nat /\ \A i \in 1..n : s[i] \in C
    BY LenProperties, ElementOfSeq
  <2>1. Parts(d, s) = h[n]
    BY DEF Parts, base
  <2>2. \E r : Follows(r)
    <3>1. PICK r \in [0..n -> V] : Runs(r, s, base, step)
      BY <1>2, RunExists
    <3>2. r = [i \in 0..n |-> IF i = 0 THEN base ELSE step[<<r[i - 1], s[i]>>]]
      BY <3>1 DEF Runs
    <3>3. ASSUME NEW i \in 1..n
          PROVE  step[<<r[i - 1], s[i]>>] = cut(d, r[i - 1], s[i])
      BY <1>1, <2>0, <3>1
    <3>4. r[0] = base /\ \A i \in 1..n : r[i] = cut(d, r[i - 1], s[i])
      <4>1. ASSUME NEW i \in 1..n
            PROVE  r[i] = step[<<r[i - 1], s[i]>>]
        <5>1. i \in 0..n /\ i # 0
          BY <2>0
        <5> QED
          BY <3>2, <5>1
      <4>2. r[0] = base
        BY <2>0, <3>2
      <4> QED
        BY <3>3, <4>1, <4>2
    <3>5. DOMAIN r = 0..n
      BY <3>1
    <3>6. \A i \in 0..n : r[i] = IF i = 0 THEN base ELSE cut(d, r[i - 1], s[i])
      BY <2>0, <3>4
    <3> QED
      BY <3>1, <3>5, <3>6
  <2>3. Follows(h)
    <3> HIDE DEF Follows
    <3> QED
      BY <2>2
  <2> HIDE DEF h
  <2>4. h[0] = base /\ \A i \in 1..n : h[i] = cut(d, h[i - 1], s[i])
    BY <2>0, <2>3
  <2>5. \A i \in 1..n : h[i - 1] \in V => h[i] = step[<<h[i - 1], s[i]>>]
    BY <1>1, <2>0, <2>4
  <2>6. PICK r : Runs(r, s, base, step) /\ Loop(s, base, step) = r[n]
    <3>1. \E r : Runs(r, s, base, step)
      BY <1>2, RunExists
    <3> QED
      BY <3>1 DEF Loop
  <2>7. n \in 0..Len(s)
    BY <2>0
  <2>8. h[n] = r[n]
    BY <1>2, <2>4, <2>5, <2>6, <2>7, LoopIs
  <2> QED
    BY <2>1, <2>6, <2>8
<1> QED
  BY <1>1, <1>2, <1>3 DEF V, base, step

\* Of an empty string there is one part.
LEMMA NoParts ==
    ASSUME NEW d
    PROVE  Parts(d, <<>>) = <<<<>>>>
<1>1. <<>> \in Seq({})
  BY EmptySeq
<1>2. Parts(d, <<>>) = Loop(<<>>, <<<<>>>>, CutStep({}, d))
  BY <1>1, PartsAre
<1> QED
  BY <1>2, PartsAre, LoopGoesOn

\* Parts are strings, one at least.
LEMMA PartsTyped ==
    ASSUME NEW C, NEW d, NEW s \in Seq(C)
    PROVE  Parts(d, s) \in Seq(Seq(C)) /\ Parts(d, s) # <<>>
<1> DEFINE base == <<<<>>>>
           step == CutStep(C, d)
<1>1. Parts(d, s) = Loop(s, base, step) /\ IsLoop(OneOrMore(C), C, base, step)
  BY PartsAre
<1> HIDE DEF base, step
<1>2. Loop(s, base, step) \in OneOrMore(C)
  BY <1>1, LoopGoesOn
<1> QED
  BY <1>1, <1>2 DEF OneOrMore

\* Parts goes on by one character.
LEMMA PartsGrow ==
    ASSUME NEW C, NEW d, NEW s \in Seq(C), NEW c \in C
    PROVE  Parts(d, Append(s, c)) = cut(d, Parts(d, s), c)
<1> DEFINE base == <<<<>>>>
           step == CutStep(C, d)
<1>1. Append(s, c) \in Seq(C)
  BY AppendProperties
<1> HIDE DEF base, step
<1>2. /\ Parts(d, s) = Loop(s, base, step)
      /\ Parts(d, Append(s, c)) = Loop(Append(s, c), base, step)
  BY <1>1, PartsAre DEF base, step
<1>3. IsLoop(OneOrMore(C), C, base, step)
  BY PartsAre DEF base, step
<1>4. /\ Loop(Append(s, c), base, step) = step[<<Loop(s, base, step), c>>]
      /\ Loop(s, base, step) \in OneOrMore(C)
  BY <1>3, LoopGoesOn
<1>5. step[<<Loop(s, base, step), c>>] = cut(d, Loop(s, base, step), c)
  BY <1>4, PartsAre DEF step
<1> QED
  BY <1>2, <1>4, <1>5

(***************************************************************************)
(* Numbers come back as they were printed.                                 *)
(***************************************************************************)

\* Division with a remainder, and two numbers that differ by a multiple of h.
LEMMA Remainders ==
    ASSUME NEW h \in Nat \ {0}
    PROVE  /\ \A a \in Int : a % h \in 0..h - 1 /\ \E k \in Int : a % h = a + (h * k)
           /\ \A a \in 0..h - 1 : a % h = a
           /\ \A a, b, k \in Int : a = b + (h * k) => a % h = b % h
<1>1. ASSUME NEW a \in Int
      PROVE  a % h \in 0..h - 1 /\ \E k \in Int : a % h = a + (h * k)
  <2>1. a % h \in 0..h - 1 /\ a \div h \in Int /\ a = (h * (a \div h)) + (a % h)
    OBVIOUS
  <2> DEFINE k == -(a \div h)
  <2>2. k \in Int /\ a % h = a + (h * k)
    BY <2>1
  <2> QED
    BY <2>1, <2>2
<1>2. ASSUME NEW a \in 0..h - 1
      PROVE  a % h = a
  OBVIOUS
<1>3. ASSUME NEW a \in Int, NEW b \in Int, NEW k \in Int, a = b + (h * k)
      PROVE  a % h = b % h
  <2>1. PICK i \in Int : a % h = a + (h * i)
    BY <1>1
  <2>2. PICK j \in Int : b % h = b + (h * j)
    BY <1>1
  <2> DEFINE x == a % h
             y == b % h
             m == (k + i) - j
  <2>3. x \in 0..h - 1 /\ y \in 0..h - 1
    BY <1>1
  <2>4. x - y = h * m /\ m \in Int
    BY <1>3, <2>1, <2>2
  <2> HIDE DEF x, y, m
  <2>5. h * m < h /\ h * m > -h
    BY <2>3, <2>4
  <2>6. m < 1 /\ m > -1
    BY <2>4, <2>5
  <2>7. m = 0
    BY <2>4, <2>6
  <2>8. x = y
    BY <2>3, <2>4, <2>7
  <2> QED
    BY <2>8 DEF x, y
<1> QED
  BY <1>1, <1>2, <1>3

\* A number that fits stays, and numbers that differ by a multiple of what the
\* machine can count are the same to it.
LEMMA WrapIs ==
    /\ \A n \in Guids : Wrap(n) = n
    /\ \A a, b, k \in Int : a = b + ((2 * Half) * k) => Wrap(a) = Wrap(b)
    /\ \A a \in Int : \E k \in Int : Wrap(a) = a + ((2 * Half) * k)
<1> DEFINE h == 2 * Half
<1>0. h \in Nat \ {0} /\ Half \in Nat
  BY Bits
<1>1. h = 2 * Half
  OBVIOUS
<1> HIDE DEF h
<1>2. \A n : Wrap(n) = ((n + Half) % h) - Half
  BY <1>1 DEF Wrap
<1>3. ASSUME NEW n \in Guids
      PROVE  Wrap(n) = n
  <2>1. n + Half \in 0..h - 1 /\ n \in Int
    BY <1>0, <1>1 DEF Guids
  <2>2. (n + Half) % h = n + Half
    BY <1>0, <2>1, Remainders
  <2>3. Wrap(n) = (n + Half) - Half
    BY <1>2, <2>2
  <2> QED
    BY <1>0, <2>1, <2>3
<1>4. ASSUME NEW a \in Int, NEW b \in Int, NEW k \in Int, a = b + (h * k)
      PROVE  Wrap(a) = Wrap(b)
  <2> DEFINE x == a + Half
             y == b + Half
  <2>1. x = y + (h * k) /\ x \in Int /\ y \in Int
    BY <1>0, <1>4
  <2>2. Wrap(a) = (x % h) - Half /\ Wrap(b) = (y % h) - Half
    BY <1>2
  <2> HIDE DEF x, y
  <2>3. x % h = y % h
    BY <1>0, <2>1, Remainders
  <2> QED
    BY <2>2, <2>3
<1>5. ASSUME NEW a \in Int
      PROVE  \E k \in Int : Wrap(a) = a + (h * k)
  <2>1. a + Half \in Int
    BY <1>0
  <2>2. PICK k \in Int : (a + Half) % h = (a + Half) + (h * k)
    BY <1>0, <2>1, Remainders
  <2>3. Wrap(a) = a + (h * k)
    BY <1>0, <1>2, <2>2
  <2> QED
    BY <2>3
<1> QED
  BY <1>1, <1>3, <1>4, <1>5

\* The figures of a number are those of a tenth of it, and one more.
LEMMA DigitsAre ==
    \A n \in 0..2 * Half - 1 :
        /\ digits[n] \in Seq(ToSet(Figures))
        /\ digits[n] = IF n < 10 THEN <<Figures[n + 1]>>
                       ELSE digits[n \div 10] \o <<Figures[(n % 10) + 1]>>
<1> DEFINE N == 2 * Half - 1
           V == Seq(ToSet(Figures))
           body(f, n) == IF n < 10 THEN <<Figures[n + 1]>>
                         ELSE f[n \div 10] \o <<Figures[(n % 10) + 1]>>
           T == {k \in 0..N : \E f \in [0..N -> V] : \A j \in 0..k : f[j] = body(f, j)}
<1>0. N \in Nat
  BY Bits
<1>1. ASSUME NEW k \in 0..9
      PROVE  <<Figures[k + 1]>> \in V
  BY ValueIs
<1>2. ASSUME NEW n \in Nat
      PROVE  n % 10 \in 0..9 /\ (n >= 10 => n \div 10 \in 0..n - 1)
  OBVIOUS
<1>3. ASSUME NEW f, NEW n \in Nat, n >= 10 => f[n \div 10] \in V
      PROVE  body(f, n) \in V
  <2>1. CASE n < 10
    BY <1>1, <2>1
  <2>2. CASE n >= 10
    <3>1. f[n \div 10] \in V /\ <<Figures[(n % 10) + 1]>> \in V
      BY <1>1, <1>2, <1>3, <2>2
    <3>2. f[n \div 10] \o <<Figures[(n % 10) + 1]>> \in V
      <4> HIDE DEF body
      <4> QED
        BY <3>1, ConcatProperties
    <3> QED
      BY <2>2, <3>2
  <2> QED
    BY <2>1, <2>2
<1>4. 0 \in T
  <2> DEFINE f0 == [j \in 0..N |-> <<Figures[1]>>]
  <2>1. <<Figures[1]>> \in V
    <3>1. <<Figures[0 + 1]>> \in V
      BY <1>1
    <3> QED
      BY <3>1
  <2>2. f0 \in [0..N -> V] /\ f0[0] = <<Figures[1]>>
    BY <1>0, <2>1
  <2>3. f0[0] = body(f0, 0)
    <3>1. 0 < 10 /\ Figures[0 + 1] = Figures[1]
      OBVIOUS
    <3> HIDE DEF f0
    <3>2. body(f0, 0) = <<Figures[1]>>
      BY <3>1
    <3> QED
      BY <2>2, <3>2
  <2> HIDE DEF f0, body, V, N
  <2> QED
    BY <1>0, <2>2, <2>3
<1>5. ASSUME NEW k \in 1..N, k - 1 \in T
      PROVE  k \in T
  <2>1. PICK f \in [0..N -> V] : \A j \in 0..k - 1 : f[j] = body(f, j)
    BY <1>5
  <2> DEFINE g == [f EXCEPT ![k] = body(f, k)]
  <2>2. body(f, k) \in V
    <3>1. k \in Nat /\ (k >= 10 => k \div 10 \in 0..N)
      BY <1>0, <1>2
    <3>2. k >= 10 => f[k \div 10] \in V
      BY <3>1
    <3> HIDE DEF body, V, N
    <3> QED
      BY <1>3, <3>1, <3>2
  <2>3. g \in [0..N -> V] /\ g[k] = body(f, k) /\ \A j \in 0..N : j # k => g[j] = f[j]
    <3> HIDE DEF body, V
    <3> QED
      BY <1>0, <2>2
  <2> HIDE DEF g
  <2>4. ASSUME NEW j \in 0..k
        PROVE  g[j] = body(g, j)
    <3>0. j \in Nat /\ j \in 0..N
      BY <1>0
    <3>1. j >= 10 => g[j \div 10] = f[j \div 10]
      <4>1. j >= 10 => j \div 10 \in 0..N /\ j \div 10 # k
        BY <1>0, <1>2, <3>0
      <4> QED
        BY <2>3, <4>1
    <3>2. body(g, j) = body(f, j)
      BY <3>0, <3>1
    <3>3. g[j] = body(f, j)
      <4> HIDE DEF body
      <4>1. CASE j = k
        BY <2>3, <4>1
      <4>2. CASE j # k
        <5>1. j \in 0..k - 1
          BY <1>0, <4>2
        <5> QED
          BY <2>1, <2>3, <3>0, <4>2, <5>1
      <4> QED
        BY <4>1, <4>2
    <3> QED
      BY <3>2, <3>3
  <2> HIDE DEF body, V, N
  <2>5. k \in 0..N
    BY <1>0
  <2> QED
    BY <2>3, <2>4, <2>5
<1>6. PICK f \in [0..N -> V] : \A j \in 0..N : f[j] = body(f, j)
  <2>1. 0..N \subseteq T
    <3> HIDE DEF T, N
    <3> QED
      BY <1>0, <1>4, <1>5, UpTo
  <2>2. N \in T
    BY <1>0, <2>1
  <2> QED
    BY <2>2
<1>7. f = [n \in 0..N |-> body(f, n)]
  <2> HIDE DEF body, V, N
  <2> QED
    BY <1>6
<1>8. digits = [n \in 0..N |-> body(digits, n)]
  <2> DEFINE Follows(r) == r = [n \in 0..N |-> body(r, n)]
  <2>1. digits = CHOOSE r : Follows(r)
    BY DEF digits
  <2>2. \E r : Follows(r)
    BY <1>7
  <2> HIDE DEF Follows
  <2>3. Follows(digits)
    BY <2>1, <2>2
  <2> QED
    BY <2>3 DEF Follows
<1>9. \A n \in 0..N : digits[n] = body(digits, n)
  <2> HIDE DEF body, N
  <2> QED
    BY <1>8
<1>10. \A n \in 0..N : digits[n] \in V
  <2> DEFINE U == {n \in 0..N : digits[n] \in V}
  <2>1. 0 \in U
    <3>1. body(digits, 0) \in V
      <4>1. 0 \in Nat /\ ~(0 >= 10)
        OBVIOUS
      <4> HIDE DEF body, V
      <4> QED
        BY <1>3, <4>1
    <3> HIDE DEF body, V
    <3> QED
      BY <1>0, <1>9, <3>1
  <2>2. ASSUME NEW k \in 1..N, 0..k - 1 \subseteq U
        PROVE  k \in U
    <3>1. k \in Nat /\ (k >= 10 => k \div 10 \in 0..k - 1)
      BY <1>0, <1>2
    <3>2. body(digits, k) \in V
      <4>1. k >= 10 => digits[k \div 10] \in V
        BY <2>2, <3>1
      <4> HIDE DEF body, V
      <4> QED
        BY <1>3, <3>1, <4>1
    <3> HIDE DEF body, V
    <3> QED
      BY <1>0, <1>9, <3>2
  <2>3. 0..N \subseteq U
    <3> HIDE DEF U, N
    <3> QED
      BY <1>0, <2>1, <2>2, Below
  <2> QED
    BY <2>3
<1> QED
  BY <1>9, <1>10

\* The loop of int_of_string gets the number back, as far as it fits.
LEMMA DigitsComeBack ==
    \A n \in 0..2 * Half - 1 : int_of_string(digits[n]) = Wrap(n)
<1> DEFINE N == 2 * Half - 1
           C == ToSet(Figures)
           T == {n \in 0..N : int_of_string(digits[n]) = Wrap(n)}
<1>0. N \in Nat
  BY Bits
<1>1. ASSUME NEW s \in Seq(C), NEW k \in 0..9
      PROVE  int_of_string(s \o <<Figures[k + 1]>>) = Wrap((int_of_string(s) * 10) + k)
  <2>1. Figures[k + 1] \in C /\ value(Figures[k + 1]) = k
    BY ValueIs
  <2>2. s \o <<Figures[k + 1]>> = Append(s, Figures[k + 1])
    BY <2>1, AppendIsConcat
  <2> QED
    BY <2>1, <2>2, NumberIs
<1>2. ASSUME NEW n \in 0..N, n < 10
      PROVE  n \in T
  <2>1. n \in 0..9
    BY <1>0, <1>2
  <2>2. digits[n] = <<>> \o <<Figures[n + 1]>>
    <3>1. <<Figures[n + 1]>> \in Seq(C)
      BY <2>1, ValueIs
    <3> QED
      BY <1>2, <3>1, DigitsAre, ConcatEmptySeq
  <2>3. int_of_string(<<>>) = 0 /\ <<>> \in Seq(C)
    BY NumberIs, EmptySeq
  <2>4. int_of_string(digits[n]) = Wrap((0 * 10) + n)
    BY <1>1, <2>1, <2>2, <2>3
  <2> QED
    BY <2>1, <2>4
<1>3. ASSUME NEW n \in 1..N, 0..n - 1 \subseteq T
      PROVE  n \in T
  <2>1. CASE n < 10
    BY <1>0, <1>2, <2>1
  <2>2. CASE n >= 10
    <3> DEFINE q == n \div 10
               k == n % 10
    <3>1. q \in 0..n - 1 /\ k \in 0..9 /\ n = (q * 10) + k
      BY <1>0, <2>2
    <3> HIDE DEF q, k
    <3>2. int_of_string(digits[q]) = Wrap(q) /\ digits[q] \in Seq(C)
      BY <1>0, <1>3, <3>1, DigitsAre
    <3>3. digits[n] = digits[q] \o <<Figures[k + 1]>>
      <4>1. n \in 0..2 * Half - 1 /\ ~(n < 10)
        BY <1>0, <2>2
      <4>2. digits[n] = digits[n \div 10] \o <<Figures[(n % 10) + 1]>>
        BY <4>1, DigitsAre
      <4> QED
        BY <4>2 DEF q, k
    <3>4. int_of_string(digits[n]) = Wrap((Wrap(q) * 10) + k)
      BY <1>1, <3>1, <3>2, <3>3
    <3>5. PICK j \in Int : Wrap(q) = q + ((2 * Half) * j)
      BY <3>1, WrapIs
    <3> DEFINE h == 2 * Half
    <3>6. h \in Nat /\ h = 2 * Half
      BY Bits
    <3> HIDE DEF h
    <3>7. (Wrap(q) * 10) + k = n + (h * (10 * j)) /\ (Wrap(q) * 10) + k \in Int
      <4> DEFINE m == h * j
                 w == Wrap(q)
      <4>1. w = q + m /\ m \in Int /\ h * (10 * j) = 10 * m
        BY <3>5, <3>6
      <4> HIDE DEF m, w
      <4>2. (w * 10) + k = n + (10 * m) /\ (w * 10) + k \in Int
        BY <3>1, <4>1
      <4> QED
        BY <4>1, <4>2 DEF w
    <3>8. n \in Int /\ 10 * j \in Int
      BY <1>0
    <3>9. Wrap((Wrap(q) * 10) + k) = Wrap(n)
      BY <3>6, <3>7, <3>8, WrapIs
    <3> QED
      BY <1>0, <3>4, <3>9
  <2> QED
    BY <1>0, <2>1, <2>2
<1>4. 0..N \subseteq T
  <2>1. 0 \in T
    BY <1>0, <1>2
  <2> HIDE DEF T, N
  <2> QED
    BY <1>0, <1>3, <2>1, Below
<1> QED
  BY <1>4

(***************************************************************************)
(* What is escaped in a string, and its parts.                             *)
(***************************************************************************)

\* A character behind two sequences is behind the second.
LEMMA AppendBehind ==
    ASSUME NEW S, NEW s \in Seq(S), NEW t \in Seq(S), NEW c \in S
    PROVE  s \o Append(t, c) = Append(s \o t, c)
OBVIOUS

\* Each string is escaped for itself.
LEMMA EscapedConcat ==
    ASSUME NEW C, {"%", "2", "7"} \subseteq C, NEW s \in Seq(C)
    PROVE  \A t \in Seq(C) : escaped(s \o t) = escaped(s) \o escaped(t)
<1> DEFINE T == {t \in Seq(C) : escaped(s \o t) = escaped(s) \o escaped(t)}
<1>1. <<>> \in T
  <2>1. <<>> \in Seq(C) /\ s \o <<>> = s /\ escaped(<<>>) = <<>>
    BY EmptySeq, ConcatEmptySeq, EscapedIs
  <2>2. escaped(s) \o <<>> = escaped(s)
    BY EscapedIs, ConcatEmptySeq
  <2> QED
    BY <2>1, <2>2
<1>2. ASSUME NEW t \in Seq(C), NEW c \in C, t \in T
      PROVE  Append(t, c) \in T
  <2> DEFINE e == IF c = "'" THEN <<"%", "2", "7">> ELSE <<c>>
             u == s \o t
  <2>1. e \in Seq(C)
    OBVIOUS
  <2>2. \A r : escape_tick(r, c) = r \o e
    BY DEF escape_tick
  <2> HIDE DEF e
  <2>3. u \in Seq(C) /\ Append(t, c) \in Seq(C)
    BY ConcatProperties, AppendProperties
  <2>4. escaped(s) \in Seq(C) /\ escaped(t) \in Seq(C)
    BY EscapedIs
  <2>5. s \o Append(t, c) = Append(u, c)
    BY AppendBehind
  <2>6. escaped(u) = escaped(s) \o escaped(t)
    BY <1>2
  <2> HIDE DEF u
  <2>7. escaped(Append(u, c)) = escaped(u) \o e /\ escaped(Append(t, c)) = escaped(t) \o e
    BY <2>2, <2>3, EscapedIs
  <2>8. (escaped(s) \o escaped(t)) \o e = escaped(s) \o (escaped(t) \o e)
    BY <2>1, <2>4, ConcatAssociative
  <2> QED
    BY <2>3, <2>5, <2>6, <2>7, <2>8
<1>3. \A t \in Seq(C) : t \in T
  <2> HIDE DEF T
  <2> QED
    BY <1>1, <1>2, OnSequences
<1> QED
  BY <1>3

\* No quote is left, and where there is none nothing changes: what was escaped
\* once stays as it is.
LEMMA EscapedOnce ==
    ASSUME NEW C, {"%", "2", "7"} \subseteq C
    PROVE  /\ \A s \in Seq(C) : escaped(s) \in Seq(C \ {"'"})
           /\ \A s \in Seq(C \ {"'"}) : escaped(s) = s
<1> DEFINE D == C \ {"'"}
           T == {s \in Seq(C) : escaped(s) \in Seq(D)}
           U == {s \in Seq(D) : escaped(s) = s}
<1>0. escaped(<<>>) = <<>> /\ {"%", "2", "7"} \subseteq D
  BY EscapedIs
<1>1. <<>> \in T /\ <<>> \in U
  BY <1>0, EmptySeq
<1>2. ASSUME NEW s \in Seq(C), NEW c \in C, s \in T
      PROVE  Append(s, c) \in T
  <2> DEFINE e == IF c = "'" THEN <<"%", "2", "7">> ELSE <<c>>
  <2>1. e \in Seq(D)
    <3>1. CASE c = "'"
      BY <1>0, <3>1
    <3>2. CASE c # "'"
      BY <3>2
    <3> QED
      BY <3>1, <3>2
  <2>2. escaped(Append(s, c)) = escaped(s) \o e /\ Append(s, c) \in Seq(C)
    BY EscapedIs, AppendProperties DEF escape_tick
  <2> HIDE DEF e, D
  <2>3. escaped(s) \o e \in Seq(D)
    BY <1>2, <2>1, ConcatProperties
  <2> QED
    BY <2>2, <2>3
<1>3. ASSUME NEW s \in Seq(D), NEW c \in D, s \in U
      PROVE  Append(s, c) \in U
  <2>1. escaped(Append(s, c)) = escape_tick(escaped(s), c)
    BY <1>0, EscapedIs
  <2>2. escape_tick(escaped(s), c) = s \o <<c>>
    BY <1>3 DEF escape_tick
  <2>3. Append(s, c) = s \o <<c>> /\ Append(s, c) \in Seq(D)
    <3> HIDE DEF D
    <3> QED
      BY AppendIsConcat, AppendProperties
  <2> QED
    BY <2>1, <2>2, <2>3
<1>4. \A s \in Seq(C) : s \in T
  <2> HIDE DEF T
  <2> QED
    BY <1>1, <1>2, OnSequences
<1>5. \A s \in Seq(D) : s \in U
  <2> HIDE DEF U, D
  <2> QED
    BY <1>1, <1>3, OnSequences
<1> QED
  BY <1>4, <1>5

\* A string without d is one part.
LEMMA OnePart ==
    ASSUME NEW C, NEW d, d \notin C
    PROVE  \A s \in Seq(C) : Parts(d, s) = <<s>>
<1> DEFINE T == {s \in Seq(C) : Parts(d, s) = <<s>>}
<1>1. <<>> \in T
  BY NoParts, EmptySeq
<1>2. ASSUME NEW s \in Seq(C), NEW c \in C, s \in T
      PROVE  Append(s, c) \in T
  <2>1. Parts(d, Append(s, c)) = cut(d, <<s>>, c)
    BY <1>2, PartsGrow
  <2>2. cut(d, <<s>>, c) = <<Append(s, c)>>
    BY DEF cut
  <2>3. Append(s, c) \in Seq(C)
    BY AppendProperties
  <2> QED
    BY <2>1, <2>2, <2>3
<1>3. \A s \in Seq(C) : s \in T
  <2> HIDE DEF T
  <2> QED
    BY <1>1, <1>2, OnSequences
<1> QED
  BY <1>3

\* Two sequences behind each other, as one thing: for the provers an equality
\* with \o is one between all the elements.
Joined(p, q) == p \o q

\* A character goes to the last part.
LEMMA CutBehind ==
    ASSUME NEW C, NEW d, NEW S, S = Seq(C), NEW p \in Seq(S), NEW q \in Seq(S), q # <<>>
    PROVE  \A c \in C : cut(d, Joined(p, q), c) = Joined(p, cut(d, q, c))
<1> TAKE c \in C
<1>1. CASE c = d
  <2>1. <<>> \in S
    BY EmptySeq
  <2>2. p \o Append(q, <<>>) = Append(p \o q, <<>>)
    BY <2>1, AppendBehind
  <2> QED
    BY <1>1, <2>2 DEF cut, Joined
<1>2. CASE c # d
  <2> DEFINE n == Len(q)
             m == Len(p)
             x == q[n]
             y == Append(x, c)
             pq == p \o q
  <2>1. n \in Nat \ {0} /\ m \in Nat /\ n \in 1..n
    BY EmptySeq, LenProperties
  <2>2. x \in S /\ y \in S
    BY <2>1, ElementOfSeq, AppendProperties
  <2>3. /\ pq \in Seq(S) /\ Len(pq) = m + n
        /\ \A i \in 1..m + n : pq[i] = IF i <= m THEN p[i] ELSE q[i - m]
    BY ConcatProperties
  <2>4. pq[m + n] = x
    BY <2>1, <2>3
  <2> DEFINE q1 == [q EXCEPT ![n] = y]
             r == [pq EXCEPT ![m + n] = y]
  <2>5. cut(d, q, c) = q1 /\ cut(d, pq, c) = r
    BY <1>2, <2>3, <2>4 DEF cut
  <2> HIDE DEF x, y, pq, n, m
  <2>6. m + n \in 1..Len(pq) /\ p \in Seq(S) /\ q \in Seq(S)
    BY <2>1, <2>3
  <2>7. q1 \in Seq(S) /\ Len(q1) = n /\ \A i \in 1..n : q1[i] = IF i = n THEN y ELSE q[i]
    BY <2>1, <2>2, <2>6, ExceptSeq DEF n
  <2>8. r \in Seq(S) /\ Len(r) = m + n /\ \A i \in 1..m + n : r[i] = IF i = m + n THEN y ELSE pq[i]
    BY <2>2, <2>3, <2>6, ExceptSeq
  <2> HIDE DEF q1, r
  <2>9. /\ p \o q1 \in Seq(S) /\ Len(p \o q1) = m + n
        /\ \A i \in 1..m + n : (p \o q1)[i] = IF i <= m THEN p[i] ELSE q1[i - m]
    BY <2>6, <2>7, ConcatProperties DEF m
  <2>10. ASSUME NEW i \in 1..m + n
         PROVE  r[i] = (p \o q1)[i]
    <3>0. i \in Int /\ m \in Int /\ n \in Int
      BY <2>1
    <3>1. CASE i <= m
      <4>1. i # m + n
        BY <2>1, <3>1
      <4>2. (p \o q1)[i] = p[i] /\ pq[i] = p[i] /\ r[i] = pq[i]
        BY <2>3, <2>8, <2>9, <3>1, <4>1
      <4> QED
        BY <4>2
    <3>2. CASE i > m
      <4>1. i - m \in 1..n /\ (i - m = n <=> i = m + n)
        BY <2>1, <3>2
      <4>2. (p \o q1)[i] = q1[i - m] /\ pq[i] = q[i - m]
        <5>1. ~(i <= m)
          BY <3>0, <3>2
        <5>2. (p \o q1)[i] = IF i <= m THEN p[i] ELSE q1[i - m]
          BY <2>9
        <5>3. pq[i] = IF i <= m THEN p[i] ELSE q[i - m]
          BY <2>3
        <5> QED
          BY <5>1, <5>2, <5>3
      <4>3. q1[i - m] = IF i - m = n THEN y ELSE q[i - m]
        BY <2>7, <4>1
      <4>4. r[i] = IF i = m + n THEN y ELSE pq[i]
        BY <2>8
      <4> QED
        BY <4>1, <4>2, <4>3, <4>4
    <3>3. i <= m \/ i > m
      BY <3>0
    <3> QED
      BY <3>1, <3>2, <3>3
  <2>11. r = p \o q1
    BY <2>8, <2>9, <2>10, SeqEqual
  <2> QED
    BY <2>5, <2>11 DEF pq, Joined
<1> QED
  BY <1>1, <1>2

\* The parts of what is on both sides of a d.
LEMMA PartsOfBoth ==
    ASSUME NEW C, NEW d \in C, NEW s \in Seq(C)
    PROVE  \A t \in Seq(C) : Parts(d, Append(s, d) \o t) = Parts(d, s) \o Parts(d, t)
<1> DEFINE a == Append(s, d)
           T == {t \in Seq(C) : Parts(d, a \o t) = Parts(d, s) \o Parts(d, t)}
<1>0. a \in Seq(C) /\ <<>> \in Seq(C)
  BY AppendProperties, EmptySeq
<1>1. <<>> \in T
  <2>1. a \o <<>> = a /\ Parts(d, <<>>) = <<<<>>>>
    BY <1>0, ConcatEmptySeq, NoParts
  <2>2. Parts(d, a) = Append(Parts(d, s), <<>>)
    BY PartsGrow DEF cut
  <2>3. Append(Parts(d, s), <<>>) = Parts(d, s) \o <<<<>>>>
    <3>1. Parts(d, s) \in Seq(Seq(C))
      BY PartsTyped
    <3> QED
      BY <1>0, <3>1, AppendIsConcat
  <2> HIDE DEF a
  <2> QED
    BY <1>0, <2>1, <2>2, <2>3
<1>2. ASSUME NEW t \in Seq(C), NEW c \in C, t \in T
      PROVE  Append(t, c) \in T
  <2> HIDE DEF a
  <2>1. a \o t \in Seq(C) /\ Append(t, c) \in Seq(C)
    BY <1>0, ConcatProperties, AppendProperties
  <2>2. a \o Append(t, c) = Append(a \o t, c)
    BY <1>0, AppendBehind
  <2>3. Parts(d, Append(a \o t, c)) = cut(d, Parts(d, s) \o Parts(d, t), c)
    <3> DEFINE at == a \o t
    <3>1. at \in Seq(C)
      BY <2>1
    <3> HIDE DEF at
    <3>2. Parts(d, Append(at, c)) = cut(d, Parts(d, at), c)
      BY <3>1, PartsGrow
    <3> QED
      BY <1>2, <3>2 DEF at
  <2>4. cut(d, Parts(d, s) \o Parts(d, t), c) = Parts(d, s) \o cut(d, Parts(d, t), c)
    <3> DEFINE p == Parts(d, s)
               q == Parts(d, t)
               S == Seq(C)
    <3>1. p \in Seq(S) /\ q \in Seq(S) /\ q # <<>>
      BY PartsTyped
    <3>0. S = Seq(C)
      OBVIOUS
    <3> HIDE DEF p, q, S
    <3>2. cut(d, Joined(p, q), c) = Joined(p, cut(d, q, c))
      BY <3>0, <3>1, CutBehind
    <3> QED
      BY <3>2 DEF p, q, Joined
  <2>5. cut(d, Parts(d, t), c) = Parts(d, Append(t, c))
    BY PartsGrow
  <2> QED
    BY <2>1, <2>2, <2>3, <2>4, <2>5
<1>3. \A t \in Seq(C) : t \in T
  <2> HIDE DEF T
  <2> QED
    BY <1>1, <1>2, OnSequences
<1> QED
  BY <1>3

\* What is before the first ':' of a string, and whether there is none.
First(s) == Parts(":", s)[1]
Bare(s)  == Len(Parts(":", s)) = 1

\* A character belongs to what is before the first ':' if none came yet.
LEMMA FirstGrows ==
    ASSUME NEW C, NEW s \in Seq(C), NEW c \in C
    PROVE  /\ First(s) \in Seq(C)
           /\ c = ":" => First(Append(s, c)) = First(s) /\ ~Bare(Append(s, c))
           /\ c # ":" => (Bare(Append(s, c)) <=> Bare(s))
           /\ c # ":" /\ Bare(s) => First(Append(s, c)) = Append(First(s), c)
           /\ c # ":" /\ ~Bare(s) => First(Append(s, c)) = First(s)
<1> DEFINE p == Parts(":", s)
           q == Parts(":", Append(s, c))
           n == Len(p)
           S == Seq(C)
<1>1. p \in Seq(S) /\ p # <<>> /\ q = cut(":", p, c)
  BY PartsTyped, PartsGrow
<1>2. First(s) = p[1] /\ First(Append(s, c)) = q[1]
      /\ (Bare(s) <=> n = 1) /\ (Bare(Append(s, c)) <=> Len(q) = 1)
  BY DEF First, Bare
<1>3. S = Seq(C)
  OBVIOUS
<1> HIDE DEF p, q, S
<1>4. n \in Nat \ {0} /\ \A i \in 1..n : p[i] \in S
  BY <1>1, EmptySeq, LenProperties, ElementOfSeq
<1>5. <<>> \in S
  BY <1>3, EmptySeq
<1>6. CASE c = ":"
  <2>1. q = Append(p, <<>>)
    BY <1>1, <1>6 DEF cut
  <2>2. Len(q) = n + 1 /\ q[1] = p[1]
    BY <1>1, <1>4, <1>5, <2>1, AppendProperties
  <2>3. Len(q) # 1 /\ First(s) \in Seq(C)
    BY <1>2, <1>3, <1>4, <2>2
  <2> HIDE DEF n
  <2> QED
    BY <1>2, <1>6, <2>2, <2>3
<1>7. CASE c # ":"
  <2> DEFINE y == Append(p[n], c)
  <2>1. y \in S
    BY <1>3, <1>4, AppendProperties
  <2>2. q = [p EXCEPT ![n] = y]
    BY <1>1, <1>7 DEF cut
  <2>3. n = 1 => y = Append(p[1], c)
    OBVIOUS
  <2> HIDE DEF y
  <2>4. Len(q) = n /\ \A i \in 1..n : q[i] = IF i = n THEN y ELSE p[i]
    BY <1>1, <1>4, <2>1, <2>2, ExceptSeq
  <2> HIDE DEF n
  <2>5. q[1] = IF n = 1 THEN y ELSE p[1]
    BY <1>4, <2>4
  <2>6. p[1] \in S
    BY <1>4
  <2> QED
    BY <1>2, <1>3, <1>7, <2>3, <2>4, <2>5, <2>6
<1> QED
  BY <1>6, <1>7

\* Of an empty string, and of one that has no ':'.
LEMMA FirstOfAll ==
    /\ First(<<>>) = <<>> /\ Bare(<<>>)
    /\ \A C : ":" \notin C => \A s \in Seq(C) : First(s) = s /\ Bare(s)
<1>1. First(<<>>) = <<>> /\ Bare(<<>>)
  BY NoParts DEF First, Bare
<1>2. ASSUME NEW C, ":" \notin C, NEW s \in Seq(C)
      PROVE  First(s) = s /\ Bare(s)
  <2>1. Parts(":", s) = <<s>>
    BY <1>2, OnePart
  <2> QED
    BY <2>1 DEF First, Bare
<1> QED
  BY <1>1, <1>2

\* There is no ':' before the first one.
LEMMA FirstIsPlain ==
    ASSUME NEW C
    PROVE  \A s \in Seq(C) : First(s) \in Seq(C \ {":"})
<1> DEFINE D == C \ {":"}
           T == {s \in Seq(C) : First(s) \in Seq(D)}
<1>1. <<>> \in T
  BY FirstOfAll, EmptySeq
<1>2. ASSUME NEW s \in Seq(C), NEW c \in C, s \in T
      PROVE  Append(s, c) \in T
  <2>1. Append(s, c) \in Seq(C) /\ First(s) \in Seq(D)
    BY <1>2, AppendProperties
  <2> HIDE DEF D
  <2>2. CASE c = ":" \/ ~Bare(s)
    <3>1. First(Append(s, c)) = First(s)
      BY <2>2, FirstGrows
    <3> QED
      BY <2>1, <3>1
  <2>3. CASE c # ":" /\ Bare(s)
    <3>1. First(Append(s, c)) = Append(First(s), c)
      BY <2>3, FirstGrows
    <3>2. c \in D
      BY <2>3 DEF D
    <3>3. Append(First(s), c) \in Seq(D)
      BY <2>1, <3>2, AppendProperties
    <3> QED
      BY <2>1, <3>1, <3>3
  <2> QED
    BY <2>2, <2>3
<1>3. \A s \in Seq(C) : s \in T
  <2> HIDE DEF T
  <2> QED
    BY <1>1, <1>2, OnSequences
<1> QED
  BY <1>3

\* Three characters more.
Three(s, x, y, z) == Append(Append(Append(s, x), y), z)

\* They stay together, before a ':' or behind it.
LEMMA FirstOfThree ==
    ASSUME NEW C, NEW s \in Seq(C),
           NEW x \in C \ {":"}, NEW y \in C \ {":"}, NEW z \in C \ {":"}
    PROVE  /\ Bare(Three(s, x, y, z)) <=> Bare(s)
           /\ Bare(s) => First(Three(s, x, y, z)) = Three(First(s), x, y, z)
           /\ ~Bare(s) => First(Three(s, x, y, z)) = First(s)
<1> DEFINE s1 == Append(s, x)
           s2 == Append(s1, y)
           s3 == Append(s2, z)
<1>1. s1 \in Seq(C)
  BY AppendProperties
<1>2. s3 = Three(s, x, y, z)
  BY DEF Three
<1>3. /\ Bare(s1) <=> Bare(s)
      /\ First(s1) = IF Bare(s) THEN Append(First(s), x) ELSE First(s)
  BY FirstGrows
<1> HIDE DEF s1
<1>4. s2 \in Seq(C)
  BY <1>1, AppendProperties
<1>5. /\ Bare(s2) <=> Bare(s1)
      /\ First(s2) = IF Bare(s1) THEN Append(First(s1), y) ELSE First(s1)
  BY <1>1, FirstGrows
<1> HIDE DEF s2
<1>6. /\ Bare(s3) <=> Bare(s2)
      /\ First(s3) = IF Bare(s2) THEN Append(First(s2), z) ELSE First(s2)
  BY <1>4, FirstGrows
<1> HIDE DEF s3
<1>7. Bare(s) => First(s3) = Append(Append(Append(First(s), x), y), z)
  BY <1>3, <1>5, <1>6
<1>8. ~Bare(s) => First(s3) = First(s)
  BY <1>3, <1>5, <1>6
<1>9. Bare(s3) <=> Bare(s)
  BY <1>3, <1>5, <1>6
<1>10. Three(First(s), x, y, z) = Append(Append(Append(First(s), x), y), z)
  BY DEF Three
<1> QED
  BY <1>2, <1>7, <1>8, <1>9, <1>10

\* How an escaped string goes on.
LEMMA EscapedGrows ==
    ASSUME NEW C, {"%", "2", "7"} \subseteq C, NEW s \in Seq(C), NEW c \in C
    PROVE  /\ c # "'" => escaped(Append(s, c)) = Append(escaped(s), c)
           /\ c = "'" => escaped(Append(s, c)) = Three(escaped(s), "%", "2", "7")
<1> DEFINE e == escaped(s)
<1>1. e \in Seq(C)
  BY EscapedIs
<1>2. escaped(Append(s, c)) = escape_tick(e, c)
  BY EscapedIs
<1> HIDE DEF e
<1>3. CASE c # "'"
  <2>1. escape_tick(e, c) = e \o <<c>>
    BY <1>3 DEF escape_tick
  <2>2. e \o <<c>> = Append(e, c)
    BY <1>1, AppendIsConcat
  <2> QED
    BY <1>2, <1>3, <2>1, <2>2 DEF e
<1>4. CASE c = "'"
  <2>1. escape_tick(e, c) = e \o <<"%", "2", "7">>
    BY <1>4 DEF escape_tick
  <2>2. e \o <<"%", "2", "7">> = Three(e, "%", "2", "7")
    BY <1>1 DEF Three
  <2> QED
    BY <1>2, <1>4, <2>1, <2>2 DEF e
<1> QED
  BY <1>3, <1>4

\* It is the same to cut a string at its first ':' and to escape it in either
\* order.
LEMMA FirstOfEscaped ==
    ASSUME NEW C, {"%", "2", "7"} \subseteq C
    PROVE  \A s \in Seq(C) : First(escaped(s)) = escaped(First(s))
<1> DEFINE T == {s \in Seq(C) : /\ First(escaped(s)) = escaped(First(s))
                                /\ Bare(escaped(s)) <=> Bare(s)}
<1>1. <<>> \in T
  BY FirstOfAll, EscapedIs, EmptySeq
<1>2. ASSUME NEW s \in Seq(C), NEW c \in C, s \in T
      PROVE  Append(s, c) \in T
  <2> DEFINE e == escaped(s)
             f == First(s)
             t == Append(s, c)
  <2>1. e \in Seq(C) /\ f \in Seq(C) /\ t \in Seq(C)
    BY EscapedIs, FirstGrows, AppendProperties
  <2>2. First(e) = escaped(f) /\ (Bare(e) <=> Bare(s))
    BY <1>2
  <2>3. CASE c = "'"
    <3>1. escaped(t) = Three(e, "%", "2", "7") /\ escaped(Append(f, c)) = Three(escaped(f), "%", "2", "7")
      BY <2>1, <2>3, EscapedGrows
    <3>2. /\ Bare(t) <=> Bare(s)
          /\ Bare(s) => First(t) = Append(f, c)
          /\ ~Bare(s) => First(t) = f
      BY <2>3, FirstGrows
    <3>3. /\ Bare(Three(e, "%", "2", "7")) <=> Bare(e)
          /\ Bare(e) => First(Three(e, "%", "2", "7")) = Three(First(e), "%", "2", "7")
          /\ ~Bare(e) => First(Three(e, "%", "2", "7")) = First(e)
      BY <2>1, FirstOfThree
    <3> DEFINE x == Three(e, "%", "2", "7")
               y == Three(escaped(f), "%", "2", "7")
               z == Append(f, c)
    <3>4. Three(First(e), "%", "2", "7") = y
      BY <2>2
    <3> HIDE DEF e, f, t, x, y, z
    <3>5. First(escaped(t)) = escaped(First(t)) /\ (Bare(escaped(t)) <=> Bare(t))
      BY <2>2, <3>1, <3>2, <3>3, <3>4 DEF x, y, z
    <3> QED
      BY <2>1, <3>5 DEF t
  <2>4. CASE c # "'"
    <3>1. escaped(t) = Append(e, c) /\ escaped(Append(f, c)) = Append(escaped(f), c)
      BY <2>1, <2>4, EscapedGrows
    <3>2. /\ Bare(t) <=> (c # ":" /\ Bare(s))
          /\ c # ":" /\ Bare(s) => First(t) = Append(f, c)
          /\ ~(c # ":" /\ Bare(s)) => First(t) = f
      BY FirstGrows
    <3>3. /\ Bare(Append(e, c)) <=> (c # ":" /\ Bare(e))
          /\ c # ":" /\ Bare(e) => First(Append(e, c)) = Append(First(e), c)
          /\ ~(c # ":" /\ Bare(e)) => First(Append(e, c)) = First(e)
      BY <2>1, FirstGrows
    <3> DEFINE x == Append(e, c)
               y == Append(escaped(f), c)
               z == Append(f, c)
    <3>4. Append(First(e), c) = y
      BY <2>2
    <3>5. /\ escaped(t) = x /\ escaped(z) = y
          /\ c # ":" /\ Bare(s) => First(t) = z
          /\ c # ":" /\ Bare(e) => First(x) = y
          /\ ~(c # ":" /\ Bare(e)) => First(x) = First(e)
          /\ Bare(x) <=> (c # ":" /\ Bare(e))
      BY <3>1, <3>2, <3>3, <3>4
    <3> HIDE DEF e, f, t, x, y, z
    <3>6. First(escaped(t)) = escaped(First(t)) /\ (Bare(escaped(t)) <=> Bare(t))
      BY <2>2, <3>2, <3>5
    <3> QED
      BY <2>1, <3>6 DEF t
  <2> QED
    BY <2>3, <2>4
<1>3. \A s \in Seq(C) : s \in T
  <2> HIDE DEF T
  <2> QED
    BY <1>1, <1>2, OnSequences
<1> QED
  BY <1>3

(***************************************************************************)
(* The text of an object: a line for each field, with its name before the  *)
(* first ':'.                                                              *)
(***************************************************************************)
Line(x, v) == <<x, ":">> \o v

\* What split(":", line) has for the name and for the field.
LEMMA KeyAndValue ==
    ASSUME NEW C, ":" \in C, NEW x \in C, x # ":", NEW v \in Seq(C)
    PROVE  /\ Line(x, v) \in Seq(C)
           /\ split(":", Line(x, v)) # <<>>
           /\ split(":", Line(x, v))[1] = <<x>>
           /\ First(v) = IF Len(split(":", Line(x, v))) = 1 THEN <<>>
                         ELSE split(":", Line(x, v))[2]
<1> DEFINE S == Seq(C)
           p == Parts(":", Line(x, v))
           q == Parts(":", v)
           n == Len(q)
<1>1. <<x>> \in Seq(C) /\ <<x>> \in Seq(C \ {":"}) /\ <<x, ":">> = Append(<<x>>, ":")
  OBVIOUS
<1>2. Parts(":", <<x>>) = <<<<x>>>>
  BY <1>1, OnePart
<1>3. p = Parts(":", <<x>>) \o q
  <2>1. Parts(":", Append(<<x>>, ":") \o v) = Parts(":", <<x>>) \o q
    BY <1>1, PartsOfBoth
  <2> QED
    BY <1>1, <2>1 DEF Line
<1>4. q \in Seq(S) /\ q # <<>> /\ First(v) = q[1]
  BY PartsTyped DEF First
<1>5. <<<<x>>>> \in Seq(S)
  BY <1>1
<1>6. Line(x, v) \in Seq(C)
  BY <1>1, ConcatProperties DEF Line
<1>7. split(":", Line(x, v)) = IF Last(p) = <<>> THEN Front(p) ELSE p
  BY DEF split
<1> HIDE DEF p, q, S
<1>8. n \in Nat \ {0} /\ n \in Nat
  BY <1>4, EmptySeq, LenProperties
<1>9. /\ p \in Seq(S) /\ Len(p) = n + 1 /\ p[1] = <<x>> /\ p[2] = q[1]
  <2>1. /\ <<<<x>>>> \o q \in Seq(S) /\ Len(<<<<x>>>> \o q) = Len(<<<<x>>>>) + Len(q)
        /\ \A i \in 1..Len(<<<<x>>>>) + Len(q) :
             (<<<<x>>>> \o q)[i] = IF i <= Len(<<<<x>>>>) THEN <<<<x>>>>[i]
                                   ELSE q[i - Len(<<<<x>>>>)]
    BY <1>4, <1>5, ConcatProperties
  <2>2. Len(<<<<x>>>>) = 1 /\ <<<<x>>>>[1] = <<x>>
    OBVIOUS
  <2>3. p = <<<<x>>>> \o q
    BY <1>2, <1>3
  <2> HIDE DEF n
  <2> DEFINE h == <<<<x>>>>
             r == h \o q
  <2>4. /\ r \in Seq(S) /\ Len(r) = 1 + n /\ h[1] = <<x>>
        /\ \A i \in 1..1 + n : r[i] = IF i <= 1 THEN h[i] ELSE q[i - 1]
    BY <2>1, <2>2 DEF n
  <2> HIDE DEF h, r
  <2>5. 1 \in 1..1 + n /\ 2 \in 1..1 + n
    BY <1>8
  <2>6. r[1] = <<x>> /\ r[2] = q[1] /\ Len(r) = n + 1
    BY <1>8, <2>4, <2>5
  <2> QED
    BY <2>3, <2>4, <2>6 DEF r, h
<1> HIDE DEF n
<1>10. CASE Last(p) = <<>>
  <2> DEFINE f == SubSeq(p, 1, n)
  <2>1. split(":", Line(x, v)) = f
    <3>1. Front(p) = SubSeq(p, 1, (n + 1) - 1) /\ (n + 1) - 1 = n
      BY <1>8, <1>9 DEF Front
    <3> QED
      BY <1>7, <1>10, <3>1
  <2>2. Len(f) = n /\ \A i \in 1..n : f[i] = p[i]
    BY <1>8, <1>9, SubSeqProperties
  <2>3. p[n + 1] = <<>>
    BY <1>9, <1>10 DEF Last
  <2> HIDE DEF f
  <2>4. f # <<>> /\ f[1] = <<x>>
    BY <1>8, <1>9, <2>2
  <2>5. n = 1 => q[1] = <<>>
    BY <1>9, <2>3
  <2>6. n # 1 => f[2] = q[1]
    BY <1>8, <1>9, <2>2
  <2> QED
    BY <1>4, <1>6, <2>1, <2>2, <2>4, <2>5, <2>6
<1>11. CASE Last(p) # <<>>
  <2>1. p # <<>> /\ Len(p) # 1
    BY <1>8, <1>9
  <2> QED
    BY <1>4, <1>6, <1>7, <1>9, <1>11, <2>1
<1> QED
  BY <1>10, <1>11

\* A newline and a line behind what there is already are one line more.
LEMMA LineBehind ==
    ASSUME NEW C, "\n" \in C, NEW t \in Seq(C), NEW l \in Seq(C \ {"\n"})
    PROVE  Parts("\n", Append(t, "\n") \o l) = Append(Parts("\n", t), l)
<1>1. l \in Seq(C)
  OBVIOUS
<1>2. Parts("\n", Append(t, "\n") \o l) = Parts("\n", t) \o Parts("\n", l)
  BY <1>1, PartsOfBoth
<1>3. Parts("\n", l) = <<l>>
  BY OnePart
<1>4. Parts("\n", t) \o <<l>> = Append(Parts("\n", t), l)
  <2> DEFINE S == Seq(C)
             p == Parts("\n", t)
  <2>1. p \in Seq(S) /\ l \in S
    BY <1>1, PartsTyped
  <2> HIDE DEF S, p
  <2>2. p \o <<l>> = Append(p, l)
    BY <2>1, AppendIsConcat
  <2> QED
    BY <2>2 DEF p
<1> QED
  BY <1>2, <1>3, <1>4

\* The characters that mean something.
LEMMA TokensAre ==
    /\ ToSet(Figures) = {"0", "1", "2", "3", "4", "5", "6", "7", "8", "9"}
    /\ DOMAIN Values = {"Event", "CS", "Details", "Player", "Cache"}
    /\ Chars \subseteq Tokens \ {"\n"}
    /\ Keys \subseteq Tokens /\ DOMAIN Values \subseteq Tokens /\ ToSet(Figures) \subseteq Tokens
    /\ {"\n", ":", ",", "-", "%", "2", "7"} \subseteq Tokens
    /\ "\n" \notin Keys /\ ":" \notin Keys /\ "'" \notin Keys
<1>1. ToSet(Figures) = {"0", "1", "2", "3", "4", "5", "6", "7", "8", "9"}
  BY DEF ToSet, Figures
<1>2. DOMAIN Values = {"Event", "CS", "Details", "Player", "Cache"}
  BY DEF Values
<1>3. Chars \subseteq Tokens \ {"\n"}
  BY OneLine DEF Tokens
<1>4. "\n" \notin Keys /\ ":" \notin Keys /\ "'" \notin Keys
  BY DEF Keys
<1>5. Keys \subseteq Tokens /\ DOMAIN Values \subseteq Tokens /\ ToSet(Figures) \subseteq Tokens
      /\ {"\n", ":", ",", "-", "%"} \subseteq Tokens
  BY DEF Tokens
<1>6. {"2", "7"} \subseteq Tokens
  BY <1>1, <1>5
<1> QED
  BY <1>1, <1>2, <1>3, <1>4, <1>5, <1>6

\* The field o["x"] of a text.
Read(text, x) == parse(text)[x]

\* The text has n lines, with different names.
LinesAre(text, n, x, v) ==
    /\ n \in Nat /\ x \in [1..n -> Keys] /\ v \in [1..n -> Seq(Tokens)]
    /\ DOMAIN split("\n", text) = 1..n
    /\ \A i \in 1..n : split("\n", text)[i] = Line(x[i], v[i])
    /\ \A i, j \in 1..n : x[i] = x[j] => i = j

\* A field is what its line has before the next ':'.
LEMMA ParseIs ==
    ASSUME NEW text, NEW n, NEW x, NEW v, LinesAre(text, n, x, v)
    PROVE  \A i \in 1..n : Read(text, x[i]) = First(v[i])
<1>0. /\ n \in Nat /\ x \in [1..n -> Keys] /\ v \in [1..n -> Seq(Tokens)]
      /\ DOMAIN split("\n", text) = 1..n
      /\ \A i \in 1..n : split("\n", text)[i] = Line(x[i], v[i])
      /\ \A i, j \in 1..n : x[i] = x[j] => i = j
  BY DEF LinesAre
<1> TAKE i \in 1..n
<1> DEFINE lines == split("\n", text)
           kv(k) == split(":", lines[k])
           has == {k \in DOMAIN lines : kv(k) # <<>> /\ kv(k)[1] = <<x[i]>>}
           it == CHOOSE k \in has : \A j \in has : j <= k
<1>1. Read(text, x[i]) = IF has = {} THEN <<>>
                          ELSE IF Len(kv(it)) = 1 THEN <<>> ELSE kv(it)[2]
  <2>1. x[i] \in Keys
    BY <1>0
  <2> QED
    BY <2>1 DEF parse, Read
<1>2. DOMAIN lines = 1..n /\ \A k \in 1..n : lines[k] = Line(x[k], v[k])
  BY <1>0
<1>3. ASSUME NEW k \in 1..n
      PROVE  /\ kv(k) # <<>> /\ kv(k)[1] = <<x[k]>>
             /\ First(v[k]) = IF Len(kv(k)) = 1 THEN <<>> ELSE kv(k)[2]
  <2> DEFINE y == x[k]
             w == v[k]
  <2>0. y \in Keys /\ w \in Seq(Tokens)
    BY <1>0
  <2>2. kv(k) = split(":", Line(y, w))
    BY <1>2
  <2> HIDE DEF y, w, kv
  <2>1. y \in Tokens /\ y # ":" /\ ":" \in Tokens
    BY <2>0, TokensAre
  <2>3. /\ split(":", Line(y, w)) # <<>>
        /\ split(":", Line(y, w))[1] = <<y>>
        /\ First(w) = IF Len(split(":", Line(y, w))) = 1 THEN <<>>
                      ELSE split(":", Line(y, w))[2]
    BY <2>0, <2>1, KeyAndValue
  <2>4. kv(k) # <<>> /\ kv(k)[1] = <<y>> /\ First(w) = IF Len(kv(k)) = 1 THEN <<>> ELSE kv(k)[2]
    BY <2>2, <2>3
  <2> QED
    BY <2>4 DEF y, w
<1> HIDE DEF lines, kv
<1>4. has = {i}
  <2>1. ASSUME NEW k \in 1..n, <<x[k]>> = <<x[i]>>
        PROVE  k = i
    BY <1>0, <2>1
  <2> QED
    BY <1>2, <1>3, <2>1
<1> HIDE DEF has
<1>5. it = i
  <2>1. \E k \in has : \A j \in has : j <= k
    <3>1. i <= i
      BY <1>0
    <3> QED
      BY <1>4, <3>1
  <2>2. it \in has
    BY <2>1
  <2> QED
    BY <1>4, <2>2
<1> HIDE DEF it
<1>6. Read(text, x[i]) = IF Len(kv(i)) = 1 THEN <<>> ELSE kv(i)[2]
  BY <1>1, <1>4, <1>5
<1> QED
  BY <1>3, <1>6

\* The lines of the row of a text.
Lines(t) == Parts("\n", escaped(t))

\* The first one names the class.
LEMMA TypedLine ==
    ASSUME NEW c \in DOMAIN Values
    PROVE  /\ typed(c) \in Seq(Tokens)
           /\ Lines(typed(c)) = <<Line("type", <<c>>)>>
           /\ <<c>> \in Seq(Tokens) /\ First(<<c>>) = <<c>>
<1> DEFINE D == Tokens \ {"'"}
           E == Tokens \ {"\n"}
           F == Tokens \ {":"}
           t == <<"type", ":", c>>
<1>1. c \in D /\ c \in E /\ c \in F /\ "type" \in D /\ "type" \in E /\ ":" \in D /\ ":" \in E
  BY TokensAre DEF Keys
<1> HIDE DEF D, E, F
<1>2. t \in Seq(D) /\ t \in Seq(E) /\ <<c>> \in Seq(F)
  BY <1>1
<1>3. t = <<"type", ":">> \o <<c>>
  OBVIOUS
<1>4. typed(c) = t /\ Line("type", <<c>>) = t
  BY <1>3 DEF typed, Line
<1> HIDE DEF t
<1>5. escaped(t) = t
  <2>1. {"%", "2", "7"} \subseteq Tokens
    BY TokensAre
  <2> QED
    BY <1>2, <2>1, EscapedOnce DEF D
<1>6. Parts("\n", t) = <<t>>
  <2>1. "\n" \notin E
    BY DEF E
  <2> QED
    BY <1>2, <2>1, OnePart
<1>7. First(<<c>>) = <<c>>
  <2>1. ":" \notin F
    BY DEF F
  <2> QED
    BY <1>2, <2>1, FirstOfAll
<1>8. t \in Seq(Tokens) /\ <<c>> \in Seq(Tokens)
  <2>1. D \subseteq Tokens /\ F \subseteq Tokens
    BY DEF D, F
  <2> QED
    BY <1>2, <2>1
<1> QED
  BY <1>4, <1>5, <1>6, <1>7, <1>8 DEF Lines

\* Each field adds one, unless the class is Player.
LEMMA StrLine ==
    ASSUME NEW c \in DOMAIN Values, c # "Player", NEW x \in Keys,
           NEW t \in Seq(Tokens), NEW v \in Seq(Tokens \ {"\n"})
    PROVE  /\ t \o str(c, x, v) \in Seq(Tokens)
           /\ Lines(t \o str(c, x, v)) = Append(Lines(t), Line(x, escaped(v)))
           /\ escaped(v) \in Seq(Tokens \ {"\n"})
<1> DEFINE D == Tokens \ {"'"}
           E == Tokens \ {"\n"}
           h == <<"\n", x, ":">>
           e == escaped(t)
           w == escaped(v)
           l == Line(x, w)
<1>1. x \in D /\ x \in E /\ "\n" \in D /\ ":" \in D /\ ":" \in E
  BY TokensAre
<1>2. D \subseteq Tokens /\ E \subseteq Tokens /\ {"%", "2", "7"} \subseteq E /\ "\n" \in Tokens
  BY TokensAre
<1>3. v \in Seq(E)
  OBVIOUS
<1> HIDE DEF D, E
<1>4. h \in Seq(D) /\ <<x, ":">> \in Seq(E)
  BY <1>1
<1>5. str(c, x, v) = h \o v
  BY DEF str, between
<1>6. w \in Seq(E)
  BY <1>2, <1>3, EscapedIs
<1>7. l \in Seq(E)
  BY <1>4, <1>6, ConcatProperties DEF Line
<1>8. h \in Seq(Tokens) /\ v \in Seq(Tokens) /\ w \in Seq(Tokens) /\ <<x, ":">> \in Seq(Tokens)
  BY <1>2, <1>3, <1>4, <1>6
<1>9. h \o v \in Seq(Tokens) /\ t \o (h \o v) \in Seq(Tokens) /\ e \in Seq(Tokens)
  BY <1>2, <1>8, ConcatProperties, EscapedIs
<1>10. escaped(t \o (h \o v)) = e \o (h \o w)
  <2>1. escaped(h) = h
    BY <1>2, <1>4, EscapedOnce DEF D
  <2>2. escaped(h \o v) = escaped(h) \o w
    BY <1>2, <1>8, EscapedConcat
  <2>3. escaped(t \o (h \o v)) = e \o escaped(h \o v)
    <3> DEFINE hv == h \o v
    <3>1. hv \in Seq(Tokens) /\ {"%", "2", "7"} \subseteq Tokens
      BY <1>2, <1>9
    <3> HIDE DEF hv
    <3>2. escaped(t \o hv) = e \o escaped(hv)
      BY <3>1, EscapedConcat
    <3> QED
      BY <3>2 DEF hv
  <2> HIDE DEF h, e, w
  <2> QED
    BY <2>1, <2>2, <2>3
<1>11. e \o (h \o w) = Append(e, "\n") \o l
  <2>1. h = <<"\n">> \o <<x, ":">> /\ <<"\n">> \in Seq(Tokens)
    BY <1>2
  <2>2. h \o w = <<"\n">> \o l
    <3> DEFINE a == <<"\n">>
               b == <<x, ":">>
    <3>1. a \in Seq(Tokens) /\ b \in Seq(Tokens) /\ w \in Seq(Tokens) /\ h = a \o b
          /\ l = b \o w
      BY <1>8, <2>1 DEF Line
    <3> HIDE DEF a, b, h, l, w
    <3>2. (a \o b) \o w = a \o (b \o w)
      BY <3>1, ConcatAssociative
    <3>3. h \o w = a \o l
      BY <3>1, <3>2
    <3> QED
      BY <3>3 DEF a
  <2>3. l \in Seq(Tokens)
    BY <1>2, <1>7
  <2>4. Append(e, "\n") = e \o <<"\n">>
    BY <1>2, <1>9, AppendIsConcat
  <2> HIDE DEF h, e, w, l
  <2>5. (e \o <<"\n">>) \o l = e \o (<<"\n">> \o l)
    <3>1. e \in Seq(Tokens) /\ <<"\n">> \in Seq(Tokens)
      BY <1>9, <2>1
    <3> DEFINE a == <<"\n">>
    <3> HIDE DEF a
    <3>2. (e \o a) \o l = e \o (a \o l)
      BY <2>3, <3>1, ConcatAssociative DEF a
    <3> QED
      BY <3>2 DEF a
  <2>6. e \o (h \o w) = e \o (<<"\n">> \o l)
    BY <2>2, Zenon
  <2> QED
    BY <2>4, <2>5, <2>6, Zenon
<1>12. Parts("\n", Append(e, "\n") \o l) = Append(Parts("\n", e), l)
  <2> HIDE DEF e, l
  <2> QED
    BY <1>2, <1>7, <1>9, LineBehind DEF E
<1>13. Lines(t \o str(c, x, v)) = Append(Lines(t), l)
  <2> DEFINE a == t \o (h \o v)
             b == Append(e, "\n") \o l
  <2>1. escaped(a) = b
    BY <1>10, <1>11
  <2>2. Parts("\n", b) = Append(Parts("\n", e), l)
    BY <1>12
  <2>3. t \o str(c, x, v) = a
    BY <1>5
  <2> HIDE DEF a, b, l
  <2> QED
    BY <2>1, <2>2, <2>3 DEF Lines
<1> QED
  BY <1>5, <1>6, <1>9, <1>13 DEF E

\* What is equal to a sequence and one element more.
LEMMA AppendIs ==
    ASSUME NEW S, NEW s \in Seq(S), NEW c \in S, NEW n \in Nat, NEW t \in Seq(S),
           Len(s) = n, Len(t) = n + 1, t[n + 1] = c, \A i \in 1..n : t[i] = s[i]
    PROVE  Append(s, c) = t
<1> DEFINE p == Append(s, c)
<1>1. p \in Seq(S) /\ Len(p) = n + 1 /\ p[n + 1] = c /\ \A i \in 1..n : p[i] = s[i]
  BY AppendProperties
<1> HIDE DEF p
<1>2. \A i \in 1..n + 1 : p[i] = t[i]
  BY <1>1
<1>3. p = t
  BY <1>1, <1>2, SeqEqual
<1> QED
  BY <1>3 DEF p

\* A line is never empty.
LEMMA LineIs ==
    ASSUME NEW x \in Keys, NEW v \in Seq(Tokens)
    PROVE  Line(x, v) \in Seq(Tokens) /\ Line(x, v) # <<>>
<1> DEFINE a == <<x, ":">>
<1>0. x \in Tokens /\ ":" \in Tokens
  BY TokensAre
<1>1. a \in Seq(Tokens) /\ Len(a) = 2
  BY <1>0
<1> HIDE DEF a
<1>2. a \o v \in Seq(Tokens) /\ Len(a \o v) = 2 + Len(v) /\ Len(v) \in Nat
  <2>1. a \o v \in Seq(Tokens) /\ Len(a \o v) = Len(a) + Len(v)
    BY <1>1, ConcatProperties
  <2>2. Len(v) \in Nat
    BY LenProperties
  <2> QED
    BY <1>1, <2>1, <2>2
<1>3. a \o v # <<>>
  <2> DEFINE b == a \o v
  <2>1. b \in Seq(Tokens) /\ Len(b) # 0
    BY <1>2
  <2> HIDE DEF b
  <2>2. b # <<>>
    BY <2>1, EmptySeq
  <2> QED
    BY <2>2 DEF b
<1> QED
  BY <1>2, <1>3 DEF Line, a

\* text is the row of an object of two fields.
IsTwo(text, c, x1, v1, x2, v2) ==
    /\ c \in DOMAIN Values /\ c # "Player"
    /\ x1 \in Keys /\ x2 \in Keys /\ x1 # x2 /\ x1 # "type" /\ x2 # "type"
    /\ v1 \in Seq(Tokens \ {"\n"}) /\ v2 \in Seq(Tokens \ {"\n"})
    /\ text = escaped(typed(c) \o str(c, x1, v1) \o str(c, x2, v2))

\* What is read from it.
LEMMA TwoFields ==
    ASSUME NEW text, NEW c, NEW x1, NEW v1, NEW x2, NEW v2, IsTwo(text, c, x1, v1, x2, v2)
    PROVE  /\ text \in Seq(Tokens \ {"'"})
           /\ Read(text, "type") = <<c>>
           /\ Read(text, x1) = First(escaped(v1))
           /\ Read(text, x2) = First(escaped(v2))
<1>a. /\ c \in DOMAIN Values /\ c # "Player"
      /\ x1 \in Keys /\ x2 \in Keys /\ x1 # x2 /\ x1 # "type" /\ x2 # "type"
      /\ v1 \in Seq(Tokens \ {"\n"}) /\ v2 \in Seq(Tokens \ {"\n"})
  BY DEF IsTwo
<1> DEFINE t0 == typed(c)
           t1 == t0 \o str(c, x1, v1)
           t2 == t1 \o str(c, x2, v2)
           l0 == Line("type", <<c>>)
           l1 == Line(x1, escaped(v1))
           l2 == Line(x2, escaped(v2))
           x == <<"type", x1, x2>>
           v == <<<<c>>, escaped(v1), escaped(v2)>>
<1>0. text = escaped(t2)
  BY DEF IsTwo
<1>1. /\ t0 \in Seq(Tokens) /\ Lines(t0) = <<l0>>
      /\ <<c>> \in Seq(Tokens) /\ First(<<c>>) = <<c>>
  BY <1>a, TypedLine
<1> HIDE DEF t0
<1>2. /\ t1 \in Seq(Tokens) /\ Lines(t1) = Append(Lines(t0), l1)
      /\ escaped(v1) \in Seq(Tokens \ {"\n"})
  BY <1>a, <1>1, StrLine
<1> HIDE DEF t1
<1>3. /\ t2 \in Seq(Tokens) /\ Lines(t2) = Append(Lines(t1), l2)
      /\ escaped(v2) \in Seq(Tokens \ {"\n"})
  BY <1>a, <1>2, StrLine
<1> HIDE DEF t2
<1>4. escaped(v1) \in Seq(Tokens) /\ escaped(v2) \in Seq(Tokens)
  BY <1>2, <1>3
<1>5. l2 # <<>>
  BY <1>a, <1>4, LineIs
<1>6. /\ l0 = Line(x[1], v[1]) /\ l1 = Line(x[2], v[2]) /\ l2 = Line(x[3], v[3])
      /\ \A i \in 1..3 : x[i] \in Keys /\ v[i] \in Seq(Tokens)
      /\ \A i, j \in 1..3 : x[i] = x[j] => i = j
      /\ DOMAIN x = 1..3 /\ DOMAIN v = 1..3
      /\ x = [i \in 1..3 |-> x[i]] /\ v = [i \in 1..3 |-> v[i]]
  BY <1>a, <1>1, <1>4 DEF Keys
<1> HIDE DEF l0, l1, l2
<1>7. Lines(t2) = <<l0, l1, l2>>
  <2> DEFINE p0 == <<l0>>
             p1 == <<l0, l1>>
             p2 == <<l0, l1, l2>>
             S == {l0, l1, l2}
  <2>1. Append(p0, l1) = p1
    <3> DEFINE n == 1
    <3>1. /\ p0 \in Seq(S) /\ p1 \in Seq(S) /\ l1 \in S /\ Len(p0) = n /\ Len(p1) = n + 1
          /\ p1[n + 1] = l1 /\ n \in Nat /\ \A i \in 1..n : p1[i] = p0[i]
      OBVIOUS
    <3> HIDE DEF p0, p1, S, n
    <3> QED
      BY <3>1, AppendIs
  <2>2. Append(p1, l2) = p2
    <3> DEFINE n == 2
    <3>1. /\ p1 \in Seq(S) /\ p2 \in Seq(S) /\ l2 \in S /\ Len(p1) = n /\ Len(p2) = n + 1
          /\ p2[n + 1] = l2 /\ n \in Nat /\ \A i \in 1..n : p2[i] = p1[i]
      OBVIOUS
    <3> HIDE DEF p1, p2, S, n
    <3> QED
      BY <3>1, AppendIs
  <2>3. Lines(t0) = p0
    BY <1>1
  <2> HIDE DEF p0, p1, p2
  <2>4. Lines(t2) = p2
    BY <1>2, <1>3, <2>1, <2>2, <2>3
  <2> QED
    BY <2>4 DEF p2
<1>8. split("\n", escaped(t2)) = <<l0, l1, l2>>
  <2> DEFINE ls == <<l0, l1, l2>>
  <2>1. Last(ls) = l2
    BY DEF Last
  <2>2. Parts("\n", escaped(t2)) = ls
    BY <1>7 DEF Lines
  <2> HIDE DEF ls
  <2>3. split("\n", escaped(t2)) = ls
    BY <1>5, <2>1, <2>2 DEF split
  <2> QED
    BY <2>3 DEF ls
<1>9. x[1] = "type" /\ x[2] = x1 /\ x[3] = x2
      /\ v[1] = <<c>> /\ v[2] = escaped(v1) /\ v[3] = escaped(v2)
  OBVIOUS
<1> HIDE DEF x, v
<1>10. DOMAIN <<l0, l1, l2>> = 1..3 /\ \A i \in 1..3 : <<l0, l1, l2>>[i] = Line(x[i], v[i])
  BY <1>6
<1>11. x \in [1..3 -> Keys] /\ v \in [1..3 -> Seq(Tokens)]
  BY <1>6
<1>12. \A i \in 1..3 : Read(text, x[i]) = First(v[i])
  <2>1. DOMAIN split("\n", text) = 1..3 /\ \A i \in 1..3 : split("\n", text)[i] = Line(x[i], v[i])
    BY <1>0, <1>8, <1>10
  <2>2. LinesAre(text, 3, x, v)
    BY <1>6, <1>11, <2>1 DEF LinesAre
  <2> QED
    BY <2>2, ParseIs
<1>13. text \in Seq(Tokens \ {"'"})
  <2>1. {"%", "2", "7"} \subseteq Tokens
    BY TokensAre
  <2> QED
    BY <1>0, <1>3, <2>1, EscapedOnce
<1>14. Read(text, "type") = First(<<c>>) /\ Read(text, x1) = First(escaped(v1))
       /\ Read(text, x2) = First(escaped(v2))
  BY <1>9, <1>12
<1> QED
  BY <1>1, <1>13, <1>14

\* text is the row of an object of four fields.
IsFour(text, c, x1, v1, x2, v2, x3, v3, x4, v4) ==
    /\ c \in DOMAIN Values /\ c # "Player"
    /\ {x1, x2, x3, x4} \subseteq Keys /\ "type" \notin {x1, x2, x3, x4}
    /\ x1 # x2 /\ x1 # x3 /\ x1 # x4 /\ x2 # x3 /\ x2 # x4 /\ x3 # x4
    /\ {v1, v2, v3, v4} \subseteq Seq(Tokens \ {"\n"})
    /\ text = escaped(typed(c) \o str(c, x1, v1) \o str(c, x2, v2)
                               \o str(c, x3, v3) \o str(c, x4, v4))

\* And what is read from it.
LEMMA FourFields ==
    ASSUME NEW text, NEW c, NEW x1, NEW v1, NEW x2, NEW v2, NEW x3, NEW v3, NEW x4, NEW v4,
           IsFour(text, c, x1, v1, x2, v2, x3, v3, x4, v4)
    PROVE  /\ text \in Seq(Tokens \ {"'"})
           /\ Read(text, "type") = <<c>>
           /\ Read(text, x1) = First(escaped(v1))
           /\ Read(text, x2) = First(escaped(v2))
           /\ Read(text, x3) = First(escaped(v3))
           /\ Read(text, x4) = First(escaped(v4))
<1>a. /\ c \in DOMAIN Values /\ c # "Player"
      /\ x1 \in Keys /\ x2 \in Keys /\ x3 \in Keys /\ x4 \in Keys
      /\ "type" \notin {x1, x2, x3, x4}
      /\ x1 # x2 /\ x1 # x3 /\ x1 # x4 /\ x2 # x3 /\ x2 # x4 /\ x3 # x4
  BY DEF IsFour
<1>b. /\ v1 \in Seq(Tokens \ {"\n"}) /\ v2 \in Seq(Tokens \ {"\n"})
      /\ v3 \in Seq(Tokens \ {"\n"}) /\ v4 \in Seq(Tokens \ {"\n"})
  <2> DEFINE S == Seq(Tokens \ {"\n"})
  <2>1. {v1, v2, v3, v4} \subseteq S
    BY DEF IsFour
  <2> HIDE DEF S
  <2>2. v1 \in S /\ v2 \in S /\ v3 \in S /\ v4 \in S
    BY <2>1
  <2> QED
    BY <2>2 DEF S
<1> DEFINE t0 == typed(c)
           t1 == t0 \o str(c, x1, v1)
           t2 == t1 \o str(c, x2, v2)
           t3 == t2 \o str(c, x3, v3)
           t4 == t3 \o str(c, x4, v4)
           l0 == Line("type", <<c>>)
           l1 == Line(x1, escaped(v1))
           l2 == Line(x2, escaped(v2))
           l3 == Line(x3, escaped(v3))
           l4 == Line(x4, escaped(v4))
           x == <<"type", x1, x2, x3, x4>>
           v == <<<<c>>, escaped(v1), escaped(v2), escaped(v3), escaped(v4)>>
<1>0. text = escaped(t4)
  BY DEF IsFour
<1>1. /\ t0 \in Seq(Tokens) /\ Lines(t0) = <<l0>>
      /\ <<c>> \in Seq(Tokens) /\ First(<<c>>) = <<c>>
  BY <1>a, TypedLine
<1> HIDE DEF t0
<1>2. /\ t1 \in Seq(Tokens) /\ Lines(t1) = Append(Lines(t0), l1)
      /\ escaped(v1) \in Seq(Tokens \ {"\n"})
  BY <1>a, <1>b, <1>1, StrLine
<1> HIDE DEF t1
<1>3. /\ t2 \in Seq(Tokens) /\ Lines(t2) = Append(Lines(t1), l2)
      /\ escaped(v2) \in Seq(Tokens \ {"\n"})
  <2>1. /\ c \in DOMAIN Values /\ c # "Player" /\ x2 \in Keys
        /\ v2 \in Seq(Tokens \ {"\n"}) /\ t1 \in Seq(Tokens)
    BY <1>a, <1>b, <1>2
  <2> QED
    BY <2>1, StrLine, Zenon
<1> HIDE DEF t2
<1>4. /\ t3 \in Seq(Tokens) /\ Lines(t3) = Append(Lines(t2), l3)
      /\ escaped(v3) \in Seq(Tokens \ {"\n"})
  <2>1. /\ c \in DOMAIN Values /\ c # "Player" /\ x3 \in Keys
        /\ v3 \in Seq(Tokens \ {"\n"}) /\ t2 \in Seq(Tokens)
    BY <1>a, <1>b, <1>3
  <2> QED
    BY <2>1, StrLine, Zenon
<1> HIDE DEF t3
<1>5. /\ t4 \in Seq(Tokens) /\ Lines(t4) = Append(Lines(t3), l4)
      /\ escaped(v4) \in Seq(Tokens \ {"\n"})
  <2>1. /\ c \in DOMAIN Values /\ c # "Player" /\ x4 \in Keys
        /\ v4 \in Seq(Tokens \ {"\n"}) /\ t3 \in Seq(Tokens)
    BY <1>a, <1>b, <1>4
  <2> QED
    BY <2>1, StrLine, Zenon
<1> HIDE DEF t4
<1>6. /\ escaped(v1) \in Seq(Tokens) /\ escaped(v2) \in Seq(Tokens)
      /\ escaped(v3) \in Seq(Tokens) /\ escaped(v4) \in Seq(Tokens)
  <2>1. escaped(v1) \in Seq(Tokens)
    BY <1>2
  <2>2. escaped(v2) \in Seq(Tokens)
    BY <1>3
  <2>3. escaped(v3) \in Seq(Tokens)
    BY <1>4
  <2>4. escaped(v4) \in Seq(Tokens)
    BY <1>5
  <2> QED
    BY <2>1, <2>2, <2>3, <2>4
<1>7. l4 # <<>>
  BY <1>a, <1>6, LineIs
<1>8. /\ DOMAIN x = 1..5 /\ DOMAIN v = 1..5
      /\ x = [i \in 1..5 |-> x[i]] /\ v = [i \in 1..5 |-> v[i]]
  OBVIOUS
<1>9. \A i \in 1..5 : x[i] \in Keys /\ v[i] \in Seq(Tokens)
  <2>1. "type" \in Keys
    BY DEF Keys
  <2>2. \A i \in 1..5 : x[i] \in Keys
    BY <1>a, <2>1
  <2> DEFINE S == Seq(Tokens)
             a1 == escaped(v1)
             a2 == escaped(v2)
             a3 == escaped(v3)
             a4 == escaped(v4)
  <2>3. <<c>> \in S /\ a1 \in S /\ a2 \in S /\ a3 \in S /\ a4 \in S
    BY <1>1, <1>6
  <2>4. v = <<<<c>>, a1, a2, a3, a4>>
    OBVIOUS
  <2> HIDE DEF S, a1, a2, a3, a4
  <2>5. \A i \in 1..5 : v[i] \in S
    BY <2>3, <2>4
  <2> QED
    BY <2>2, <2>5 DEF S
<1>10. \A i, j \in 1..5 : x[i] = x[j] => i = j
  BY <1>a
<1>11. /\ x[1] = "type" /\ x[2] = x1 /\ x[3] = x2 /\ x[4] = x3 /\ x[5] = x4
       /\ v[1] = <<c>> /\ v[2] = escaped(v1) /\ v[3] = escaped(v2)
       /\ v[4] = escaped(v3) /\ v[5] = escaped(v4)
  OBVIOUS
<1> HIDE DEF x, v
<1>12. /\ l0 = Line(x[1], v[1]) /\ l1 = Line(x[2], v[2]) /\ l2 = Line(x[3], v[3])
       /\ l3 = Line(x[4], v[4]) /\ l4 = Line(x[5], v[5])
  BY <1>11
<1> HIDE DEF l0, l1, l2, l3, l4
<1>13. Lines(t4) = <<l0, l1, l2, l3, l4>>
  <2> DEFINE p0 == <<l0>>
             p1 == <<l0, l1>>
             p2 == <<l0, l1, l2>>
             p3 == <<l0, l1, l2, l3>>
             p4 == <<l0, l1, l2, l3, l4>>
             S == {l0, l1, l2, l3, l4}
  <2>1. Append(p0, l1) = p1
    <3> DEFINE n == 1
    <3>1. /\ p0 \in Seq(S) /\ p1 \in Seq(S) /\ l1 \in S /\ Len(p0) = n /\ Len(p1) = n + 1
          /\ p1[n + 1] = l1 /\ n \in Nat /\ \A i \in 1..n : p1[i] = p0[i]
      OBVIOUS
    <3> HIDE DEF p0, p1, S, n
    <3> QED
      BY <3>1, AppendIs
  <2>2. Append(p1, l2) = p2
    <3> DEFINE n == 2
    <3>1. /\ p1 \in Seq(S) /\ p2 \in Seq(S) /\ l2 \in S /\ Len(p1) = n /\ Len(p2) = n + 1
          /\ p2[n + 1] = l2 /\ n \in Nat /\ \A i \in 1..n : p2[i] = p1[i]
      OBVIOUS
    <3> HIDE DEF p1, p2, S, n
    <3> QED
      BY <3>1, AppendIs
  <2>3. Append(p2, l3) = p3
    <3> DEFINE n == 3
    <3>1. /\ p2 \in Seq(S) /\ p3 \in Seq(S) /\ l3 \in S /\ Len(p2) = n /\ Len(p3) = n + 1
          /\ p3[n + 1] = l3 /\ n \in Nat /\ \A i \in 1..n : p3[i] = p2[i]
      OBVIOUS
    <3> HIDE DEF p2, p3, S, n
    <3> QED
      BY <3>1, AppendIs
  <2>4. Append(p3, l4) = p4
    <3> DEFINE n == 4
    <3>1. /\ p3 \in Seq(S) /\ p4 \in Seq(S) /\ l4 \in S /\ Len(p3) = n /\ Len(p4) = n + 1
          /\ p4[n + 1] = l4 /\ n \in Nat /\ \A i \in 1..n : p4[i] = p3[i]
      OBVIOUS
    <3> HIDE DEF p3, p4, S, n
    <3> QED
      BY <3>1, AppendIs
  <2>5. Lines(t0) = p0
    BY <1>1
  <2> HIDE DEF p0, p1, p2, p3, p4
  <2>6. Lines(t4) = p4
    BY <1>2, <1>3, <1>4, <1>5, <2>1, <2>2, <2>3, <2>4, <2>5
  <2> QED
    BY <2>6 DEF p4
<1>14. split("\n", escaped(t4)) = <<l0, l1, l2, l3, l4>>
  <2> DEFINE ls == <<l0, l1, l2, l3, l4>>
  <2>1. Last(ls) = l4
    BY DEF Last
  <2>2. Parts("\n", escaped(t4)) = ls
    BY <1>13 DEF Lines
  <2> HIDE DEF ls
  <2>3. split("\n", escaped(t4)) = ls
    BY <1>7, <2>1, <2>2 DEF split
  <2> QED
    BY <2>3 DEF ls
<1>15. LinesAre(text, 5, x, v)
  <2>1. /\ DOMAIN <<l0, l1, l2, l3, l4>> = 1..5
        /\ \A i \in 1..5 : <<l0, l1, l2, l3, l4>>[i] = Line(x[i], v[i])
    BY <1>12
  <2>2. DOMAIN split("\n", text) = 1..5 /\ \A i \in 1..5 : split("\n", text)[i] = Line(x[i], v[i])
    BY <1>0, <1>14, <2>1
  <2>3. x \in [1..5 -> Keys] /\ v \in [1..5 -> Seq(Tokens)]
    BY <1>8, <1>9
  <2> QED
    BY <1>10, <2>2, <2>3 DEF LinesAre
<1>16. \A i \in 1..5 : Read(text, x[i]) = First(v[i])
  BY <1>15, ParseIs
<1>17. text \in Seq(Tokens \ {"'"})
  <2>1. {"%", "2", "7"} \subseteq Tokens
    BY TokensAre
  <2> QED
    BY <1>0, <1>5, <2>1, EscapedOnce
<1>18. /\ Read(text, "type") = First(<<c>>)
       /\ Read(text, x1) = First(escaped(v1)) /\ Read(text, x2) = First(escaped(v2))
       /\ Read(text, x3) = First(escaped(v3)) /\ Read(text, x4) = First(escaped(v4))
  <2>1. /\ Read(text, x[1]) = First(v[1]) /\ Read(text, x[2]) = First(v[2])
        /\ Read(text, x[3]) = First(v[3]) /\ Read(text, x[4]) = First(v[4])
        /\ Read(text, x[5]) = First(v[5])
    BY <1>16
  <2> QED
    BY <1>11, <2>1
<1> QED
  BY <1>1, <1>17, <1>18

(***************************************************************************)
(* What is printed for an object, and what is read from that.              *)
(***************************************************************************)

\* A number is printed as what no one takes for anything else, and read as what
\* it was: an int that is not negative, and every id.
LEMMA NumberShown ==
    ASSUME NEW i \in Guids
    PROVE  /\ string_of_int(i) \in Seq(Tokens \ {"\n"})
           /\ First(escaped(string_of_int(i))) = string_of_int(i)
           /\ int_of_string(string_of_int(i)) \in Guids
           /\ i >= 0 => int_of_string(string_of_int(i)) = i
           /\ string_of_Uint64(i) \in Seq(Tokens \ {"\n"})
           /\ First(escaped(string_of_Uint64(i))) = string_of_Uint64(i)
           /\ Uint64_of_string(string_of_Uint64(i)) = i
<1> DEFINE D == ToSet(Figures) \cup {"-"}
           h == 2 * Half
<1>0. Half \in Nat \ {0} /\ h \in Nat \ {0} /\ h = 2 * Half /\ i \in Int /\ -Half <= i /\ i < Half
  BY Bits DEF Guids
<1>1. D \subseteq Tokens \ {"\n"} /\ "'" \notin D /\ ":" \notin D
  BY TokensAre
<1>2. ASSUME NEW s \in Seq(D)
      PROVE  s \in Seq(Tokens \ {"\n"}) /\ First(escaped(s)) = s
  <2> DEFINE E == D \cup {"%", "2", "7"}
  <2>1. s \in Seq(E \ {"'"}) /\ {"%", "2", "7"} \subseteq E
    <3>1. D \subseteq E \ {"'"}
      BY <1>1
    <3> HIDE DEF D
    <3>2. s \in Seq(E \ {"'"})
      BY <3>1
    <3> QED
      BY <3>2
  <2> HIDE DEF E, D
  <2>2. escaped(s) = s
    BY <2>1, EscapedOnce
  <2>3. First(s) = s
    BY <1>1, FirstOfAll
  <2>4. s \in Seq(Tokens \ {"\n"})
    BY <1>1
  <2> QED
    BY <2>2, <2>3, <2>4
<1>3. ASSUME NEW n \in 0..2 * Half - 1
      PROVE  digits[n] \in Seq(D)
  <2> DEFINE F == ToSet(Figures)
  <2>1. digits[n] \in Seq(F)
    BY DigitsAre
  <2>2. F \subseteq D
    OBVIOUS
  <2> HIDE DEF D, F
  <2> QED
    BY <2>1, <2>2
<1>4. string_of_int(i) \in Seq(D)
  <2>1. CASE i < 0
    <3> DEFINE n == -i
    <3>1. n \in 0..2 * Half - 1
      BY <1>0, <2>1
    <3>2. digits[n] \in Seq(D)
      BY <1>3, <3>1
    <3>3. string_of_int(i) = <<"-">> \o digits[n]
      BY <2>1 DEF string_of_int
    <3>4. <<"-">> \in Seq(D)
      OBVIOUS
    <3> HIDE DEF n, D
    <3> QED
      BY <3>2, <3>3, <3>4, ConcatProperties
  <2>2. CASE ~(i < 0)
    <3>1. i \in 0..2 * Half - 1
      BY <1>0, <2>2
    <3>2. string_of_int(i) = digits[i]
      BY <2>2 DEF string_of_int
    <3> HIDE DEF D
    <3> QED
      BY <1>3, <3>1, <3>2
  <2> QED
    BY <2>1, <2>2
<1> DEFINE m == i % h
<1>5. m \in 0..2 * Half - 1 /\ \E k \in Int : m = i + (h * k)
  <2> HIDE DEF h
  <2>1. m \in 0..h - 1 /\ \E k \in Int : m = i + (h * k)
    BY <1>0, Remainders
  <2> QED
    BY <1>0, <2>1
<1>6. string_of_Uint64(i) = digits[m]
  BY DEF string_of_Uint64
<1> HIDE DEF m
<1>7. string_of_Uint64(i) \in Seq(D)
  <2> HIDE DEF D
  <2> QED
    BY <1>3, <1>5, <1>6
<1>8. int_of_string(string_of_int(i)) \in Guids
  <2> HIDE DEF D
  <2> QED
    BY <1>4, NumberIs
<1>9. i >= 0 => int_of_string(string_of_int(i)) = i
  <2> HAVE i >= 0
  <2>1. i \in 0..2 * Half - 1 /\ ~(i < 0)
    BY <1>0
  <2>2. int_of_string(digits[i]) = Wrap(i)
    BY <2>1, DigitsComeBack
  <2>3. string_of_int(i) = digits[i]
    BY <2>1 DEF string_of_int
  <2>4. Wrap(i) = i
    BY WrapIs
  <2> QED
    BY <2>2, <2>3, <2>4
<1>10. Uint64_of_string(string_of_Uint64(i)) = i
  <2>1. int_of_string(digits[m]) = Wrap(m)
    BY <1>5, DigitsComeBack
  <2>2. PICK k \in Int : m = i + (h * k)
    BY <1>5
  <2>3. Wrap(m) = Wrap(i)
    <3>1. m \in Int
      BY <1>0, <1>5
    <3> QED
      BY <1>0, <2>2, <3>1, WrapIs
  <2>4. Wrap(i) = i
    BY WrapIs
  <2> QED
    BY <1>6, <2>1, <2>3, <2>4 DEF Uint64_of_string
<1> HIDE DEF D
<1> QED
  BY <1>2, <1>4, <1>7, <1>8, <1>9, <1>10

IsText(f) == ~IsInt(f) /\ ~IsGuid(f)

\* What the fields of an object of class c are.
Typed(c, o) ==
    /\ DOMAIN o = DOMAIN Values[c]
    /\ \A f \in DOMAIN Values[c] : o[f] \in FieldType(f)

\* What the field f, that was v, is when it is read.
Back(f, v) == IF f = "time" THEN int_of_string(string_of_int(Wrap(v)))
              ELSE IF IsInt(f) THEN int_of_string(string_of_int(v))
              ELSE IF IsGuid(f) THEN v
              ELSE First(escaped(v))

\* The row of o is not refused, and has all its fields.
ReadsBack(c, o, text) ==
    /\ text \in Seq(Tokens \ {"'"})
    /\ ~Refused(c, parse(text))
    /\ DOMAIN init(c, parse(text)) = DOMAIN Values[c]
    /\ \A f \in DOMAIN Values[c] : init(c, parse(text))[f] = Back(f, o[f])

\* The fields of each class, and what they are.
LEMMA FieldsAre ==
    /\ DOMAIN Values["Event"] = {"name", "params", "date", "time"}
    /\ DOMAIN Values["CS"] = {"name", "ipaddr", "port", "nat_port"}
    /\ DOMAIN Values["Details"] = {"name", "email"}
    /\ DOMAIN Values["Player"] = {"username", "password", "details"}
    /\ DOMAIN Values["Cache"] = {"idspace", "next_guid"}
    /\ \A f \in {"date", "time", "port", "nat_port"} : IsInt(f) /\ ~IsGuid(f) /\ ~IsText(f)
    /\ \A f \in {"details", "idspace", "next_guid"} : IsGuid(f) /\ ~IsInt(f) /\ ~IsText(f)
    /\ \A f \in {"name", "params", "ipaddr", "email", "username", "password"} :
         ~IsInt(f) /\ ~IsGuid(f) /\ IsText(f)
    /\ \A f : IsText(f) <=> ~IsInt(f) /\ ~IsGuid(f)
    /\ \A f : IsText(f) => FieldType(f) = Seq(Tokens \ {"\n"})
    /\ \A f : IsInt(f) \/ IsGuid(f) =>
         FieldType(f) = IF f = "time" THEN Guids \cup Times ELSE Guids
BY DEF Values, IsInt, IsGuid, IsText, FieldType

\* An Event comes back.
LEMMA EventBack ==
    ASSUME NEW o, Typed("Event", o)
    PROVE  ReadsBack("Event", o, escaped(tos("Event", o)))
<1> DEFINE c == "Event"
           v1 == o["name"]
           v2 == o["params"]
           v3 == string_of_int(o["date"])
           v4 == string_of_int(Wrap(o["time"]))
           text == escaped(tos("Event", o))
           S == Seq(Tokens \ {"\n"})
<1>1. /\ o["name"] \in S /\ o["params"] \in S /\ o["date"] \in Guids
      /\ Wrap(o["time"]) \in Guids
  <2>1. o["name"] \in S /\ o["params"] \in S /\ o["date"] \in Guids
    BY FieldsAre DEF Typed
  <2>2. o["time"] \in Guids \cup Times
    BY FieldsAre DEF Typed
  <2>3. o["time"] \in Int
    BY <2>2, TimesAre
  <2> QED
    BY <2>1, <2>3, Wraps
<1>2. v3 \in S /\ First(escaped(v3)) = v3 /\ v4 \in S /\ First(escaped(v4)) = v4
  BY <1>1, NumberShown
<1>3. v1 \in S /\ v2 \in S
  BY <1>1
<1>4. text = escaped(typed(c) \o str(c, "name", v1) \o str(c, "params", v2)
                              \o str(c, "date", v3) \o str(c, "time", v4))
  BY DEF tos, Event_tos, number
<1>5. c \in DOMAIN Values /\ c # "Player"
  BY TokensAre
<1>6. {"name", "params", "date", "time"} \subseteq Keys
  BY DEF Keys
<1> HIDE DEF v1, v2, v3, v4, text, c
<1>7. /\ text \in Seq(Tokens \ {"'"}) /\ Read(text, "type") = <<c>>
      /\ Read(text, "name") = First(escaped(v1)) /\ Read(text, "params") = First(escaped(v2))
      /\ Read(text, "date") = First(escaped(v3)) /\ Read(text, "time") = First(escaped(v4))
  <2>1. IsFour(text, c, "name", v1, "params", v2, "date", v3, "time", v4)
    BY <1>2, <1>3, <1>4, <1>5, <1>6 DEF IsFour
  <2> QED
    BY <2>1, FourFields
<1> DEFINE t == parse(text)
           r == init("Event", t)
<1>8. r = [name |-> t["name"], params |-> t["params"],
           date |-> int_of_string(t["date"]), time |-> int_of_string(t["time"])]
  BY DEF init, Event_init
<1>9. /\ t["type"] = <<c>> /\ t["name"] = First(escaped(v1)) /\ t["params"] = First(escaped(v2))
      /\ t["date"] = v3 /\ t["time"] = v4
  BY <1>2, <1>7 DEF Read
<1> HIDE DEF t, r
<1>10. DOMAIN r = {"name", "params", "date", "time"}
  BY <1>8
<1>11. /\ r["name"] = First(escaped(v1)) /\ r["params"] = First(escaped(v2))
       /\ r["date"] = int_of_string(v3) /\ r["time"] = int_of_string(v4)
  BY <1>8, <1>9
<1>12. \A f \in DOMAIN Values["Event"] : r[f] = Back(f, o[f])
  BY <1>11, FieldsAre DEF Back, v1, v2, v3, v4
<1>13. ~Refused("Event", t)
  BY <1>9 DEF Refused, c
<1> QED
  BY <1>7, <1>10, <1>12, <1>13, FieldsAre DEF ReadsBack, t, r, text

\* A CS comes back.
LEMMA CSBack ==
    ASSUME NEW o, Typed("CS", o)
    PROVE  ReadsBack("CS", o, escaped(tos("CS", o)))
<1> DEFINE c == "CS"
           v1 == o["name"]
           v2 == o["ipaddr"]
           v3 == string_of_int(o["port"])
           v4 == string_of_int(o["nat_port"])
           text == escaped(tos("CS", o))
           S == Seq(Tokens \ {"\n"})
<1>1. o["name"] \in S /\ o["ipaddr"] \in S /\ o["port"] \in Guids /\ o["nat_port"] \in Guids
  BY FieldsAre DEF Typed
<1>2. v3 \in S /\ First(escaped(v3)) = v3 /\ v4 \in S /\ First(escaped(v4)) = v4
  BY <1>1, NumberShown
<1>3. v1 \in S /\ v2 \in S
  BY <1>1
<1>4. text = escaped(typed(c) \o str(c, "name", v1) \o str(c, "ipaddr", v2)
                              \o str(c, "port", v3) \o str(c, "nat_port", v4))
  BY DEF tos, CS_tos, number
<1>5. c \in DOMAIN Values /\ c # "Player"
  BY TokensAre
<1>6. {"name", "ipaddr", "port", "nat_port"} \subseteq Keys
  BY DEF Keys
<1> HIDE DEF v1, v2, v3, v4, text, c
<1>7. /\ text \in Seq(Tokens \ {"'"}) /\ Read(text, "type") = <<c>>
      /\ Read(text, "name") = First(escaped(v1)) /\ Read(text, "ipaddr") = First(escaped(v2))
      /\ Read(text, "port") = First(escaped(v3)) /\ Read(text, "nat_port") = First(escaped(v4))
  <2>1. IsFour(text, c, "name", v1, "ipaddr", v2, "port", v3, "nat_port", v4)
    BY <1>2, <1>3, <1>4, <1>5, <1>6 DEF IsFour
  <2> QED
    BY <2>1, FourFields
<1> DEFINE t == parse(text)
           r == init("CS", t)
<1>8. r = [name |-> t["name"], ipaddr |-> t["ipaddr"],
           port |-> int_of_string(t["port"]), nat_port |-> int_of_string(t["nat_port"])]
  BY DEF init, CS_init
<1>9. /\ t["type"] = <<c>> /\ t["name"] = First(escaped(v1)) /\ t["ipaddr"] = First(escaped(v2))
      /\ t["port"] = v3 /\ t["nat_port"] = v4
  BY <1>2, <1>7 DEF Read
<1> HIDE DEF t, r
<1>10. DOMAIN r = {"name", "ipaddr", "port", "nat_port"}
  BY <1>8
<1>11. /\ r["name"] = First(escaped(v1)) /\ r["ipaddr"] = First(escaped(v2))
       /\ r["port"] = int_of_string(v3) /\ r["nat_port"] = int_of_string(v4)
  BY <1>8, <1>9
<1>12. \A f \in DOMAIN Values["CS"] : r[f] = Back(f, o[f])
  BY <1>11, FieldsAre DEF Back, v1, v2, v3, v4
<1>13. ~Refused("CS", t)
  BY <1>9 DEF Refused, c
<1> QED
  BY <1>7, <1>10, <1>12, <1>13, FieldsAre DEF ReadsBack, t, r, text

\* The details of a player come back.
LEMMA DetailsBack ==
    ASSUME NEW o, Typed("Details", o)
    PROVE  ReadsBack("Details", o, escaped(tos("Details", o)))
<1> DEFINE c == "Details"
           v1 == o["name"]
           v2 == o["email"]
           text == escaped(tos("Details", o))
           S == Seq(Tokens \ {"\n"})
<1>1. v1 \in S /\ v2 \in S
  BY FieldsAre DEF Typed
<1>2. text = escaped(typed(c) \o str(c, "name", v1) \o str(c, "email", v2))
  BY DEF tos, Details_tos
<1>3. c \in DOMAIN Values /\ c # "Player" /\ "name" \in Keys /\ "email" \in Keys
  BY TokensAre DEF Keys
<1> HIDE DEF v1, v2, text, c
<1>4. /\ text \in Seq(Tokens \ {"'"}) /\ Read(text, "type") = <<c>>
      /\ Read(text, "name") = First(escaped(v1)) /\ Read(text, "email") = First(escaped(v2))
  <2>1. IsTwo(text, c, "name", v1, "email", v2)
    BY <1>1, <1>2, <1>3 DEF IsTwo
  <2> QED
    BY <2>1, TwoFields
<1> DEFINE t == parse(text)
           r == init("Details", t)
<1>5. r = [name |-> t["name"], email |-> t["email"]]
  BY DEF init, Details_init
<1>6. t["type"] = <<c>> /\ t["name"] = First(escaped(v1)) /\ t["email"] = First(escaped(v2))
  BY <1>4 DEF Read
<1> HIDE DEF t, r
<1>7. /\ DOMAIN r = {"name", "email"}
      /\ r["name"] = First(escaped(v1)) /\ r["email"] = First(escaped(v2))
  BY <1>5, <1>6
<1>8. \A f \in DOMAIN Values["Details"] : r[f] = Back(f, o[f])
  BY <1>7, FieldsAre DEF Back, v1, v2
<1>9. ~Refused("Details", t)
  BY <1>6 DEF Refused, c
<1> QED
  BY <1>4, <1>7, <1>8, <1>9, FieldsAre DEF ReadsBack, t, r, text

\* And so does the Cache.
LEMMA CacheBack ==
    ASSUME NEW o, Typed("Cache", o)
    PROVE  ReadsBack("Cache", o, escaped(tos("Cache", o)))
<1> DEFINE c == "Cache"
           v1 == string_of_Uint64(o["idspace"])
           v2 == string_of_Uint64(o["next_guid"])
           text == escaped(tos("Cache", o))
           S == Seq(Tokens \ {"\n"})
<1>0. o["idspace"] \in Guids /\ o["next_guid"] \in Guids
  BY FieldsAre DEF Typed
<1>1. v1 \in S /\ First(escaped(v1)) = v1 /\ v2 \in S /\ First(escaped(v2)) = v2
      /\ Uint64_of_string(v1) = o["idspace"] /\ Uint64_of_string(v2) = o["next_guid"]
  BY <1>0, NumberShown
<1>2. text = escaped(typed(c) \o str(c, "idspace", v1) \o str(c, "next_guid", v2))
  BY DEF tos, Cache_tos, guid
<1>3. c \in DOMAIN Values /\ c # "Player" /\ "idspace" \in Keys /\ "next_guid" \in Keys
  BY TokensAre DEF Keys
<1> HIDE DEF v1, v2, text, c
<1>4. /\ text \in Seq(Tokens \ {"'"}) /\ Read(text, "type") = <<c>>
      /\ Read(text, "idspace") = First(escaped(v1)) /\ Read(text, "next_guid") = First(escaped(v2))
  <2>1. IsTwo(text, c, "idspace", v1, "next_guid", v2)
    BY <1>1, <1>2, <1>3 DEF IsTwo
  <2> QED
    BY <2>1, TwoFields
<1> DEFINE t == parse(text)
           r == init("Cache", t)
<1>5. r = [idspace |-> Uint64_of_string(t["idspace"]), next_guid |-> Uint64_of_string(t["next_guid"])]
  BY DEF init, Cache_init
<1>6. t["idspace"] = v1 /\ t["next_guid"] = v2
  BY <1>1, <1>4 DEF Read
<1> HIDE DEF t, r
<1>7. /\ DOMAIN r = {"idspace", "next_guid"}
      /\ r["idspace"] = o["idspace"] /\ r["next_guid"] = o["next_guid"]
  BY <1>1, <1>5, <1>6
<1>8. \A f \in DOMAIN Values["Cache"] : r[f] = Back(f, o[f])
  BY <1>7, FieldsAre DEF Back
<1>9. ~Refused("Cache", t)
  BY DEF Refused
<1> QED
  BY <1>4, <1>7, <1>8, <1>9, FieldsAre DEF ReadsBack, t, r, text

\* Of three sequences behind each other it does not matter which two are joined
\* first.
LEMMA JoinedThree ==
    ASSUME NEW S, NEW a \in Seq(S), NEW b \in Seq(S), NEW c \in Seq(S)
    PROVE  Joined(Joined(a, b), c) = Joined(a, Joined(b, c)) /\ Joined(a, b) \in Seq(S)
<1>1. (a \o b) \o c = a \o (b \o c)
  BY ConcatAssociative
<1>2. a \o b \in Seq(S)
  BY ConcatProperties
<1> QED
  BY <1>1, <1>2 DEF Joined

\* c is the m elements of a and the n of b.
AreBoth(S, m, n, a, b, c) ==
    /\ a \in Seq(S) /\ b \in Seq(S) /\ c \in Seq(S)
    /\ m \in Nat /\ n \in Nat /\ Len(a) = m /\ Len(b) = n /\ Len(c) = m + n
    /\ \A i \in 1..m : c[i] = a[i]
    /\ \A j \in 1..n : c[m + j] = b[j]

\* Then it is a and b behind each other.
LEMMA JoinedIs ==
    ASSUME NEW S, NEW m, NEW n, NEW a, NEW b, NEW c, AreBoth(S, m, n, a, b, c)
    PROVE  Joined(a, b) = c
<1>0. /\ a \in Seq(S) /\ b \in Seq(S) /\ c \in Seq(S)
      /\ m \in Nat /\ n \in Nat /\ Len(a) = m /\ Len(b) = n /\ Len(c) = m + n
      /\ \A i \in 1..m : c[i] = a[i]
      /\ \A j \in 1..n : c[m + j] = b[j]
  BY DEF AreBoth
<1> DEFINE p == a \o b
<1>1. p \in Seq(S) /\ Len(p) = m + n /\ \A i \in 1..m + n : p[i] = IF i <= m THEN a[i] ELSE b[i - m]
  BY <1>0, ConcatProperties
<1> HIDE DEF p
<1>2. ASSUME NEW i \in 1..m + n
      PROVE  p[i] = c[i]
  <2>1. CASE i <= m
    BY <1>0, <1>1, <2>1
  <2>2. CASE i > m
    <3>1. i - m \in 1..n /\ m + (i - m) = i
      BY <1>0, <2>2
    <3>2. c[m + (i - m)] = b[i - m]
      BY <1>0, <3>1
    <3>3. p[i] = b[i - m]
      BY <1>0, <1>1, <2>2
    <3> QED
      BY <3>1, <3>2, <3>3
  <2> QED
    BY <1>0, <2>1, <2>2
<1>3. p = c
  BY <1>0, <1>1, <1>2, SeqEqual
<1> QED
  BY <1>3 DEF p, Joined

\* What is between the fields of a Player: the SMT solver takes no string of a
\* comma.
Comma == ","

\* It is no character that the loops look for.
LEMMA CommaIs ==
    /\ between("Player") = Comma /\ Comma \in Tokens
    /\ Comma # "\n" /\ Comma # ":" /\ Comma # "'"
<1>1. between("Player") = Comma
  BY Zenon DEF between, Comma
<1>2. Comma \in Tokens
  BY Zenon DEF Tokens, Comma
<1>3. Comma # "\n" /\ Comma # ":" /\ Comma # "'"
  BY DEF Comma
<1> QED
  BY <1>1, <1>2, <1>3

\* What is behind the first ':' of the row of a Player is its class and, as no
\* newline ends the line, the name of its first field.
LEMMA PlayerLost ==
    ASSUME NEW o, Typed("Player", o)
    PROVE  /\ escaped(tos("Player", o)) \in Seq(Tokens \ {"'"})
           /\ Refused("Player", parse(escaped(tos("Player", o))))
<1> DEFINE E == Tokens \ {"\n"}
           D == Tokens \ {"'"}
           t0 == <<"type", ":", "Player">>
           g == <<Comma, "username", ":">>
           h == <<"type", ":", "Player", Comma, "username", ":">>
           k == <<"Player", Comma, "username", ":">>
           k0 == <<"Player", Comma, "username">>
           u == o["username"]
           s2 == str("Player", "password", o["password"])
           s3 == str("Player", "details", string_of_Uint64(o["details"]))
           b == Joined(Joined(u, s2), s3)
           y == <<"type", ":">>
           text == escaped(tos("Player", o))
           w == escaped(b)
<1>1. /\ u \in Seq(E) /\ o["password"] \in Seq(E)
      /\ string_of_Uint64(o["details"]) \in Seq(E)
  <2>1. u \in Seq(E) /\ o["password"] \in Seq(E) /\ o["details"] \in Guids
    BY FieldsAre DEF Typed
  <2> QED
    BY <2>1, NumberShown
<1>2. /\ "type" \in E /\ ":" \in E /\ "Player" \in E /\ Comma \in E /\ "username" \in E
      /\ "password" \in E /\ "details" \in E
      /\ "type" \in D /\ ":" \in D /\ "Player" \in D /\ Comma \in D /\ "username" \in D
      /\ E \subseteq Tokens /\ {"%", "2", "7"} \subseteq E /\ "type" \in Keys
      /\ "\n" \notin E /\ {"%", "2", "7"} \subseteq Tokens
  BY CommaIs, TokensAre DEF Keys
<1>3. ASSUME NEW x \in E, NEW v \in Seq(E)
      PROVE  str("Player", x, v) \in Seq(E)
  <2>1. Comma \in E /\ ":" \in E /\ between("Player") = Comma
    BY <1>2, CommaIs
  <2> HIDE DEF E
  <2> DEFINE z == <<Comma, x, ":">>
  <2>2. z \in Seq(E)
    BY <2>1
  <2>3. str("Player", x, v) = z \o v
    BY <2>1 DEF str
  <2> HIDE DEF z
  <2> QED
    BY <2>2, <2>3, ConcatProperties
<1>4. s2 \in Seq(E) /\ s3 \in Seq(E)
  <2> HIDE DEF E
  <2> QED
    BY <1>1, <1>2, <1>3
<1>5. tos("Player", o) = Joined(Joined(Joined(t0, Joined(g, u)), s2), s3)
  BY CommaIs DEF tos, Player_tos, guid, typed, str, Joined
<1> HIDE DEF E, D, u, s2, s3
<1>6. /\ t0 \in Seq(E) /\ g \in Seq(E) /\ h \in Seq(E) /\ h \in Seq(D)
      /\ k \in Seq(E) /\ k0 \in Seq(E) /\ y \in Seq(E)
  <2>1. t0 \in Seq(E) /\ g \in Seq(E)
    BY <1>2
  <2>2. h \in Seq(E)
    BY <1>2
  <2>3. h \in Seq(D)
    BY <1>2
  <2>4. k \in Seq(E) /\ k0 \in Seq(E) /\ y \in Seq(E)
    BY <1>2
  <2> QED
    BY <2>1, <2>2, <2>3, <2>4
<1>7. Joined(t0, g) = h /\ Joined(y, k) = h
  <2>1. Joined(t0, g) = h
    <3> DEFINE m == 3
               n == 3
    <3>1. /\ m \in Nat /\ n \in Nat /\ Len(t0) = m /\ Len(g) = n /\ Len(h) = m + n
          /\ \A i \in 1..m : h[i] = t0[i]
          /\ \A j \in 1..n : h[m + j] = g[j]
      OBVIOUS
    <3> HIDE DEF t0, g, h, m, n
    <3>2. AreBoth(E, m, n, t0, g, h)
      BY <1>6, <3>1 DEF AreBoth
    <3> QED
      BY <3>2, JoinedIs
  <2>2. Joined(y, k) = h
    <3> DEFINE m == 2
               n == 4
    <3>1. /\ m \in Nat /\ n \in Nat /\ Len(y) = m /\ Len(k) = n /\ Len(h) = m + n
          /\ \A i \in 1..m : h[i] = y[i]
          /\ \A j \in 1..n : h[m + j] = k[j]
      OBVIOUS
    <3> HIDE DEF y, k, h, m, n
    <3>2. AreBoth(E, m, n, y, k, h)
      BY <1>6, <3>1 DEF AreBoth
    <3> QED
      BY <3>2, JoinedIs
  <2> QED
    BY <2>1, <2>2
<1>8. k = Append(k0, ":") /\ k0 # <<"Player">> /\ ":" \in E /\ k0 \in Seq(E \ {":"})
  <2>0. ":" \in E
    BY <1>2
  <2>1. k = Append(k0, ":")
    <3> DEFINE n == 3
    <3>1. /\ Len(k0) = n /\ Len(k) = n + 1 /\ k[n + 1] = ":" /\ n \in Nat
          /\ \A i \in 1..n : k[i] = k0[i]
      OBVIOUS
    <3>2. k0 \in Seq(E) /\ k \in Seq(E)
      BY <1>6
    <3> HIDE DEF k, k0, n
    <3> QED
      BY <2>0, <3>1, <3>2, AppendIs
  <2>2. k0 # <<"Player">>
    OBVIOUS
  <2>3. k0 \in Seq(E \ {":"})
    <3> DEFINE F == E \ {":"}
    <3>1. "Player" \in F /\ Comma \in F /\ "username" \in F
      BY <1>2, CommaIs
    <3> HIDE DEF F
    <3>2. k0 \in Seq(F)
      BY <3>1
    <3> QED
      BY <3>2 DEF F
  <2> QED
    BY <2>0, <2>1, <2>2, <2>3
<1> HIDE DEF t0, g, h, k, k0, y
<1>9. b \in Seq(E) /\ tos("Player", o) = Joined(h, b)
  <2>1. Joined(t0, Joined(g, u)) = Joined(h, u)
    BY <1>1, <1>6, <1>7, JoinedThree
  <2> DEFINE us == Joined(u, s2)
             hu == Joined(h, u)
  <2>2. us \in Seq(E) /\ Joined(hu, s2) = Joined(h, us)
    BY <1>1, <1>4, <1>6, JoinedThree
  <2>3. b = Joined(us, s3) /\ tos("Player", o) = Joined(Joined(hu, s2), s3)
    BY <1>5, <2>1
  <2> HIDE DEF us, hu, b
  <2>4. Joined(Joined(h, us), s3) = Joined(h, Joined(us, s3)) /\ Joined(us, s3) \in Seq(E)
    BY <1>4, <1>6, <2>2, JoinedThree
  <2> QED
    BY <2>2, <2>3, <2>4
<1> HIDE DEF b
<1>10. w \in Seq(E) /\ text = Joined(h, w)
  <2>1. w \in Seq(E)
    BY <1>2, <1>9, EscapedIs
  <2>2. escaped(h) = h
    BY <1>2, <1>6, EscapedOnce DEF D
  <2>3. escaped(h \o b) = escaped(h) \o w
    BY <1>2, <1>6, <1>9, EscapedConcat
  <2>4. escaped(Joined(h, b)) = Joined(escaped(h), w)
    BY <2>3 DEF Joined
  <2> HIDE DEF w
  <2> QED
    BY <1>9, <2>1, <2>2, <2>4
<1> HIDE DEF w, text
<1> DEFINE z == Joined(k, w)
<1>11. z \in Seq(E) /\ text \in Seq(E) /\ text = Line("type", z)
  <2>1. z \in Seq(E) /\ Joined(h, w) \in Seq(E)
    BY <1>6, <1>10, JoinedThree
  <2>2. Joined(Joined(y, k), w) = Joined(y, z)
    BY <1>6, <1>10, JoinedThree
  <2> HIDE DEF z
  <2>3. text = Joined(y, z)
    BY <1>7, <1>10, <2>2
  <2>4. Joined(y, z) = Line("type", z)
    BY DEF Line, Joined, y
  <2> QED
    BY <1>10, <2>1, <2>3, <2>4
<1>12. First(z) = k0
  <2> DEFINE q == Parts(":", w)
             S == Seq(E)
  <2>1. Parts(":", Append(k0, ":") \o w) = Parts(":", k0) \o q
    BY <1>6, <1>8, <1>10, PartsOfBoth
  <2>2. Parts(":", k0) = <<k0>>
    BY <1>8, OnePart
  <2>3. Parts(":", z) = <<k0>> \o q
    BY <1>8, <2>1, <2>2 DEF Joined
  <2>4. q \in Seq(S) /\ k0 \in S
    BY <1>6, <1>10, PartsTyped
  <2> HIDE DEF q, S, z
  <2>5. (<<k0>> \o q)[1] = k0
    BY <2>4
  <2> QED
    BY <2>3, <2>5 DEF First
<1> HIDE DEF z
<1>13. split("\n", text) = <<text>>
  <2>1. Parts("\n", text) = <<text>>
    BY <1>2, <1>11, OnePart
  <2>2. text # <<>>
    <3>1. z \in Seq(Tokens) /\ "type" \in Keys
      BY <1>2, <1>11
    <3>2. Line("type", z) # <<>>
      BY <3>1, LineIs
    <3> QED
      BY <1>11, <3>2
  <2>3. Last(<<text>>) = text
    BY DEF Last
  <2> QED
    BY <2>1, <2>2, <2>3 DEF split
<1>14. Read(text, "type") = k0
  <2> DEFINE x == <<"type">>
             v == <<z>>
             S == Seq(Tokens)
  <2>1. z \in S /\ "type" \in Keys
    BY <1>2, <1>11
  <2> HIDE DEF S
  <2>2. /\ x \in [1..1 -> Keys] /\ v \in [1..1 -> S] /\ x[1] = "type" /\ v[1] = z
        /\ \A i, j \in 1..1 : x[i] = x[j] => i = j
    BY <2>1
  <2>3. DOMAIN split("\n", text) = 1..1 /\ \A i \in 1..1 : split("\n", text)[i] = Line(x[i], v[i])
    BY <1>11, <1>13
  <2> HIDE DEF x, v
  <2>4. LinesAre(text, 1, x, v)
    BY <2>2, <2>3 DEF LinesAre, S
  <2>5. Read(text, x[1]) = First(v[1])
    BY <2>4, ParseIs
  <2> QED
    BY <1>12, <2>2, <2>5
<1>15. Refused("Player", parse(text))
  BY <1>8, <1>14 DEF Refused, Read
<1>16. text \in Seq(Tokens \ {"'"})
  <2>1. tos("Player", o) \in Seq(Tokens) /\ {"%", "2", "7"} \subseteq Tokens
    <3>1. Joined(h, b) \in Seq(E) /\ E \subseteq Tokens /\ {"%", "2", "7"} \subseteq Tokens
      BY <1>2, <1>6, <1>9, JoinedThree
    <3> QED
      BY <1>9, <3>1
  <2> QED
    BY <2>1, EscapedOnce DEF text
<1> QED
  BY <1>15, <1>16 DEF text

\* Every row is a text without a quote, and a Player is refused; any other
\* object comes back.
LEMMA RowIs ==
    ASSUME NEW c \in DOMAIN Values, NEW o, Typed(c, o)
    PROVE  /\ escaped(tos(c, o)) \in Seq(Tokens \ {"'"})
           /\ c = "Player" => Refused(c, parse(escaped(tos(c, o))))
           /\ c # "Player" => ReadsBack(c, o, escaped(tos(c, o)))
<1>1. CASE c = "Player"
  BY <1>1, PlayerLost
<1>2. CASE c # "Player"
  <2>1. ReadsBack(c, o, escaped(tos(c, o)))
    <3>1. CASE c = "Event"
      BY <3>1, EventBack
    <3>2. CASE c = "CS"
      BY <3>2, CSBack
    <3>3. CASE c = "Details"
      BY <3>3, DetailsBack
    <3>4. CASE c = "Cache"
      BY <3>4, CacheBack
    <3> QED
      BY <1>2, <3>1, <3>2, <3>3, <3>4, TokensAre
  <2> QED
    BY <1>2, <2>1 DEF ReadsBack
<1> QED
  BY <1>1, <1>2

(***************************************************************************)
(* The invariant: the row is that of an object that a handler would print  *)
(* the same way as the one it set last, but for what is behind a ':' and   *)
(* ints that are negative.  A time is what it is as an int.                *)
(***************************************************************************)

\* o and s have the same ids, the same ints that are not negative, and strings
\* that are the same as far as they are kept.
Same(c, o, s) ==
    \A f \in DOMAIN Values[c] :
        /\ IsText(f) => escaped(First(o[f])) = escaped(First(s[f]))
        /\ IsGuid(f) => o[f] = s[f]
        /\ IsInt(f) /\ Wrap(s[f]) >= 0 => Wrap(o[f]) = Wrap(s[f])

\* o has of s what is kept.
Kept(c, o, s) ==
    \A f \in DOMAIN Values[c] :
        /\ IsText(f) => o[f] = escaped(First(s[f]))
        /\ IsGuid(f) => o[f] = s[f]
        /\ IsInt(f) /\ Wrap(s[f]) >= 0 => o[f] = Wrap(s[f])

\* text is the row of such an o.
RowOf(c, s, text) ==
    \E o : Typed(c, o) /\ Same(c, o, s) /\ text = escaped(tos(c, o))

RecordInv ==
    /\ class \in DOMAIN Values /\ loaded \in BOOLEAN /\ lost \in BOOLEAN
    /\ obj # Nothing => Typed(class, obj)
    /\ set # Nothing => Typed(class, set) /\ RowOf(class, set, row)
    /\ set = Nothing => row = Nothing /\ obj # Nothing /\ ~loaded
    /\ obj # Nothing /\ set # Nothing => Same(class, obj, set)
    /\ obj # Nothing /\ loaded => Kept(class, obj, set)
    /\ lost => class = "Player"

\* The fields are numbers and texts, and no object is Nothing.
LEMMA FieldIs ==
    ASSUME NEW c \in DOMAIN Values
    PROVE  /\ \A f \in DOMAIN Values[c] : \A v \in Values[c][f] : v \in FieldType(f)
           /\ \A o \in New[c] : Typed(c, o)
           /\ \A o : Typed(c, o) => o # Nothing
<1> DEFINE S == Seq(Tokens \ {"\n"})
<1>1. Texts \subseteq S /\ Ints \subseteq Guids /\ <<>> \in S
  <2>1. Chars \subseteq Tokens \ {"\n"}
    BY TokensAre
  <2>2. Texts \subseteq Seq(Chars)
    BY OneLine
  <2>3. Seq(Chars) \subseteq S
    BY <2>1
  <2> QED
    BY <2>2, <2>3, Numbers, EmptySeq
<1>2. ASSUME NEW f \in DOMAIN Values[c]
      PROVE  Values[c][f] = IF IsText(f) THEN Texts
                            ELSE IF f = "time" THEN {}
                            ELSE IF IsInt(f) THEN Ints ELSE Guids
  <2>1. CASE c = "Event"
    <3>1. f \in {"name", "params", "date", "time"}
      BY <2>1, FieldsAre
    <3>2. Values[c] = [name |-> Texts, params |-> Texts, date |-> Ints, time |-> {}]
      BY <2>1 DEF Values
    <3> QED
      BY <3>1, <3>2, FieldsAre
  <2>2. CASE c = "CS"
    <3>1. f \in {"name", "ipaddr", "port", "nat_port"}
      BY <2>2, FieldsAre
    <3> QED
      BY <2>2, <3>1, FieldsAre DEF Values
  <2>3. CASE c = "Details"
    <3>1. f \in {"name", "email"}
      BY <2>3, FieldsAre
    <3> QED
      BY <2>3, <3>1, FieldsAre DEF Values
  <2>4. CASE c = "Player"
    <3>1. f \in {"username", "password", "details"}
      BY <2>4, FieldsAre
    <3> QED
      BY <2>4, <3>1, FieldsAre DEF Values
  <2>5. CASE c = "Cache"
    <3>1. f \in {"idspace", "next_guid"}
      BY <2>5, FieldsAre
    <3> QED
      BY <2>5, <3>1, FieldsAre DEF Values
  <2> QED
    BY <2>1, <2>2, <2>3, <2>4, <2>5, TokensAre
<1>3. ASSUME NEW o \in New[c]
      PROVE  Typed(c, o)
  <2> HIDE DEF S
  <2>1. CASE c = "Event"
    <3>1. o \in [name : {<<>>}, params : {<<>>}, date : Ints, time : Times]
      BY <2>1 DEF New
    <3>2. FieldType("name") = S /\ FieldType("params") = S
          /\ FieldType("date") = Guids /\ FieldType("time") = Guids \cup Times
      BY FieldsAre DEF S
    <3>3. DOMAIN o = DOMAIN Values[c] /\ o.name \in S /\ o.params \in S
          /\ o.date \in Guids /\ o.time \in Times
      BY <1>1, <2>1, <3>1, FieldsAre
    <3> QED
      BY <2>1, <3>2, <3>3, FieldsAre DEF Typed
  <2>2. CASE c = "CS"
    <3>1. o \in [name : {<<>>}, ipaddr : {<<>>}, port : Ints, nat_port : Ints]
      BY <2>2 DEF New
    <3>2. FieldType("name") = S /\ FieldType("ipaddr") = S
          /\ FieldType("port") = Guids /\ FieldType("nat_port") = Guids
      BY FieldsAre DEF S
    <3>3. DOMAIN o = DOMAIN Values[c] /\ o.name \in S /\ o.ipaddr \in S
          /\ o.port \in Guids /\ o.nat_port \in Guids
      BY <1>1, <2>2, <3>1, FieldsAre
    <3> QED
      BY <2>2, <3>2, <3>3, FieldsAre DEF Typed
  <2>3. CASE c = "Details"
    <3>1. o \in [name : {<<>>}, email : {<<>>}]
      BY <2>3 DEF New
    <3>2. FieldType("name") = S /\ FieldType("email") = S
      BY FieldsAre DEF S
    <3>3. DOMAIN o = DOMAIN Values[c] /\ o.name \in S /\ o.email \in S
      BY <1>1, <2>3, <3>1, FieldsAre
    <3> QED
      BY <2>3, <3>2, <3>3, FieldsAre DEF Typed
  <2>4. CASE c = "Player"
    <3>1. o \in [username : {<<>>}, password : {<<>>}, details : Guids]
      BY <2>4 DEF New
    <3>2. FieldType("username") = S /\ FieldType("password") = S
          /\ FieldType("details") = Guids
      BY FieldsAre DEF S
    <3>3. DOMAIN o = DOMAIN Values[c] /\ o.username \in S /\ o.password \in S
          /\ o.details \in Guids
      BY <1>1, <2>4, <3>1, FieldsAre
    <3> QED
      BY <2>4, <3>2, <3>3, FieldsAre DEF Typed
  <2>5. CASE c = "Cache"
    <3>1. o \in [idspace : Guids, next_guid : Guids]
      BY <2>5 DEF New
    <3>2. FieldType("idspace") = Guids /\ FieldType("next_guid") = Guids
      BY FieldsAre DEF S
    <3>3. DOMAIN o = DOMAIN Values[c] /\ o.idspace \in Guids /\ o.next_guid \in Guids
      BY <1>1, <2>5, <3>1, FieldsAre
    <3> QED
      BY <2>5, <3>2, <3>3, FieldsAre DEF Typed
  <2> QED
    BY <2>1, <2>2, <2>3, <2>4, <2>5, TokensAre
<1>4. ASSUME NEW o, Typed(c, o)
      PROVE  o # Nothing
  <2>1. DOMAIN o # {}
    <3>1. DOMAIN Values[c] # {}
      BY FieldsAre, TokensAre
    <3> QED
      BY <1>4, <3>1 DEF Typed
  <2>2. DOMAIN Nothing = {}
    BY DEF Nothing
  <2> QED
    BY <2>1, <2>2
<1>5. ASSUME NEW f \in DOMAIN Values[c], NEW v \in Values[c][f]
      PROVE  v \in FieldType(f)
  <2> HIDE DEF S
  <2>1. CASE IsText(f)
    BY <1>1, <1>2, <1>5, <2>1, FieldsAre DEF S
  <2>2. CASE ~IsText(f)
    <3>1. f # "time" /\ FieldType(f) = Guids
      BY <1>2, <1>5, <2>2, FieldsAre
    <3> QED
      BY <1>1, <1>2, <1>5, <2>2, <3>1
  <2> QED
    BY <2>1, <2>2
<1> QED
  BY <1>3, <1>4, <1>5

\* What is kept of a string is kept of it again.
LEMMA KeptOnce ==
    ASSUME NEW s \in Seq(Tokens \ {"\n"})
    PROVE  /\ First(escaped(s)) = escaped(First(s))
           /\ First(escaped(s)) \in Seq(Tokens \ {"\n"})
           /\ escaped(First(escaped(First(s)))) = escaped(First(s))
<1> DEFINE C == Tokens \ {"\n"}
           x == First(s)
           e == escaped(x)
<1>0. {"%", "2", "7"} \subseteq C
  BY TokensAre
<1> HIDE DEF C
<1>1. s \in Seq(C)
  BY DEF C
<1>2. x \in Seq(C \ {":"}) /\ x \in Seq(C)
  <2>1. x \in Seq(C \ {":"})
    BY <1>1, FirstIsPlain
  <2> HIDE DEF x
  <2>2. x \in Seq(C)
    BY <2>1
  <2> QED
    BY <2>1, <2>2
<1>3. First(escaped(s)) = e
  BY <1>0, <1>1, FirstOfEscaped
<1> HIDE DEF x
<1>4. First(x) = x
  <2>1. ":" \notin C \ {":"}
    OBVIOUS
  <2> QED
    BY <1>2, <2>1, FirstOfAll
<1>5. e \in Seq(C) /\ First(e) = e
  <2>1. e \in Seq(C)
    BY <1>0, <1>2, EscapedIs
  <2>2. First(e) = escaped(First(x))
    BY <1>0, <1>2, FirstOfEscaped
  <2> QED
    BY <1>4, <2>1, <2>2
<1>6. escaped(e) = e
  <2>1. e \in Seq(C \ {"'"})
    BY <1>0, <1>2, EscapedOnce
  <2> HIDE DEF e
  <2> QED
    BY <1>0, <2>1, EscapedOnce
<1> HIDE DEF e
<1>7. escaped(First(e)) = e
  BY <1>5, <1>6
<1> QED
  BY <1>3, <1>5, <1>7 DEF C, e, x

\* What is read from the row of such an o has what is kept.
LEMMA ReadIsKept ==
    ASSUME NEW c \in DOMAIN Values, NEW o, Typed(c, o), NEW s, Typed(c, s), Same(c, o, s),
           NEW text, ReadsBack(c, o, text)
    PROVE  Typed(c, init(c, parse(text))) /\ Kept(c, init(c, parse(text)), s)
<1> DEFINE r == init(c, parse(text))
<1>1. DOMAIN r = DOMAIN Values[c] /\ \A f \in DOMAIN Values[c] : r[f] = Back(f, o[f])
  BY DEF ReadsBack
<1> HIDE DEF r
<1>2. ASSUME NEW f \in DOMAIN Values[c], IsText(f)
      PROVE  r[f] \in FieldType(f) /\ r[f] = escaped(First(s[f]))
  <2> DEFINE v == o[f]
             w == s[f]
             S == Seq(Tokens \ {"\n"})
  <2>1. ~IsInt(f) /\ ~IsGuid(f) /\ f # "time" /\ FieldType(f) = S
    BY <1>2, FieldsAre
  <2>2. v \in S /\ escaped(First(v)) = escaped(First(w))
    BY <1>2, <2>1 DEF Typed, Same
  <2>3. r[f] = First(escaped(v))
    BY <1>1, <1>2, <2>1 DEF Back
  <2> HIDE DEF v, w
  <2>4. First(escaped(v)) = escaped(First(v)) /\ First(escaped(v)) \in S
    BY <2>2, KeptOnce
  <2> HIDE DEF S
  <2> QED
    BY <2>1, <2>2, <2>3, <2>4 DEF w
<1>3. ASSUME NEW f \in DOMAIN Values[c], IsGuid(f)
      PROVE  r[f] \in FieldType(f) /\ r[f] = s[f]
  <2>1. ~IsInt(f) /\ f # "time"
    BY <1>3, FieldsAre DEF IsInt, IsGuid
  <2>2. r[f] = o[f] /\ o[f] = s[f] /\ o[f] \in FieldType(f)
    BY <1>1, <1>3, <2>1 DEF Back, Typed, Same
  <2> QED
    BY <2>2
<1>4. ASSUME NEW f \in DOMAIN Values[c], IsInt(f)
      PROVE  r[f] \in FieldType(f) /\ (Wrap(s[f]) >= 0 => r[f] = Wrap(s[f]))
  <2> DEFINE v == Wrap(o[f])
             w == Wrap(s[f])
  <2>1. w >= 0 => v = w
    BY <1>4 DEF Same
  <2>2. v \in Guids /\ r[f] = int_of_string(string_of_int(v))
    <3>1. o[f] \in FieldType(f) /\ r[f] = Back(f, o[f])
      BY <1>1 DEF Typed
    <3>2. CASE f = "time"
      <4>1. o[f] \in Int
        BY <1>4, <3>1, <3>2, FieldsAre, TimesAre
      <4>2. v \in Guids
        BY <4>1, Wraps
      <4> QED
        BY <3>1, <3>2, <4>2 DEF Back
    <3>3. CASE f # "time"
      <4>1. o[f] \in Guids
        BY <1>4, <3>1, <3>3, FieldsAre
      <4>2. v = o[f]
        BY <4>1, WrapIs
      <4> HIDE DEF v
      <4> QED
        BY <1>4, <3>1, <3>3, <4>1, <4>2 DEF Back
    <3> QED
      BY <3>2, <3>3
  <2> HIDE DEF v, w
  <2>3. r[f] \in Guids /\ (v >= 0 => r[f] = v)
    BY <2>2, NumberShown
  <2>4. Guids \subseteq FieldType(f)
    BY <1>4, FieldsAre
  <2>5. w >= 0 => r[f] = w
    BY <2>1, <2>3
  <2> QED
    BY <2>3, <2>4, <2>5 DEF w
<1>5. Typed(c, r)
  <2>1. ASSUME NEW f \in DOMAIN Values[c]
        PROVE  r[f] \in FieldType(f)
    BY <1>2, <1>3, <1>4, FieldsAre
  <2> QED
    BY <1>1, <2>1 DEF Typed
<1>6. Kept(c, r, s)
  BY <1>2, <1>3, <1>4 DEF Kept
<1> QED
  BY <1>5, <1>6 DEF r

\* And is printed the same way again.
LEMMA KeptIsSame ==
    ASSUME NEW c \in DOMAIN Values, NEW s, Typed(c, s), NEW o, Kept(c, o, s)
    PROVE  Same(c, o, s)
<1>1. ASSUME NEW f \in DOMAIN Values[c], IsText(f)
      PROVE  escaped(First(o[f])) = escaped(First(s[f]))
  <2> DEFINE v == o[f]
             w == s[f]
  <2>1. v = escaped(First(w)) /\ w \in Seq(Tokens \ {"\n"})
    BY <1>1, FieldsAre DEF Kept, Typed
  <2> HIDE DEF v, w
  <2>2. escaped(First(escaped(First(w)))) = escaped(First(w))
    BY <2>1, KeptOnce
  <2>3. escaped(First(v)) = escaped(First(w))
    BY <2>1, <2>2
  <2> QED
    BY <2>3 DEF v, w
<1>2. ASSUME NEW f \in DOMAIN Values[c], IsInt(f), Wrap(s[f]) >= 0
      PROVE  Wrap(o[f]) = Wrap(s[f])
  <2>1. o[f] = Wrap(s[f])
    BY <1>2 DEF Kept
  <2>2. s[f] \in Int
    BY <1>2, FieldsAre, TimesAre DEF Typed
  <2>3. Wrap(s[f]) \in Guids
    BY <2>2, Wraps
  <2>4. Wrap(Wrap(s[f])) = Wrap(s[f])
    BY <2>3, WrapIs
  <2> QED
    BY <2>1, <2>4
<1>3. ASSUME NEW f \in DOMAIN Values[c], IsGuid(f)
      PROVE  o[f] = s[f]
  BY <1>3 DEF Kept
<1> QED
  BY <1>1, <1>2, <1>3 DEF Same

\* It holds at first, when nothing is in the database.
LEMMA RecordInvInit == Init => RecordInv
<1> SUFFICES ASSUME Init
             PROVE  RecordInv
  OBVIOUS
<1>1. class \in DOMAIN Values /\ obj \in New[class] /\ row = Nothing /\ set = Nothing
      /\ loaded = FALSE /\ lost = FALSE
  BY DEF Init
<1>2. Typed(class, obj) /\ obj # Nothing
  BY <1>1, FieldIs
<1> QED
  BY <1>1, <1>2 DEF RecordInv

\* A text that is saved is in the row: there is no quote in it.
LEMMA SaveIs ==
    ASSUME class \in DOMAIN Values, NEW o, Typed(class, o), save(o)
    PROVE  row' = escaped(tos(class, o))
<1> DEFINE text == escaped(tos(class, o))
<1>1. text \in Seq(Tokens \ {"'"})
  BY RowIs
<1>2. row' = IF Contains(text, "'") THEN row ELSE text
  BY DEF save
<1> HIDE DEF text
<1>3. ~Contains(text, "'")
  <2>1. \A i \in 1..Len(text) : text[i] # "'"
    BY <1>1
  <2> QED
    BY <2>1 DEF Contains
<1> QED
  BY <1>2, <1>3 DEF text

\* Every step keeps it.
LEMMA RecordInvNext == RecordInv /\ [Next]_vars => RecordInv'
<1> SUFFICES ASSUME RecordInv, [Next]_vars
             PROVE  RecordInv'
  OBVIOUS
<1>1. ASSUME NEW f \in DOMAIN Values[class], NEW v \in Values[class][f], Write(f, v)
      PROVE  RecordInv'
  <2>1. /\ obj # Nothing /\ obj' = [obj EXCEPT ![f] = v] /\ save(obj') /\ set' = obj'
        /\ loaded' = FALSE /\ class' = class /\ lost' = lost
    BY <1>1 DEF Write
  <2>2. class \in DOMAIN Values /\ Typed(class, obj) /\ (lost => class = "Player") /\ lost \in BOOLEAN
    BY <2>1 DEF RecordInv
  <2> DEFINE o == [obj EXCEPT ![f] = v]
  <2>3. Typed(class, o)
    <3>1. v \in FieldType(f) /\ DOMAIN obj = DOMAIN Values[class]
          /\ \A g \in DOMAIN Values[class] : obj[g] \in FieldType(g)
      BY <2>2, FieldIs DEF Typed
    <3>2. /\ DOMAIN o = DOMAIN Values[class]
          /\ \A g \in DOMAIN Values[class] : o[g] \in FieldType(g)
      BY <3>1
    <3> QED
      BY <3>2 DEF Typed
  <2>4. row' = escaped(tos(class, obj'))
    BY <2>1, <2>2, <2>3, SaveIs
  <2>5. obj' = o /\ set' = o /\ row' = escaped(tos(class, o))
    BY <2>1, <2>4
  <2> HIDE DEF o
  <2>6. o # Nothing
    BY <2>2, <2>3, FieldIs
  <2>7. Same(class, o, o)
    BY DEF Same
  <2>8. RowOf(class, o, row')
    BY <2>3, <2>5, <2>7 DEF RowOf
  <2> QED
    BY <2>1, <2>2, <2>3, <2>5, <2>6, <2>7, <2>8 DEF RecordInv
<1>2. ASSUME SaveAgain
      PROVE  RecordInv'
  <2>1. obj # Nothing /\ set # Nothing /\ save(obj) /\ UNCHANGED <<class, obj, set, loaded, lost>>
    BY <1>2 DEF SaveAgain
  <2>2. class \in DOMAIN Values /\ Typed(class, obj) /\ Same(class, obj, set)
    BY <2>1 DEF RecordInv
  <2>3. row' = escaped(tos(class, obj))
    BY <2>1, <2>2, SaveIs
  <2>4. RowOf(class, set, row')
    BY <2>2, <2>3 DEF RowOf
  <2> QED
    BY <2>1, <2>4 DEF RecordInv
<1>3. ASSUME End
      PROVE  RecordInv'
  <2>1. row # Nothing /\ obj' = Nothing /\ UNCHANGED <<class, row, set, loaded, lost>>
    BY <1>3 DEF End
  <2> QED
    BY <2>1 DEF RecordInv
<1>4. ASSUME Load
      PROVE  RecordInv'
  <2>1. obj = Nothing /\ UNCHANGED <<class, row, set>>
    BY <1>4 DEF Load
  <2>2. class \in DOMAIN Values /\ set # Nothing /\ Typed(class, set) /\ RowOf(class, set, row)
        /\ lost \in BOOLEAN /\ loaded \in BOOLEAN
    BY <2>1 DEF RecordInv
  <2>3. PICK o : Typed(class, o) /\ Same(class, o, set) /\ row = escaped(tos(class, o))
    BY <2>2 DEF RowOf
  <2>4. CASE class = "Player"
    <3>1. Refused(class, parse(row))
      BY <2>2, <2>3, <2>4, RowIs
    <3>2. lost' = TRUE /\ obj' = obj /\ loaded' = loaded
      BY <1>4, <3>1 DEF Load
    <3> QED
      BY <2>1, <2>2, <2>4, <3>2 DEF RecordInv
  <2>5. CASE class # "Player"
    <3> DEFINE r == init(class, parse(row))
    <3>1. ReadsBack(class, o, row)
      BY <2>2, <2>3, <2>5, RowIs
    <3>2. obj' = r /\ loaded' = TRUE /\ lost' = lost
      BY <1>4, <3>1 DEF Load, ReadsBack
    <3>3. Typed(class, r) /\ Kept(class, r, set)
      BY <2>2, <2>3, <3>1, ReadIsKept
    <3> HIDE DEF r
    <3>4. Same(class, r, set)
      BY <2>2, <3>3, KeptIsSame
    <3>5. class' = class /\ set' = set /\ row' = row
      BY <2>1
    <3>6. lost => class = "Player"
      BY DEF RecordInv
    <3> QED
      BY <2>2, <3>2, <3>3, <3>4, <3>5, <3>6 DEF RecordInv
  <2> QED
    BY <2>4, <2>5
<1>5. ASSUME UNCHANGED vars
      PROVE  RecordInv'
  BY <1>5 DEF vars, RecordInv
<1> QED
  BY <1>1, <1>2, <1>3, <1>4, <1>5 DEF Next

\* It holds always.
LEMMA RecordInvAlways == Spec => []RecordInv
BY RecordInvInit, RecordInvNext, PTL DEF Spec

\* What a handler saved can be loaded again, and it is of its type, whatever
\* clients put in its strings: of no class but Player is a load refused.
THEOREM RecordsLoad == Spec => []RecordOK
<1>1. RecordInv => RecordOK
  <2> SUFFICES ASSUME RecordInv
               PROVE  RecordOK
    OBVIOUS
  <2>1. class \in DOMAIN Values /\ loaded \in BOOLEAN /\ lost \in BOOLEAN
    BY DEF RecordInv
  <2>2. ASSUME NEW o \in {obj, set} \ {Nothing}
        PROVE  /\ DOMAIN o = DOMAIN Values[class]
               /\ \A f \in DOMAIN o : o[f] \in FieldType(f)
    <3>1. Typed(class, o)
      BY DEF RecordInv
    <3> QED
      BY <3>1 DEF Typed
  <2>3. row \in Seq(Tokens)
    <3>1. CASE set = Nothing
      <4>1. row = <<>>
        BY <3>1 DEF RecordInv, Nothing
      <4> QED
        BY <4>1, EmptySeq
    <3>2. CASE set # Nothing
      <4>1. PICK o : Typed(class, o) /\ row = escaped(tos(class, o))
        BY <3>2 DEF RecordInv, RowOf
      <4>2. row \in Seq(Tokens \ {"'"})
        BY <2>1, <4>1, RowIs
      <4> QED
        BY <4>2
    <3> QED
      BY <3>1, <3>2
  <2>4. LoadsBack
    BY DEF RecordInv, LoadsBack
  <2> QED
    BY <2>1, <2>2, <2>3, <2>4 DEF RecordOK, TypeOK
<1> QED
  BY <1>1, RecordInvAlways, PTL

\* A string that was loaded is what was set up to the first ':', with quotes
\* escaped, however often it was saved and loaded.
THEOREM TextsStay == Spec => []TextsKept
<1>1. RecordInv => TextsKept
  <2> SUFFICES ASSUME RecordInv, obj # Nothing, loaded, NEW f \in DOMAIN obj,
                      ~IsInt(f), ~IsGuid(f)
               PROVE  obj[f] = escaped(Parts(":", set[f])[1])
    BY DEF TextsKept
  <2>1. Kept(class, obj, set) /\ f \in DOMAIN Values[class]
    BY DEF RecordInv, Typed
  <2> QED
    BY <2>1 DEF Kept, IsText, First
<1> QED
  BY <1>1, RecordInvAlways, PTL

\* And a number is what was set: every id, an int that is not negative, and
\* what an int takes of a time, however wide the machine's are.
THEOREM NumbersStay == Spec => []NumbersKept
<1>1. RecordInv => NumbersKept
  <2> SUFFICES ASSUME RecordInv, obj # Nothing, loaded, NEW f \in DOMAIN obj
               PROVE  /\ IsGuid(f) => obj[f] = set[f]
                      /\ IsInt(f) /\ Wrap(set[f]) >= 0 => obj[f] = Wrap(set[f])
    BY DEF NumbersKept
  <2>1. Kept(class, obj, set) /\ f \in DOMAIN Values[class]
    BY DEF RecordInv, Typed
  <2> QED
    BY <2>1 DEF Kept
<1> QED
  BY <1>1, RecordInvAlways, PTL
=============================================================================
