------------------------------ MODULE Records -------------------------------
(***************************************************************************)
(* One object of the data classes and its row in the database: a handler   *)
(* sets its fields and saves it, the process ends, a later one loads it    *)
(* from the text that was saved and may save it again without having       *)
(* changed it (saveEvents, dbtool).  Here the text matters: it is a        *)
(* sequence of tokens, a token being the name of a field or a class, or a  *)
(* character.  Characters that mean nothing to the program are "a" and "b".*)
(***************************************************************************)
EXTENDS Integers, Sequences, SequencesExt

CONSTANTS
    Chars,     \* the characters of those strings
    Texts,     \* the strings clients, and whoever calls dbtool, put in fields
    Ints,      \* the values of int fields
    Times,     \* what a time_t may hold that nothing has set
    Half       \* how many numbers are negative: 2^31 of int, 2^63 of long long

\* A message and the data of dbtool are cut at each newline before anything is
\* taken from them.
ASSUME OneLine == Texts \subseteq Seq(Chars) /\ "\n" \notin Chars

ASSUME Bits == Half \in Nat \ {0}

Guids == -Half..Half - 1

\* A time_t may be wider than an int.
ASSUME Numbers == Ints \subseteq Guids /\ Times \subseteq Int

VARIABLES
    class,     \* the class of the object; never changes
    obj,       \* its fields, in the process that has it, or Nothing
    row        \* the text in its row, or Nothing

\* What happened to it.
VARIABLES
    set,       \* the fields as a handler has set them last
    loaded,    \* it was loaded since
    lost       \* a load was refused

vars == <<class, obj, row, set, loaded, lost>>

Nothing == <<>>

-----------------------------------------------------------------------------
(* util.cc.                                                                *)

Wrap(n) == ((n + Half) % (2 * Half)) - Half

Figures == <<"0", "1", "2", "3", "4", "5", "6", "7", "8", "9">>

digits[n \in 0..2 * Half - 1] ==
    IF n < 10 THEN <<Figures[n + 1]>>
    ELSE digits[n \div 10] \o <<Figures[(n % 10) + 1]>>

\* "%d"
string_of_int(i) == IF i < 0 THEN <<"-">> \o digits[-i] ELSE digits[i]

\* Mutant: "%lld"
string_of_Uint64_Signed(i) == string_of_int(i)

\* "%llu"
string_of_Uint64(i) == digits[i % (2 * Half)]

\* s[i] - '0'
value(c) ==
    CASE c = "-" -> -3
      [] c \in ToSet(Figures) -> CHOOSE k \in 0..9 : Figures[k + 1] = c
      [] OTHER -> 49

\* There is no sign.
int_of_string(s) ==
    LET r[i \in 0..Len(s)] == IF i = 0 THEN 0 ELSE Wrap(r[i - 1] * 10 + value(s[i]))
    IN  r[Len(s)]

Uint64_of_string(s) == int_of_string(s)

\* One more character: a part ends, or the last one grows.
cut(d, parts, c) ==
    IF c = d THEN Append(parts, <<>>) ELSE [parts EXCEPT ![Len(parts)] = Append(@, c)]

\* The parts of s before every d, and what is behind the last one.
Parts(d, s) ==
    LET parts[i \in 0..Len(s)] ==
            IF i = 0 THEN <<<<>>>> ELSE cut(d, parts[i - 1], s[i])
    IN  parts[Len(s)]

\* A last part that is empty is left out.
split(d, s) == IF Last(Parts(d, s)) = <<>> THEN Front(Parts(d, s)) ELSE Parts(d, s)

-----------------------------------------------------------------------------
(* object.cc and object.h.                                                 *)

\* The keys that are looked for.
Keys == {"type", "name", "params", "date", "time", "ipaddr", "port", "nat_port", "email",
         "username", "password", "details", "idspace", "next_guid"}

\* The fields o["x"] of a text; of lines with one key the last one counts.
\* What is behind a second ':' is nobody's.
parse(text) ==
    LET lines  == split("\n", text)
        kv(k)  == split(":", lines[k])
        has(x) == {k \in DOMAIN lines : kv(k) # <<>> /\ kv(k)[1] = <<x>>}
    IN  [x \in Keys |->
            IF has(x) = {} THEN <<>>
            ELSE LET k == CHOOSE k \in has(x) : \A j \in has(x) : j <= k
                 IN  IF Len(kv(k)) = 1 THEN <<>> ELSE kv(k)[2]]

escape_tick(retval, c) == retval \o (IF c = "'" THEN <<"%", "2", "7">> ELSE <<c>>)

\* Mutant: the percent sign is escaped, too.
escaped_Percent(s) ==
    LET retval[i \in 0..Len(s)] ==
            IF i = 0 THEN <<>>
            ELSE IF s[i] = "%" THEN retval[i - 1] \o <<"%", "2", "5">>
            ELSE escape_tick(retval[i - 1], s[i])
    IN  retval[Len(s)]

\* Nothing turns it back.
escaped(s) ==
    LET retval[i \in 0..Len(s)] ==
            IF i = 0 THEN <<>> ELSE escape_tick(retval[i - 1], s[i])
    IN  retval[Len(s)]

-----------------------------------------------------------------------------
(* The classes.  Of the fields of Details and Player that are alike there  *)
(* is one each.                                                            *)

\* What their fields may be set to.  Nothing sets the time of an Event.
Values ==
    [Event   |-> [name |-> Texts, params |-> Texts, date |-> Ints, time |-> {}],
     CS      |-> [name |-> Texts, ipaddr |-> Texts, port |-> Ints, nat_port |-> Ints],
     Details |-> [name |-> Texts, email |-> Texts],
     Player  |-> [username |-> Texts, password |-> Texts, details |-> Guids],
     Cache   |-> [idspace |-> Guids, next_guid |-> Guids]]

\* Strings are empty at first; nothing sets the numbers.
New ==
    [Event   |-> [name : {<<>>}, params : {<<>>}, date : Ints, time : Times],
     CS      |-> [name : {<<>>}, ipaddr : {<<>>}, port : Ints, nat_port : Ints],
     Details |-> [name : {<<>>}, email : {<<>>}],
     Player  |-> [username : {<<>>}, password : {<<>>}, details : Guids],
     Cache   |-> [idspace : Guids, next_guid : Guids]]

\* Mutant: the properties of an Event are joined as those of a Player are.
between_Comma(c) == IF c \in {"Player", "Event"} THEN "," ELSE "\n"

between(c) == IF c = "Player" THEN "," ELSE "\n"

\* What tos prints for the type, and for a property of each kind.
typed(c)        == <<"type", ":", c>>
str(c, x, v)    == <<between(c), x, ":">> \o v
number(c, x, i) == str(c, x, string_of_int(i))
guid(c, x, i)   == str(c, x, string_of_Uint64(i))

\* time is a time_t, and string_of_int takes an int.
Event_tos(o) == typed("Event")
                \o str("Event", "name", o.name) \o str("Event", "params", o.params)
                \o number("Event", "date", o.date) \o number("Event", "time", Wrap(o.time))

CS_tos(o) == typed("CS")
             \o str("CS", "name", o.name) \o str("CS", "ipaddr", o.ipaddr)
             \o number("CS", "port", o.port) \o number("CS", "nat_port", o.nat_port)

Details_tos(o) == typed("Details")
                  \o str("Details", "name", o.name) \o str("Details", "email", o.email)

Player_tos(o) == typed("Player")
                 \o str("Player", "username", o.username)
                 \o str("Player", "password", o.password)
                 \o guid("Player", "details", o.details)

Cache_tos(o) == typed("Cache")
                \o guid("Cache", "idspace", o.idspace)
                \o guid("Cache", "next_guid", o.next_guid)

tos(c, o) ==
    CASE c = "Event"   -> Event_tos(o)
      [] c = "CS"      -> CS_tos(o)
      [] c = "Details" -> Details_tos(o)
      [] c = "Player"  -> Player_tos(o)
      [] c = "Cache"   -> Cache_tos(o)

\* All but the Cache look at the type.
Refused(c, t) == c # "Cache" /\ t["type"] # <<c>>

Event_init(t) == [name |-> t["name"], params |-> t["params"],
                  date |-> int_of_string(t["date"]), time |-> int_of_string(t["time"])]

CS_init(t) == [name |-> t["name"], ipaddr |-> t["ipaddr"],
               port |-> int_of_string(t["port"]),
               nat_port |-> int_of_string(t["nat_port"])]

Details_init(t) == [name |-> t["name"], email |-> t["email"]]

Player_init(t) == [username |-> t["username"], password |-> t["password"],
                   details |-> Uint64_of_string(t["details"])]

Cache_init(t) == [idspace |-> Uint64_of_string(t["idspace"]),
                  next_guid |-> Uint64_of_string(t["next_guid"])]

init(c, t) ==
    CASE c = "Event"   -> Event_init(t)
      [] c = "CS"      -> CS_init(t)
      [] c = "Details" -> Details_init(t)
      [] c = "Player"  -> Player_init(t)
      [] c = "Cache"   -> Cache_init(t)

-----------------------------------------------------------------------------
(* The life of an object.                                                  *)

Init ==
    /\ class \in DOMAIN Values
    /\ obj \in New[class]
    /\ row = Nothing /\ set = Nothing
    /\ loaded = FALSE /\ lost = FALSE

\* save_object('...'): a quote in the text ends the literal.
save(o) ==
    LET text == escaped(tos(class, o))
    IN  row' = IF Contains(text, "'") THEN row ELSE text

\* A handler sets a field, and saves the object.
Write(f, v) ==
    /\ obj # Nothing
    /\ obj' = [obj EXCEPT ![f] = v]
    /\ save(obj')
    /\ set' = obj'
    /\ loaded' = FALSE
    /\ UNCHANGED <<class, lost>>

\* saveEvents, or a tool, saves it as it is.
SaveAgain ==
    /\ obj # Nothing /\ set # Nothing
    /\ save(obj)
    /\ UNCHANGED <<class, obj, set, loaded, lost>>

\* The process ends.
End ==
    /\ obj # Nothing /\ row # Nothing
    /\ obj' = Nothing
    /\ UNCHANGED <<class, row, set, loaded, lost>>

\* Cache::find in a later process: load, and init.  An object that is refused
\* is deleted.
Load ==
    /\ obj = Nothing
    /\ IF Refused(class, parse(row))
       THEN lost' = TRUE /\ UNCHANGED <<obj, loaded>>
       ELSE obj' = init(class, parse(row)) /\ loaded' = TRUE /\ UNCHANGED lost
    /\ UNCHANGED <<class, row, set>>

Next ==
    \/ \E f \in DOMAIN Values[class] : \E v \in Values[class][f] : Write(f, v)
    \/ SaveAgain \/ End \/ Load

Spec == Init /\ [][Next]_vars

-----------------------------------------------------------------------------
(* Properties.                                                             *)

IsInt(f)  == f \in {"date", "time", "port", "nat_port"}
IsGuid(f) == f \in {"details", "idspace", "next_guid"}

\* What a text is made of.
Tokens == Chars \cup Keys \cup DOMAIN Values \cup ToSet(Figures)
          \cup {"\n", ":", ",", "-", "%"}

FieldType(f) ==
    IF f = "time" THEN Guids \cup Times
    ELSE IF IsInt(f) \/ IsGuid(f) THEN Guids ELSE Seq(Tokens \ {"\n"})

TypeOK ==
    /\ class \in DOMAIN Values
    /\ \A o \in {obj, set} \ {Nothing} :
        DOMAIN o = DOMAIN Values[class] /\ \A f \in DOMAIN o : o[f] \in FieldType(f)
    /\ row \in Seq(Tokens)
    /\ loaded \in BOOLEAN /\ lost \in BOOLEAN

\* What a handler saved can be loaded again by every later process, whatever
\* clients put in its fields.  Of a Player that does not hold.
LoadsBack == lost => class = "Player"

\* It loads, and every variable has its type.
RecordOK == TypeOK /\ LoadsBack

\* However often it is loaded and saved, a string is what was set, up to the
\* first ':' and with quotes escaped, and no later round changes it again.
TextsKept ==
    obj # Nothing /\ loaded =>
        \A f \in DOMAIN obj : ~IsInt(f) /\ ~IsGuid(f) =>
            obj[f] = escaped(Parts(":", set[f])[1])

\* An id comes back as it was set, whatever its highest bit, what is printed
\* without a sign and read without a bound coming out the same; and so does an
\* int that is not negative (a negative one grows tenfold each time).  Of a
\* time_t it is the int it was cut down to that comes back, if that is not
\* negative.
NumbersKept ==
    obj # Nothing /\ loaded =>
        \A f \in DOMAIN obj :
            /\ IsGuid(f) => obj[f] = set[f]
            /\ IsInt(f) /\ Wrap(set[f]) >= 0 => obj[f] = Wrap(set[f])
=============================================================================
