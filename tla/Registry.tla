------------------------------ MODULE Registry ------------------------------
(***************************************************************************)
(* The message handlers of one server process and the libraries they come  *)
(* from.  A library is built from one source file of modules/ and named    *)
(* after it and the build's version; installing a build adds its libraries *)
(* to the directory (make install), or replaces what is there              *)
(* (clean_install), one file after the other, while servers run.  A server *)
(* loads the directory when it starts and again when it is told to.        *)
(*                                                                         *)
(* Libraries handle different messages: one message stands for all those   *)
(* of a library.  The server's thread is in load or it handles messages.   *)
(***************************************************************************)
EXTENDS Naturals

CONSTANTS
    Libs,      \* source files of modules/
    Timer,     \* the one that handles start-event
    First,     \* module_version before the first install
    Last       \* bound: the last version that is installed; at most 999

NULL     == 0                   \* no Module
Unset    == 1000                \* the static of startEvents before its first call
Versions == First..Last
Names    == Libs \X Versions

VARIABLES
    files,      \* name -> "none", "part" (being copied, or the copy failed), "whole"
    version,    \* module_version
    copying,    \* make install is at work
    pc,         \* "down", "boot", "load", "up"
    todo,       \* load: the names read from the directory and not yet dealt with
    libraries,  \* names that were tried
    mods,       \* library -> the version that handles its messages, or NULL
    alive,      \* names of the libraries whose Modules are allocated
    timer       \* the Module startEvents calls

\* What this process has done.
VARIABLES
    failed,     \* names dlopen refused
    before      \* mods, or, in load, what it was when load was called

dir     == <<files, version, copying>>
history == <<failed, before>>
process == <<pc, todo, libraries, mods, alive, timer, history>>
vars    == <<dir, process>>

TypeOK ==
    /\ files \in [Names -> {"none", "part", "whole"}]
    /\ version \in First..Last + 1
    /\ copying \in BOOLEAN
    /\ pc \in {"down", "boot", "load", "up"}
    /\ todo \subseteq Names
    /\ libraries \subseteq Names
    /\ mods \in [Libs -> Versions \cup {NULL}]
    /\ alive \subseteq Names
    /\ timer \in Versions \cup {NULL, Unset}
    /\ failed \subseteq libraries
    /\ before \in [Libs -> Versions \cup {NULL}]

Init ==
    /\ files = [n \in Names |-> "none"]
    /\ version = First
    /\ copying = FALSE
    /\ pc = "down"
    /\ todo = {} /\ libraries = {} /\ alive = {} /\ failed = {}
    /\ mods = [l \in Libs |-> NULL] /\ before = mods
    /\ timer = Unset

-----------------------------------------------------------------------------
(* The order of the names of one library.  They differ in the version's    *)
(* digits, which a map of strings compares from the left.                  *)

Length(v) == CASE v < 10 -> 1 [] v < 100 -> 2 [] OTHER -> 3

\* v's digits, with zeros behind them up to three.
Padded(v) == v * (CASE v < 10 -> 100 [] v < 100 -> 10 [] OTHER -> 1)

\* Mutant: the names come in the order of their numbers, the last one first.
Before_Reversed(v, w) == v > w

\* Where the shorter number ends, its '.' comes before every digit.
Before(v, w) ==
    \/ Padded(v) < Padded(w)
    \/ Padded(v) = Padded(w) /\ Length(v) < Length(w)

-----------------------------------------------------------------------------
(* Installing.                                                             *)

\* clean_install removes what is there first.
Remove ==
    /\ ~copying
    /\ version <= Last
    /\ \E n \in Names : files[n] # "none"
    /\ files' = [n \in Names |-> "none"]
    /\ copying' = TRUE
    /\ UNCHANGED <<version, process>>

Install ==
    /\ ~copying
    /\ version <= Last
    /\ copying' = TRUE
    /\ UNCHANGED <<files, version, process>>

\* cp creates a file, and fills it, unless it fails: the next one follows.
Copy(l) ==
    /\ copying
    /\ files' = [files EXCEPT ![<<l, version>>] =
                    CASE @ = "none" -> "part" [] @ = "part" -> "whole" [] OTHER -> @]
    /\ UNCHANGED <<version, copying, process>>

\* build.sh goes to the next version, also if cp failed.
Installed ==
    /\ copying
    /\ copying' = FALSE
    /\ version' = version + 1
    /\ UNCHANGED <<files, process>>

-----------------------------------------------------------------------------
(* The server.                                                             *)

\* The process is forked; Registry::init comes later in its constructor.
Start ==
    /\ pc = "down"
    /\ pc' = "boot"
    /\ UNCHANGED <<dir, todo, libraries, mods, alive, timer, history>>

\* Mutant: a reload starts with a new Registry.
Scan_Clear ==
    /\ pc \in {"boot", "up"}
    /\ pc' = "load"
    /\ todo' = {n \in Names : files[n] # "none"}
    /\ mods' = [l \in Libs |-> NULL]
    /\ libraries' = {} /\ failed' = {}
    /\ UNCHANGED <<dir, alive, timer, before>>

\* Registry::load, called by init and when reload_flag is set, reads the
\* directory.
Scan ==
    /\ pc \in {"boot", "up"}
    /\ pc' = "load"
    /\ todo' = {n \in Names : files[n] # "none"}
    /\ UNCHANGED <<dir, libraries, mods, alive, timer, history>>

check(n) == n \in libraries

\* Mutant: the Module that is replaced is deleted.
associate_Delete(n) ==
    /\ mods' = [mods EXCEPT ![n[1]] = n[2]]
    /\ alive' = (alive \ {<<n[1], mods[n[1]]>>}) \cup {n}

\* register_module.  The Module that was there is not deleted.
associate(n) ==
    /\ mods' = [mods EXCEPT ![n[1]] = n[2]]
    /\ alive' = alive \cup {n}

\* The next name of one library; different libraries do not meet.
IsNext(n) == n \in todo /\ \A m \in todo : m[1] = n[1] => ~Before(m[2], n[2])

\* A name that was tried before is passed over,
Skip(n) ==
    /\ pc = "load" /\ IsNext(n)
    /\ check(n)
    /\ todo' = todo \ {n}
    /\ UNCHANGED <<dir, pc, libraries, mods, alive, timer, history>>

\* one that was not is listed, and opened if it is whole by now,
Open(n) ==
    /\ pc = "load" /\ IsNext(n)
    /\ ~check(n) /\ files[n] = "whole"
    /\ todo' = todo \ {n}
    /\ libraries' = libraries \cup {n}
    /\ associate(n)
    /\ UNCHANGED <<dir, pc, timer, history>>

\* and stays listed if it is not, or is gone.
OpenFails(n) ==
    /\ pc = "load" /\ IsNext(n)
    /\ ~check(n) /\ files[n] # "whole"
    /\ todo' = todo \ {n}
    /\ libraries' = libraries \cup {n}
    /\ failed' = failed \cup {n}
    /\ UNCHANGED <<dir, pc, mods, alive, timer, before>>

Loaded ==
    /\ pc = "load" /\ todo = {}
    /\ pc' = "up"
    /\ before' = mods
    /\ UNCHANGED <<dir, todo, libraries, mods, alive, timer, failed>>

\* The first pong: startEvents finds its Module, or NULL, once for all.
Tick ==
    /\ pc = "up" /\ timer = Unset
    /\ timer' = mods[Timer]
    /\ UNCHANGED <<dir, pc, todo, libraries, mods, alive, history>>

\* Mutant: the list of libraries is kept over a restart.
Gone_KeepList ==
    /\ pc # "down"
    /\ pc' = "down"
    /\ todo' = {} /\ alive' = {} /\ failed' = {} /\ libraries' = libraries
    /\ mods' = [l \in Libs |-> NULL] /\ before' = mods'
    /\ timer' = Unset
    /\ UNCHANGED dir

\* The process ends, and all of it with it.
Gone ==
    /\ pc # "down"
    /\ pc' = "down"
    /\ todo' = {} /\ libraries' = {} /\ alive' = {} /\ failed' = {}
    /\ mods' = [l \in Libs |-> NULL] /\ before' = mods'
    /\ timer' = Unset
    /\ UNCHANGED dir

Operator == Remove \/ Install \/ (\E l \in Libs : Copy(l)) \/ Installed

Load == \E n \in Names : Skip(n) \/ Open(n) \/ OpenFails(n)

Next == Operator \/ Start \/ Scan \/ Load \/ Loaded \/ Tick \/ Gone

Spec == Init /\ [][Next]_vars

-----------------------------------------------------------------------------
(* Properties.                                                             *)

\* No reload takes a handler away, or puts an older version in its place,
\* whatever was installed since the last one, in part or as a whole.
OnlyForward ==
    pc = "load" /\ todo = {} => \A l \in Libs : mods[l] >= before[l]

\* Of the versions of a library a process has loaded the newest one handles
\* its messages, as long as their numbers have equally many digits.
NewestServed ==
    pc = "up" =>
        \A n \in libraries \ failed :
            (\A m \in libraries : m[1] = n[1] => Length(m[2]) = Length(n[2]))
                => mods[n[1]] >= n[2]

\* The Module startEvents has kept since the first pong is still allocated,
\* however often it was replaced in the Registry.
TimerValid == timer \in Versions => <<Timer, timer>> \in alive
=============================================================================
