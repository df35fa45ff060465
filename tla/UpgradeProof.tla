----------------------------- MODULE UpgradeProof -----------------------------
(***************************************************************************)
(* What the supervisor and the registry promise together, for any set of   *)
(* libraries and any versions of up to three digits.                       *)
(*                                                                         *)
(* Each step of the composition is a step of its parts (PartsStep).  For   *)
(* the supervisor the argument is that it looks at its flags only when     *)
(* its child is reaped.  For the registry it is an order in time: what is  *)
(* installed has the version of the day, so a name that was not there when *)
(* the directory was read is newer than all that was (LaterIsNewer), and   *)
(* among those read at once the map's order decides (InOrder).             *)
(***************************************************************************)
EXTENDS Upgrade, TLAPS

\* The parent forks, and looks at its flags, when there is no child.
SupervisorInv ==
    /\ TypeOK
    /\ parent = "fork" => child \in {"none", "reaped"}
    /\ parent \in {"check", "exited"} => child = "reaped"

\* Names that were tried, or are about to be.
Seen == libraries \cup todo

\* No name is ahead of the version that is being installed.
VersionsOK ==
    /\ copying => version <= Last
    /\ \A n \in R!Names : files[n] # "none" => n[2] <= version
    /\ \A n \in Seen : n[2] <= version

\* A name that has come since the directory was read is newer than what was read.
LaterIsNewer ==
    \A n \in R!Names \ Seen : files[n] # "none" =>
        \A m \in Seen : m[1] = n[1] => m[2] < n[2]

\* Of the names to be tried each is newer than the handler there was, and than
\* all of as many digits that were tried before it.
InOrder ==
    \A n \in todo \ libraries :
        /\ before[n[1]] < n[2]
        /\ \A m \in libraries :
              m[1] = n[1] /\ R!Length(m[2]) = R!Length(n[2]) => m[2] < n[2]

\* The handlers are of libraries that were tried, and are allocated.
HandlersOK ==
    \A l \in Libs :
        /\ mods[l] # R!NULL => <<l, mods[l]>> \in libraries \cap alive
        /\ before[l] # R!NULL => <<l, before[l]>> \in libraries
        /\ mods[l] >= before[l]

\* Of names with as many digits the newest that was opened is the handler.
NewestOpened ==
    \A n \in libraries \ failed :
        (\A m \in libraries : m[1] = n[1] => R!Length(m[2]) = R!Length(n[2]))
            => mods[n[1]] >= n[2]

RegistryInv ==
    /\ R!TypeOK
    /\ VersionsOK /\ LaterIsNewer /\ InOrder /\ HandlersOK /\ NewestOpened
    /\ TimerValid
    /\ pc # "load" => todo = {} /\ before = mods

IInv ==
    /\ SupervisorInv
    /\ RegistryInv
    /\ pc = "down" <=> ~Running

-----------------------------------------------------------------------------
(* The composition.                                                        *)

\* Every step of the composition is a step, or none, of each of its parts.
LEMMA PartsStep ==
    ASSUME UpgradeNext
    PROVE  [Next]_vars /\ [R!Next]_(R!vars)
<1>1. UNCHANGED registry => UNCHANGED R!vars
  BY DEF registry, R!vars, R!dir, R!process, R!history
<1>2. CASE Parent
  BY <1>1, <1>2, Zenon DEF Parent, Next, R!Next
<1>3. CASE Child
  BY <1>3, Zenon DEF Child, Next, R!Next
<1>4. CASE Signals
  BY <1>1, <1>4, Zenon DEF Signals, Next, R!Next
<1>5. CASE R!Operator /\ UNCHANGED vars
  BY <1>5, Zenon DEF R!Next
<1> QED
  BY <1>2, <1>3, <1>4, <1>5, Zenon DEF UpgradeNext

\* The composition implements its parts: the supervisor does with a child that
\* loads libraries what it does alone, and the registry in a process that dies
\* under it what it does alone.
THEOREM PartsAreImplemented == UpgradeSpec => Spec /\ R!Spec
<1>1. UpgradeInit => Init /\ R!Init
  BY DEF UpgradeInit
<1>2. [UpgradeNext]_all => [Next]_vars /\ [R!Next]_(R!vars)
  <2>1. ASSUME UNCHANGED all
        PROVE  UNCHANGED vars /\ UNCHANGED R!vars
    BY <2>1 DEF all, vars, flags, R!vars, R!dir, R!process, R!history
  <2> QED
    BY <2>1, PartsStep
<1> QED
  BY <1>1, <1>2, PTL DEF UpgradeSpec, Spec, R!Spec

-----------------------------------------------------------------------------
(* The supervisor.                                                         *)

\* Each step of the parent, of its child and of the signals keeps SupervisorInv.
LEMMA SupervisorStep ==
    ASSUME SupervisorInv, [Next]_vars
    PROVE  SupervisorInv'
<1> USE DEF SupervisorInv
<1>1. installed' \in BOOLEAN /\ inherited' \in BOOLEAN
  BY Zenon DEF TypeOK, Next, Main, Fork, Install, WaitReturns, WaitFails, Check, Unhandled, Term,
        Int, Hup, Boot, Die, vars
<1>2. kill_all' \in BOOLEAN /\ restart_all' \in BOOLEAN /\ reload_all' \in BOOLEAN
  BY Zenon DEF TypeOK, Next, Main, Fork, Install, WaitReturns, WaitFails, Check, Unhandled, Term,
        Int, Hup, Boot, Die, vars, flags
<1>3. /\ parent' \in {"fork", "install", "wait", "check", "exited", "failed", "killed"}
      /\ child' \in {"none", "booting", "serving", "quitting", "dead", "reaped"}
      /\ parent' = "fork" => child' \in {"none", "reaped"}
      /\ parent' \in {"check", "exited"} => child' = "reaped"
  BY DEF TypeOK, Next, Main, Fork, Install, WaitReturns, WaitFails, Check, Unhandled, Term,
         Int, Interrupted, Hup, Boot, Die, Running, Ended, vars
<1> QED
  BY <1>1, <1>2, <1>3 DEF TypeOK

-----------------------------------------------------------------------------
(* The registry.                                                           *)

\* Of two versions with as many digits the one that does not come after the
\* other in a map of strings is not the larger one.
LEMMA SameDigits ==
    ASSUME NEW v \in R!Versions, NEW w \in R!Versions,
           R!Length(v) = R!Length(w), ~R!Before(w, v)
    PROVE  v <= w
<1>1. v \in Nat /\ w \in Nat
  BY Numbers DEF R!Versions
<1>2. R!Padded(v) <= R!Padded(w)
  <2>1. R!Padded(v) \in Nat /\ R!Padded(w) \in Nat
    BY <1>1 DEF R!Padded
  <2> QED
    BY <2>1 DEF R!Before
<1>3. CASE v < 10
  BY <1>1, <1>2, <1>3 DEF R!Length, R!Padded
<1>4. CASE v >= 10 /\ v < 100
  BY <1>1, <1>2, <1>4 DEF R!Length, R!Padded
<1>5. CASE v >= 100
  BY <1>1, <1>2, <1>5 DEF R!Length, R!Padded
<1> QED
  BY <1>1, <1>3, <1>4, <1>5

\* The constants as SMT needs them.
LEMMA VersionsAreNumbers ==
    /\ First \in Nat /\ Last \in Nat /\ First <= Last
    /\ \A v \in R!Versions : v \in Nat /\ v > 0
    /\ R!NULL \notin R!Versions /\ R!Unset \notin R!Versions /\ R!NULL # R!Unset
BY Numbers DEF R!Versions, R!NULL, R!Unset

\* An operator's step changes the directory, by names of the version of the day.
LEMMA OperatorStep ==
    ASSUME RegistryInv, R!Operator
    PROVE  RegistryInv'
<1> USE VersionsAreNumbers DEF RegistryInv
<1>1. UNCHANGED <<pc, todo, libraries, mods, alive, timer, failed, before>>
  BY DEF R!Operator, R!Remove, R!Install, R!Copy, R!Installed, R!process, R!history
<1>2. /\ version' \in First..Last + 1 /\ version' >= version
      /\ copying' \in BOOLEAN /\ (copying' => version' <= Last)
  <2>1. \/ copying' = TRUE /\ version' = version /\ version <= Last
        \/ UNCHANGED <<copying, version>>
        \/ copying' = FALSE /\ copying /\ version' = version + 1
    BY DEF R!Operator, R!Remove, R!Install, R!Copy, R!Installed
  <2>2. copying' \in BOOLEAN
    BY <2>1, Zenon DEF R!TypeOK
  <2>3. version \in First..Last + 1 /\ (copying => version <= Last)
    BY DEF R!TypeOK, VersionsOK
  <2> QED
    BY <2>1, <2>2, <2>3
<1>3. /\ files' \in [R!Names -> {"none", "part", "whole"}]
      /\ \A n \in R!Names :
            files'[n] # "none" /\ files[n] = "none" => n[2] = version
  <2>1. CASE R!Remove
    BY <2>1 DEF R!Remove
  <2>2. ASSUME NEW l \in Libs, R!Copy(l)
        PROVE  /\ files' \in [R!Names -> {"none", "part", "whole"}]
               /\ \A n \in R!Names : files'[n] # files[n] => n = <<l, version>>
    BY <2>2 DEF R!Copy, R!TypeOK
  <2>3. CASE R!Install \/ R!Installed
    BY <2>3 DEF R!Install, R!Installed, R!TypeOK
  <2> QED
    BY <2>1, <2>2, <2>3 DEF R!Operator
<1>4. R!TypeOK'
  BY <1>1, <1>2, <1>3 DEF R!TypeOK
<1>5. \A n \in R!Names : n[2] \in Nat
  BY DEF R!Names
<1>6. VersionsOK'
  BY <1>1, <1>2, <1>3, <1>5 DEF VersionsOK, R!TypeOK, Seen
<1>7. LaterIsNewer'
  <2> SUFFICES ASSUME NEW n \in R!Names \ Seen, files'[n] # "none",
                      NEW m \in Seen, m[1] = n[1]
               PROVE  m[2] < n[2]
    BY <1>1 DEF LaterIsNewer, Seen
  <2>1. CASE files[n] # "none"
    BY <2>1 DEF LaterIsNewer
  <2>2. CASE files[n] = "none"
    <3>1. n[2] = version /\ m[2] <= version /\ m \in R!Names
      BY <1>3, <2>2 DEF VersionsOK, R!TypeOK, Seen
    <3>2. m[2] # n[2]
      BY <3>1 DEF R!Names
    <3> QED
      BY <1>5, <3>1, <3>2
  <2> QED
    BY <2>1, <2>2
<1>8. InOrder' /\ HandlersOK' /\ NewestOpened' /\ TimerValid'
  BY <1>1 DEF InOrder, HandlersOK, NewestOpened, TimerValid, R!TimerValid
<1> QED
  BY <1>1, <1>4, <1>6, <1>7, <1>8

\* The directory is read: what is new in it is newer than all that was tried.
LEMMA ScanStep ==
    ASSUME RegistryInv, R!Scan
    PROVE  RegistryInv'
<1> USE VersionsAreNumbers DEF RegistryInv
<1>1. /\ pc' = "load" /\ todo = {} /\ before = mods
      /\ todo' = {n \in R!Names : files[n] # "none"}
      /\ UNCHANGED <<files, version, copying, libraries, mods, alive, timer, failed, before>>
  BY DEF R!Scan, R!dir, R!history
<1>2. R!TypeOK'
  BY <1>1 DEF R!TypeOK
<1>3. VersionsOK' /\ LaterIsNewer'
  BY <1>1 DEF VersionsOK, LaterIsNewer, Seen
<1>4. InOrder'
  <2> SUFFICES ASSUME NEW n \in todo' \ libraries
               PROVE  /\ before[n[1]] < n[2]
                      /\ \A m \in libraries : m[1] = n[1] => m[2] < n[2]
    BY <1>1 DEF InOrder
  <2>1. n \in R!Names \ Seen /\ files[n] # "none"
    BY <1>1 DEF Seen
  <2>2. \A m \in libraries : m[1] = n[1] => m[2] < n[2]
    BY <2>1 DEF LaterIsNewer, Seen
  <2>3. before[n[1]] < n[2]
    <3>1. n[1] \in Libs /\ n[2] \in R!Versions
      BY <2>1 DEF R!Names
    <3>2. CASE before[n[1]] = R!NULL
      BY <3>1, <3>2 DEF R!NULL
    <3>3. CASE before[n[1]] # R!NULL
      BY <2>2, <3>1, <3>3 DEF HandlersOK
    <3> QED
      BY <3>2, <3>3
  <2> QED
    BY <2>2, <2>3
<1>5. HandlersOK' /\ NewestOpened' /\ TimerValid'
  BY <1>1 DEF HandlersOK, NewestOpened, TimerValid, R!TimerValid
<1> QED
  BY <1>1, <1>2, <1>3, <1>4, <1>5

\* The load is over, the timer looks its Module up, the process comes and goes.
LEMMA ProcessStep ==
    ASSUME RegistryInv, R!Start \/ R!Loaded \/ R!Tick \/ R!Gone
    PROVE  RegistryInv'
<1> USE VersionsAreNumbers DEF RegistryInv
<1>1. CASE R!Start
  <2>1. /\ pc' = "boot" /\ pc = "down"
        /\ UNCHANGED <<files, version, copying, todo, libraries, mods, alive, timer, failed, before>>
    BY <1>1 DEF R!Start, R!dir, R!history
  <2> QED
    BY <2>1 DEF R!TypeOK, VersionsOK, Seen, LaterIsNewer, InOrder, HandlersOK,
                NewestOpened, TimerValid, R!TimerValid
<1>2. CASE R!Loaded
  <2>1. /\ pc' = "up" /\ todo = {} /\ before' = mods
        /\ UNCHANGED <<files, version, copying, todo, libraries, mods, alive, timer, failed>>
    BY <1>2 DEF R!Loaded, R!dir
  <2>2. R!TypeOK' /\ VersionsOK' /\ LaterIsNewer' /\ InOrder'
    BY <2>1 DEF R!TypeOK, VersionsOK, Seen, LaterIsNewer, InOrder
  <2>3. HandlersOK'
    <3>1. \A l \in Libs : mods[l] \in Nat
      BY DEF R!TypeOK, R!NULL
    <3> SUFFICES ASSUME NEW l \in Libs
                 PROVE  /\ mods[l] # R!NULL => <<l, mods[l]>> \in libraries \cap alive
                        /\ mods[l] >= mods[l]
      BY <2>1 DEF HandlersOK, R!NULL
    <3>2. mods[l] >= mods[l]
      BY <3>1
    <3>3. mods[l] # R!NULL => <<l, mods[l]>> \in libraries \cap alive
      BY DEF HandlersOK
    <3> QED
      BY <3>2, <3>3
  <2>4. NewestOpened' /\ TimerValid'
    BY <2>1 DEF NewestOpened, TimerValid, R!TimerValid
  <2> QED
    BY <2>1, <2>2, <2>3, <2>4
<1>3. CASE R!Tick
  <2>1. /\ timer' = mods[Timer] /\ pc' = pc
        /\ UNCHANGED <<files, version, copying, todo, libraries, mods, alive, failed, before>>
    BY <1>3 DEF R!Tick, R!dir, R!history
  <2>2. R!TypeOK'
    BY <2>1, Sources DEF R!TypeOK
  <2>3. TimerValid'
    BY <2>1, Sources DEF HandlersOK, TimerValid, R!TimerValid
  <2>4. VersionsOK' /\ LaterIsNewer' /\ InOrder' /\ HandlersOK' /\ NewestOpened'
    BY <2>1 DEF VersionsOK, Seen, LaterIsNewer, InOrder, HandlersOK, NewestOpened
  <2> QED
    BY <2>1, <2>2, <2>3, <2>4
<1>4. CASE R!Gone
  <2>1. /\ pc' = "down" /\ timer' = R!Unset
        /\ todo' = {} /\ libraries' = {} /\ alive' = {} /\ failed' = {}
        /\ mods' = [l \in Libs |-> R!NULL] /\ before' = mods'
        /\ UNCHANGED <<files, version, copying>>
    BY <1>4 DEF R!Gone, R!dir
  <2>2. R!TypeOK' /\ TimerValid'
    BY <2>1 DEF R!TypeOK, TimerValid, R!TimerValid
  <2>3. VersionsOK' /\ LaterIsNewer' /\ InOrder'
    BY <2>1 DEF VersionsOK, Seen, LaterIsNewer, InOrder
  <2>4. HandlersOK' /\ NewestOpened'
    BY <2>1 DEF HandlersOK, NewestOpened, R!NULL
  <2> QED
    BY <2>1, <2>2, <2>3, <2>4
<1> QED
  BY <1>1, <1>2, <1>3, <1>4

\* The next name is passed over.
LEMMA SkipStep ==
    ASSUME RegistryInv, NEW n \in R!Names, R!Skip(n)
    PROVE  RegistryInv'
<1> USE VersionsAreNumbers DEF RegistryInv
<1>1. /\ pc = "load" /\ pc' = pc /\ n \in todo /\ n \in libraries
      /\ todo' = todo \ {n}
      /\ UNCHANGED <<files, version, copying, libraries, mods, alive, timer, failed, before>>
  BY DEF R!Skip, R!IsNext, R!check, R!dir, R!history
<1>2. Seen' = Seen
  BY <1>1 DEF Seen
<1>3. R!TypeOK' /\ VersionsOK' /\ LaterIsNewer' /\ InOrder'
  BY <1>1, <1>2 DEF R!TypeOK, VersionsOK, LaterIsNewer, InOrder
<1>4. HandlersOK' /\ NewestOpened' /\ TimerValid'
  BY <1>1 DEF HandlersOK, NewestOpened, TimerValid, R!TimerValid
<1> QED
  BY <1>1, <1>3, <1>4

\* What trying a name, with or without success, does to the order.
LEMMA TriedKeepsOrder ==
    ASSUME RegistryInv, NEW n \in R!Names, R!IsNext(n), n \notin libraries,
           todo' = todo \ {n}, libraries' = libraries \cup {n},
           UNCHANGED <<files, version, copying, before>>
    PROVE  VersionsOK' /\ LaterIsNewer' /\ InOrder'
<1> USE VersionsAreNumbers DEF RegistryInv
<1>1. n \in todo /\ Seen' = Seen
  BY DEF R!IsNext, Seen
<1>2. VersionsOK' /\ LaterIsNewer'
  BY <1>1 DEF VersionsOK, LaterIsNewer
<1>3. InOrder'
  <2> SUFFICES ASSUME NEW k \in todo \ libraries, k # n
               PROVE  /\ before[k[1]] < k[2]
                      /\ \A m \in libraries \cup {n} :
                            m[1] = k[1] /\ R!Length(m[2]) = R!Length(k[2]) => m[2] < k[2]
    BY DEF InOrder
  <2>1. n[1] = k[1] /\ R!Length(n[2]) = R!Length(k[2]) => n[2] < k[2]
    <3> SUFFICES ASSUME n[1] = k[1], R!Length(n[2]) = R!Length(k[2])
                 PROVE  n[2] < k[2]
      OBVIOUS
    <3>1. k \in R!Names
      BY DEF R!TypeOK
    <3>2. n[2] \in R!Versions /\ k[2] \in R!Versions /\ n[2] # k[2]
      BY <3>1 DEF R!Names
    <3>3. ~R!Before(k[2], n[2])
      BY DEF R!IsNext
    <3>4. n[2] <= k[2]
      BY <3>2, <3>3, SameDigits
    <3> QED
      BY <3>2, <3>4
  <2> QED
    BY <2>1 DEF InOrder
<1> QED
  BY <1>2, <1>3

\* The next name is opened: it is newer than the handler it replaces when the
\* load began, and than every name of as many digits.
LEMMA OpenStep ==
    ASSUME RegistryInv, NEW n \in R!Names, R!Open(n)
    PROVE  RegistryInv'
<1> USE VersionsAreNumbers DEF RegistryInv
<1>1. /\ pc = "load" /\ pc' = pc /\ R!IsNext(n) /\ n \in todo /\ n \notin libraries
      /\ todo' = todo \ {n} /\ libraries' = libraries \cup {n}
      /\ mods' = [mods EXCEPT ![n[1]] = n[2]] /\ alive' = alive \cup {n}
      /\ UNCHANGED <<files, version, copying, timer, failed, before>>
  BY DEF R!Open, R!IsNext, R!check, R!associate, R!dir, R!history
<1>2. n[1] \in Libs /\ n[2] \in R!Versions /\ n = <<n[1], n[2]>>
  BY DEF R!Names
<1>3. R!TypeOK'
  BY <1>1, <1>2 DEF R!TypeOK
<1>4. VersionsOK' /\ LaterIsNewer' /\ InOrder'
  BY <1>1, TriedKeepsOrder
<1>5. before[n[1]] < n[2]
  BY <1>1 DEF InOrder
<1>6. HandlersOK'
  <2> SUFFICES ASSUME NEW l \in Libs
               PROVE  /\ mods'[l] # R!NULL => <<l, mods'[l]>> \in libraries' \cap alive'
                      /\ before[l] # R!NULL => <<l, before[l]>> \in libraries'
                      /\ mods'[l] >= before[l]
    BY <1>1 DEF HandlersOK, R!NULL
  <2>1. CASE l = n[1]
    <3>1. mods'[l] = n[2]
      BY <1>1, <2>1 DEF R!TypeOK
    <3>2. mods'[l] >= before[l]
      <4>1. before[l] \in Nat /\ n[2] \in Nat
        BY <1>2 DEF R!TypeOK, R!NULL
      <4> QED
        BY <1>5, <2>1, <3>1, <4>1
    <3>3. <<l, mods'[l]>> \in libraries' \cap alive'
      BY <1>1, <1>2, <2>1, <3>1
    <3>4. before[l] # R!NULL => <<l, before[l]>> \in libraries'
      BY <1>1 DEF HandlersOK
    <3> QED
      BY <3>2, <3>3, <3>4
  <2>2. CASE l # n[1]
    BY <1>1, <2>2 DEF HandlersOK, R!TypeOK
  <2> QED
    BY <2>1, <2>2
<1>7. NewestOpened'
  <2> SUFFICES ASSUME NEW k \in libraries' \ failed,
                      \A m \in libraries' : m[1] = k[1] => R!Length(m[2]) = R!Length(k[2])
               PROVE  mods'[k[1]] >= k[2]
    BY <1>1 DEF NewestOpened
  <2>1. k \in R!Names /\ k[1] \in Libs /\ k[2] \in Nat /\ n[2] \in Nat
    BY <1>1, <1>2 DEF R!TypeOK, R!Names
  <2>2. CASE k[1] = n[1]
    <3>1. mods'[k[1]] = n[2]
      BY <1>1, <1>2, <2>2 DEF R!TypeOK
    <3>2. k # n => k[2] < n[2]
      BY <1>1, <2>2 DEF InOrder
    <3> QED
      BY <2>1, <3>1, <3>2
  <2>3. CASE k[1] # n[1]
    BY <1>1, <2>1, <2>3 DEF NewestOpened, R!TypeOK
  <2> QED
    BY <2>2, <2>3
<1>8. TimerValid'
  BY <1>1 DEF TimerValid, R!TimerValid
<1> QED
  BY <1>1, <1>3, <1>4, <1>6, <1>7, <1>8

\* The next name cannot be opened, and is listed.
LEMMA OpenFailsStep ==
    ASSUME RegistryInv, NEW n \in R!Names, R!OpenFails(n)
    PROVE  RegistryInv'
<1> USE VersionsAreNumbers DEF RegistryInv
<1>1. /\ pc = "load" /\ pc' = pc /\ R!IsNext(n) /\ n \in todo /\ n \notin libraries
      /\ todo' = todo \ {n} /\ libraries' = libraries \cup {n} /\ failed' = failed \cup {n}
      /\ UNCHANGED <<files, version, copying, mods, alive, timer, before>>
  BY DEF R!OpenFails, R!IsNext, R!check, R!dir
<1>2. R!TypeOK'
  BY <1>1 DEF R!TypeOK
<1>3. VersionsOK' /\ LaterIsNewer' /\ InOrder'
  BY <1>1, TriedKeepsOrder
<1>4. HandlersOK' /\ NewestOpened' /\ TimerValid'
  BY <1>1 DEF HandlersOK, NewestOpened, TimerValid, R!TimerValid
<1> QED
  BY <1>1, <1>2, <1>3, <1>4

\* Every step of the registry.
LEMMA RegistryStep ==
    ASSUME RegistryInv, [R!Next]_(R!vars)
    PROVE  RegistryInv'
<1>1. CASE UNCHANGED R!vars
  <2>1. UNCHANGED <<files, version, copying, pc, todo, libraries, mods, alive, timer,
                    failed, before>>
    BY <1>1 DEF R!vars, R!dir, R!process, R!history
  <2> QED
    BY <2>1 DEF RegistryInv, R!TypeOK, VersionsOK, Seen, LaterIsNewer, InOrder, HandlersOK,
                NewestOpened, TimerValid, R!TimerValid
<1>2. CASE R!Operator
  BY <1>2, OperatorStep
<1>3. CASE R!Scan
  BY <1>3, ScanStep
<1>4. CASE R!Start \/ R!Loaded \/ R!Tick \/ R!Gone
  BY <1>4, ProcessStep
<1>5. ASSUME NEW n \in R!Names, R!Skip(n) \/ R!Open(n) \/ R!OpenFails(n)
      PROVE  RegistryInv'
  BY <1>5, SkipStep, OpenStep, OpenFailsStep
<1> QED
  BY <1>1, <1>2, <1>3, <1>4, <1>5, Zenon DEF R!Next, R!Load

-----------------------------------------------------------------------------
(* The theorems.                                                           *)

\* The invariant holds at first.
LEMMA InitIInv == UpgradeInit => IInv
<1> SUFFICES ASSUME UpgradeInit
             PROVE  IInv
  OBVIOUS
<1> USE VersionsAreNumbers DEF UpgradeInit
<1>1. SupervisorInv
  <2>1. TypeOK
    BY Zenon DEF Init, TypeOK
  <2> QED
    BY <2>1 DEF Init, SupervisorInv
<1>2. R!TypeOK
  <2>1. copying \in BOOLEAN
    BY Zenon DEF R!Init
  <2>2. /\ version \in First..Last + 1 /\ pc \in {"down", "boot", "load", "up"}
        /\ files \in [R!Names -> {"none", "part", "whole"}]
        /\ mods \in [Libs -> R!Versions \cup {R!NULL}] /\ before = mods
    BY DEF R!Init
  <2>3. /\ todo \subseteq R!Names /\ libraries \subseteq R!Names /\ alive \subseteq R!Names
        /\ failed \subseteq libraries /\ timer \in R!Versions \cup {R!NULL, R!Unset}
    BY DEF R!Init
  <2> QED
    BY <2>1, <2>2, <2>3 DEF R!TypeOK
<1>3. VersionsOK /\ LaterIsNewer /\ InOrder /\ NewestOpened /\ TimerValid
  BY DEF R!Init, VersionsOK, LaterIsNewer, InOrder, NewestOpened, TimerValid, R!TimerValid, Seen
<1>4. HandlersOK
  BY DEF R!Init, HandlersOK, R!NULL
<1>5. (pc # "load" => todo = {} /\ before = mods) /\ (pc = "down" <=> ~Running)
  BY DEF Init, R!Init, Running
<1> QED
  BY <1>1, <1>2, <1>3, <1>4, <1>5 DEF IInv, RegistryInv

\* The process of the registry is there as long as the supervisor's child.
LEMMA TogetherStep ==
    ASSUME pc = "down" <=> ~Running, TypeOK, R!TypeOK, UpgradeNext
    PROVE  (pc = "down" <=> ~Running)'
<1>1. CASE Parent
  <2>1. CASE parent = "fork" /\ parent' = "install"
    BY <1>1, <2>1 DEF Parent, Main, Fork, Install, WaitReturns, WaitFails, Check, R!Start, Running
  <2>2. CASE ~(parent = "fork" /\ parent' = "install")
    BY <1>1, <2>2 DEF Parent, Main, Fork, Install, WaitReturns, WaitFails, Check, registry, Running
  <2> QED
    BY <2>1, <2>2
<1>2. CASE Child
  <2>1. pc # "down" => pc' # "down"
    BY <1>2 DEF Child, R!Scan, R!Load, R!Skip, R!Open, R!OpenFails, R!Loaded, R!Tick
  <2>2. Running /\ Running'
    BY <1>2 DEF Child, Boot, Running, vars
  <2> QED
    BY <2>1, <2>2
<1>3. CASE Signals
  <2>1. CASE Running /\ child' = "dead"
    BY <1>3, <2>1 DEF Signals, R!Gone, Running
  <2>2. CASE ~(Running /\ child' = "dead")
    BY <1>3, <2>2 DEF Signals, registry, Running, Unhandled, Term, Int, Hup, Die, Interrupted, TypeOK
  <2> QED
    BY <2>1, <2>2
<1>4. CASE R!Operator /\ UNCHANGED vars
  BY <1>4 DEF R!Operator, R!Remove, R!Install, R!Copy, R!Installed, R!process, Running, vars
<1> QED
  BY <1>1, <1>2, <1>3, <1>4 DEF UpgradeNext

\* It is kept by every step.
LEMMA NextIInv == IInv /\ [UpgradeNext]_all => IInv'
<1> SUFFICES ASSUME IInv, [UpgradeNext]_all
             PROVE  IInv'
  OBVIOUS
<1>1. [Next]_vars /\ [R!Next]_(R!vars)
  <2>1. ASSUME UNCHANGED all
        PROVE  UNCHANGED vars /\ UNCHANGED R!vars
    BY <2>1 DEF all, vars, flags, R!vars, R!dir, R!process, R!history
  <2> QED
    BY <2>1, PartsStep
<1>2. SupervisorInv' /\ RegistryInv'
  BY <1>1, SupervisorStep, RegistryStep DEF IInv
<1>3. (pc = "down" <=> ~Running)'
  <2>1. CASE UNCHANGED all
    BY <2>1 DEF IInv, all, Running
  <2>2. CASE UpgradeNext
    BY <2>2, TogetherStep DEF IInv, SupervisorInv, RegistryInv
  <2> QED
    BY <2>1, <2>2
<1> QED
  BY <1>2, <1>3 DEF IInv

\* It implies every property.
LEMMA Implied == IInv => UpgradeOK /\ OnlyForward /\ NewestServed /\ TimerValid
<1> SUFFICES ASSUME IInv
             PROVE  UpgradeOK /\ OnlyForward /\ NewestServed /\ TimerValid
  OBVIOUS
<1>1. UpgradeTypeOK
  BY DEF IInv, SupervisorInv, RegistryInv, UpgradeTypeOK
<1>2. NoOrphan
  BY DEF IInv, SupervisorInv, NoOrphan, Running
<1>3. OnlyForward /\ NewestServed /\ TimerValid
  BY DEF IInv, RegistryInv, HandlersOK, NewestOpened, OnlyForward, NewestServed,
         R!OnlyForward, R!NewestServed
<1> QED
  BY <1>1, <1>2, <1>3 DEF UpgradeOK

\* It holds always.
LEMMA UpgradeInvariant == UpgradeSpec => []IInv
<1> QED
  BY InitIInv, NextIInv, PTL DEF UpgradeSpec

\* A parent that ends on request, through main's flags, leaves no server behind,
\* and a server and its registry live and die together.
THEOREM UpgradeIsOrderly == UpgradeSpec => []UpgradeOK
<1> QED
  BY UpgradeInvariant, Implied, PTL

\* No reload puts an older library's handlers in place of a newer one's,
\* although the libraries are read in the order of a map of strings.
THEOREM ReloadsGoForward == UpgradeSpec => []OnlyForward
<1> QED
  BY UpgradeInvariant, Implied, PTL

\* Of versions with as many digits the newest that was opened serves.
THEOREM NewestIsServed == UpgradeSpec => []NewestServed
<1> QED
  BY UpgradeInvariant, Implied, PTL

\* The Module startEvents keeps in its static is never deleted.
THEOREM TimerStaysValid == UpgradeSpec => []TimerValid
<1> QED
  BY UpgradeInvariant, Implied, PTL
=============================================================================
