------------------------------ MODULE Upgrade -------------------------------
(***************************************************************************)
(* The supervisor and the registry together: the server process main()     *)
(* forks is the one that loads the libraries, it may die at any point of   *)
(* its load, and what it has loaded ends with it.  The operator installs   *)
(* libraries and sends signals at any time, in any order.                  *)
(***************************************************************************)
EXTENDS Supervisor, Naturals

CONSTANTS Libs, Timer, First, Last      \* those of Registry

ASSUME Sources == Timer \in Libs
ASSUME Numbers == First \in 1..999 /\ Last \in First..999

VARIABLES files, version, copying, pc, todo, libraries, mods, alive, timer,
          failed, before

R == INSTANCE Registry

registry == <<files, version, copying, pc, todo, libraries, mods, alive, timer,
              failed, before>>
all      == <<parent, installed, child, inherited, kill_all, restart_all, reload_all,
              files, version, copying, pc, todo, libraries, mods, alive, timer,
              failed, before>>

UpgradeTypeOK ==
    /\ TypeOK
    /\ R!TypeOK
    /\ pc = "down" <=> ~Running

UpgradeInit == Init /\ R!Init

\* The parent; a new child is a new process of the registry.
Parent ==
    /\ Main
    /\ IF parent' = "install" /\ parent = "fork" THEN R!Start ELSE UNCHANGED registry

\* The child: booting, it loads and is then in its loop; serving, it loads
\* again on a SIGHUP of its own.
Child ==
    \/ child \in {"booting", "serving"} /\ (R!Scan \/ R!Load) /\ UNCHANGED vars
    \/ Boot /\ R!Loaded
    \/ child = "serving" /\ (R!Loaded \/ R!Tick) /\ UNCHANGED vars

\* Signals, and deaths.
Signals ==
    /\ Unhandled \/ Term \/ Int \/ Hup \/ Die
    /\ IF Running /\ child' = "dead" THEN R!Gone ELSE UNCHANGED registry

UpgradeNext ==
    \/ Parent \/ Child \/ Signals
    \/ R!Operator /\ UNCHANGED vars

\* The parent is scheduled.  Of the server nothing is assumed: what depends on
\* its dying or coming up says so.
UpgradeSpec == UpgradeInit /\ [][UpgradeNext]_all /\ WF_all(Parent)

-----------------------------------------------------------------------------
(* Properties; those of Supervisor are the same here.                      *)

\* No server outlives a parent that ended on request, and both parts keep
\* their types.
UpgradeOK == UpgradeTypeOK /\ NoOrphan

\* What a reload does to the handlers of a server (Registry).
OnlyForward  == R!OnlyForward
NewestServed == R!NewestServed
TimerValid   == R!TimerValid

\* A library that is wholly installed is opened in the end, also if a server
\* has come upon it half copied and will not try it again: by a server after
\* it, if servers keep dying, and keep coming up.
OpenedAfterRestart ==
    []<>(child = "dead") /\ []<>(child = "serving") =>
        \A n \in Libs \X (First..Last) :
            files[n] = "whole" ~> n \in alive \/ files[n] # "whole"
=============================================================================
