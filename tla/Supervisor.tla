----------------------------- MODULE Supervisor -----------------------------
(***************************************************************************)
(* main(): the parent process that forks the server, waits for it, and     *)
(* forks it again when it dies.  An operator's signals go to the parent    *)
(* (the CS script signals the pid in the pid file) or, from a terminal, to *)
(* the parent and the child at once.                                       *)
(*                                                                         *)
(* signal() installs BSD handlers in both builds, so waitpid is resumed    *)
(* after a handler: it returns when the child is dead and not before.      *)
(***************************************************************************)
VARIABLES
    parent,        \* where main() is
    installed,     \* the parent's handlers are in place
    child,         \* the process cpid names
    inherited,     \* the child was forked with the parent's handlers in place
    kill_all, restart_all, reload_all

flags == <<kill_all, restart_all, reload_all>>
vars  == <<parent, installed, child, inherited, kill_all, restart_all, reload_all>>

TypeOK ==
    /\ parent \in {"fork",      \* about to fork
                   "install",   \* between fork() and waitpid()
                   "wait",      \* in waitpid
                   "check",     \* waitpid returned the child
                   "exited",    \* exit(0), as a signal asked
                   "failed",    \* exit(1), fork() failed
                   "killed"}    \* by a signal it had no handler for
    /\ child \in {"none",       \* not forked yet
                  "booting",    \* in Server::init
                  "serving",    \* in Server::serve
                  "quitting",   \* in Server::quithandler
                  "dead",       \* a zombie
                  "reaped"}     \* waited for: cpid names no process
    /\ installed \in BOOLEAN /\ inherited \in BOOLEAN
    /\ kill_all \in BOOLEAN /\ restart_all \in BOOLEAN /\ reload_all \in BOOLEAN

Init ==
    /\ parent = "fork"
    /\ installed = FALSE /\ inherited = FALSE
    /\ child = "none"
    /\ kill_all = FALSE /\ restart_all = FALSE /\ reload_all = FALSE

Ended == parent \in {"exited", "failed", "killed"}
Running == child \in {"booting", "serving", "quitting"}

-----------------------------------------------------------------------------
(* The parent.                                                             *)

Fork ==
    /\ parent = "fork"
    /\ \/ /\ parent' = "install"
          /\ child' = "booting"
          /\ inherited' = installed
       \/ parent' = "failed" /\ UNCHANGED <<child, inherited>>
    /\ UNCHANGED <<installed, flags>>

Install ==
    /\ parent = "install"
    /\ installed' = TRUE
    /\ parent' = "wait"
    /\ UNCHANGED <<child, inherited, flags>>

\* Mutant: waitpid also reports a child that is not dead.
WaitReturns_Early ==
    /\ parent = "wait"
    /\ child # "reaped"
    /\ parent' = "check"
    /\ child' = IF child = "dead" THEN "reaped" ELSE child
    /\ UNCHANGED <<installed, inherited, flags>>

\* waitpid returns the dead child.
WaitReturns ==
    /\ parent = "wait"
    /\ child = "dead"
    /\ child' = "reaped"
    /\ parent' = "check"
    /\ UNCHANGED <<installed, inherited, flags>>

\* Mutant: an error of waitpid is waited out like a stopped child.
WaitFails_Again ==
    /\ parent = "wait"
    /\ child = "reaped"
    /\ UNCHANGED vars

\* waitpid fails, there being no such child: fork again.  The SIGQUIT goes to
\* a pid that is nobody's, or somebody else's by now.
WaitFails ==
    /\ parent = "wait"
    /\ child = "reaped"
    /\ parent' = "fork"
    /\ UNCHANGED <<installed, child, inherited, flags>>

\* Mutant: the flag that was acted on is the last to be looked at.
Check_RestartFirst ==
    /\ parent = "check"
    /\ \/ restart_all /\ parent' = "fork" /\ UNCHANGED flags
       \/ /\ ~restart_all /\ kill_all
          /\ parent' = "exited" /\ UNCHANGED flags
       \/ /\ ~restart_all /\ ~kill_all
          /\ parent' = "wait" /\ UNCHANGED flags
    /\ UNCHANGED <<installed, child, inherited>>

\* After waitpid the flags are looked at in this order.  The SIGHUP of a reload
\* goes to the pid just reaped, which no server has.
Check ==
    /\ parent = "check"
    /\ \/ /\ kill_all
          /\ parent' = "exited"
          /\ UNCHANGED flags
       \/ /\ ~kill_all /\ restart_all
          /\ restart_all' = FALSE
          /\ parent' = "fork"
          /\ UNCHANGED <<kill_all, reload_all>>
       \/ /\ ~kill_all /\ ~restart_all /\ reload_all
          /\ reload_all' = FALSE
          /\ parent' = "wait"
          /\ UNCHANGED <<kill_all, restart_all>>
       \/ /\ ~kill_all /\ ~restart_all /\ ~reload_all
          /\ parent' = "wait"
          /\ UNCHANGED flags
    /\ UNCHANGED <<installed, child, inherited>>

-----------------------------------------------------------------------------
(* The signals to the parent, and the child.                               *)

\* A signal finds the parent without its handlers, and ends it.
Unhandled ==
    /\ ~Ended /\ ~installed
    /\ parent' = "killed"
    /\ UNCHANGED <<installed, child, inherited, flags>>

\* What a terminal's INT or QUIT does to the child: its own handler exits,
\* no handler at all ends it, and the parent's handler, which it inherits
\* until the Server is constructed, sets a flag nobody reads.
Interrupted ==
    CASE child = "serving" -> "quitting"
      [] child = "booting" /\ ~inherited -> "dead"
      [] OTHER -> child

Term ==
    /\ ~Ended /\ installed
    /\ kill_all' = TRUE
    /\ child' \in {child, Interrupted}
    /\ UNCHANGED <<parent, installed, inherited, restart_all, reload_all>>

Int ==
    /\ ~Ended /\ installed
    /\ restart_all' = TRUE
    /\ child' \in {child, Interrupted}
    /\ UNCHANGED <<parent, installed, inherited, kill_all, reload_all>>

Hup ==
    /\ ~Ended /\ installed
    /\ reload_all' = TRUE
    /\ UNCHANGED <<parent, installed, child, inherited, kill_all, restart_all>>

\* Server::init succeeds,
Boot ==
    /\ child = "booting"
    /\ child' = "serving"
    /\ UNCHANGED <<parent, installed, inherited, flags>>

\* or exits; the server may crash at any time, and quithandler exits.
Die ==
    /\ Running
    /\ child' = "dead"
    /\ UNCHANGED <<parent, installed, inherited, flags>>

Main == Fork \/ Install \/ WaitReturns \/ WaitFails \/ Check

Next == Main \/ Unhandled \/ Term \/ Int \/ Hup \/ Boot \/ Die

Spec == Init /\ [][Next]_vars

-----------------------------------------------------------------------------
(* Properties.  The temporal ones hold if the parent is scheduled (Upgrade). *)

\* "Wait on child and refork if dies": a child that died is replaced, however
\* signals come in, unless the parent ends.
ReforkIfDies == (child = "dead" /\ ~Ended) ~> (child = "booting" \/ Ended)

\* When the parent ends on request it leaves no server behind.
NoOrphan == parent = "exited" => ~Running

\* "TERM,QUIT signal exit cleanly" and "INT signal kill child and refork" hold
\* as far as this: a request is honoured when the child dies, at the latest
\* when the child that was being forked just then dies, whatever other signals
\* get between; an INT that was overtaken by nothing but deaths costs a refork.
HonouredOnceChildDies ==
    ([]<>(child = "dead" \/ Ended)) =>
        /\ kill_all ~> Ended
        /\ restart_all ~> ~restart_all \/ Ended
=============================================================================
