----------------------------- MODULE MCSessions -----------------------------
(* Small instances of Sessions for TLC.                                    *)
EXTENDS Sessions, TLC

\* Sockets are told apart only by their links, and so are players.
Symmetry == Permutations(Sockets) \cup Permutations(Players)

NoPastEnd == {FALSE}
AnyPastEnd == {TRUE, FALSE}
=============================================================================
