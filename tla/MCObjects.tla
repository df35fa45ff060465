------------------------------ MODULE MCObjects ------------------------------
(* A small instance of Objects for TLC.                                     *)
EXTENDS Objects, TLC

\* Processes, and ranges, are told apart only by what they do.
Symmetry == Permutations(Procs) \cup Permutations(Spaces)
=============================================================================
