------------------------------- MODULE MCOutput -------------------------------
(* A small instance of Output for TLC.                                      *)
EXTENDS Output
=============================================================================
