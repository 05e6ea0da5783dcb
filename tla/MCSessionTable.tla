--------------------------- MODULE MCSessionTable ---------------------------
(***************************************************************************)
(* SessionTable for TLC: its users and sessions are interchangeable.       *)
(***************************************************************************)
EXTENDS SessionTable, TLC

Symmetry == Permutations(Users) \cup Permutations(Sids)
=============================================================================
