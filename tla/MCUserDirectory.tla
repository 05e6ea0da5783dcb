-------------------------- MODULE MCUserDirectory --------------------------
(***************************************************************************)
(* UserDirectory for TLC: two users, a text and another place for it, one  *)
(* in a group and one that has none.                                       *)
(***************************************************************************)
EXTENDS UserDirectory, FiniteSets, TLC

CONSTANTS u1, u2, n1, n2, n3, e1, e2, e3, p1, p2, g1

TwoUsers == {u1, u2}
ThreeNames == {n1, n2, n3}
ThreeEmails == {e1, e2, e3}
TwoPaths == {p1, p2}
OneGroup == {g1}
GroupsAbove == p1 :> g1
SomeRanks == {0, 2, 4}
Symmetry == Permutations(TwoUsers) \cup Permutations(ThreeNames) \cup Permutations(ThreeEmails)
=============================================================================
