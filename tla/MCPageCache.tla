---------------------------- MODULE MCPageCache ----------------------------
(***************************************************************************)
(* PageCache for TLC: one article, a few writes, the second of them a text *)
(* that rendering changes.                                                 *)
(***************************************************************************)
EXTENDS PageCache

OneOrTwo == {1, 2}
Second == {2}
=============================================================================
