--------------------------- MODULE MCArticleStore ---------------------------
(***************************************************************************)
(* ArticleTree for TLC: small sets of paths.                               *)
(***************************************************************************)
EXTENDS ArticleTree

\* A path that may be a group's or an article's, and two articles that it may hold: the
\* group loses one of them, or its last.
NestedPaths == {<<"a">>, <<"a", "b">>, <<"a", "c">>}
\* The secret group, an article inside it and two outside.
SecretPaths == {<<"secret">>, <<"secret", "b">>, <<"c">>, <<"d">>}
=============================================================================
