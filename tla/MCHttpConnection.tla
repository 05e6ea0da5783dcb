-------------------------- MODULE MCHttpConnection --------------------------
(***************************************************************************)
(* HttpConnection for TLC: good requests with and without a body, and one  *)
(* of each kind that is an error.                                          *)
(***************************************************************************)
EXTENDS HttpConnection

Get == [start |-> "line", length |-> "none", body |-> 0, format |-> "other"]
Post == [Get EXCEPT !.length = "fits", !.body = 2, !.format = "form"]
Good == {Get, Post, [Post EXCEPT !.body = 1, !.format = "multipart"],
         [Post EXCEPT !.body = 0]}
Bad == {[Get EXCEPT !.start = "malformed"], [Get EXCEPT !.start = "blank"],
        [Get EXCEPT !.start = "endless"],
        [Get EXCEPT !.length = "oversized"],
        [Post EXCEPT !.format = "other"], [Post EXCEPT !.format = "unnamed"]}
GoodAndBad == Good \cup Bad
=============================================================================
