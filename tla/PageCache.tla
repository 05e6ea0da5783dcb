----------------------------- MODULE PageCache -----------------------------
(***************************************************************************)
(* The cache of texts (ctx->cached) in front of the text file: a page is   *)
(* kept after it was read, dropped by its last reader when it is read too  *)
(* rarely, and dropped by an edit or a deletion of the article.  All of    *)
(* it runs in the event loop, one request at a time, so nobody else reads  *)
(* a page while a request drops it.                                        *)
(***************************************************************************)
EXTENDS TextFile

VARIABLES
  page,   \* the cached text
  stale   \* history: the page was rewritten by a rerendering after it was cached

pageVars == <<page, stale>>
vars == <<textVars, pageVars>>

NoPage == -3   \* nothing is cached
Freed == -4    \* an entry is left whose data was freed

Init == TextInit /\ page = NoPage /\ stale = FALSE

DropPage == page' = NoPage /\ stale' = FALSE

\* article_current: the cached page, or the text of the file.
Shown == IF page = NoPage THEN CurrentText ELSE page

\* The edit form and the source of a page: it is read, and ctx_cache_done keeps it or not.
ViewPage ==
  /\ Idle /\ record = "live" /\ Shown # NoText
  /\ \/ page' = Shown /\ UNCHANGED stale
     \/ DropPage
  /\ UNCHANGED textVars

\* setcontrib gives the page back under a name it has freed: when the page is to go, its
\* data does, and its entry only if the name can still be read there.
ViewForContributors ==
  /\ Idle /\ record = "live" /\ Shown # NoText
  /\ \/ page' = Shown /\ UNCHANGED stale
     \/ DropPage
     \/ page' = Freed /\ stale' = FALSE
  /\ UNCHANGED textVars

\* An edit that changes nothing still drops the page.
EditSame ==
  /\ Idle /\ record = "live" /\ CurrentText # NoText
  /\ DropPage
  /\ UNCHANGED textVars

\* Rerendering leaves a page that is not the text any more.
KeepPage ==
  /\ stale' = (stale \/ (job.op = "rerender" /\ page # NoPage))
  /\ UNCHANGED page

Delete == DeleteText /\ DropPage

\* Mutant: an edit leaves the page, too.
FinishKeepsPage == CloseText /\ KeepPage

\* An edit drops the page at its end; a rerendering does not.
Finish ==
  /\ CloseText
  /\ IF job.op = "edit" THEN DropPage ELSE KeepPage

Restart == Crash /\ DropPage

Next ==
  \/ ViewPage \/ ViewForContributors \/ EditSame
  \/ Delete \/ Finish \/ Restart
  \/ (NewText \/ EditText \/ RerenderText \/ ReadMissing \/ AddDiff) /\ UNCHANGED pageVars
  \/ (DiffCommand \/ WriteBack) /\ UNCHANGED pageVars

Spec == Init /\ [][Next]_vars
-----------------------------------------------------------------------------
(* Properties.                                                               *)

TypeOK ==
  /\ TextTypeOK
  /\ page \in Texts \cup {NoPage, Freed} /\ stale \in BOOLEAN

\* Between requests a cached page is the text of the file, through deletion, creation at
\* the same path, crashes and the console's reads; only a rerendering makes it stale.
CacheFresh ==
  Idle /\ page \in Texts /\ ~spoiled /\ ~stale => page = CurrentText
=============================================================================
