# ranchwiki: a TLA+ verification project

ranchwiki is a small wiki server in C: one libevent loop serves HTTP requests, a
second thread reads operator commands from the terminal, and everything the wiki
knows lives in memory-cached file maps (`users`, `articles`, `word`, ...) and in text
files that hold a chain of diffs.  This directory models its core with TLA+, checks
it with TLC and proves most of it with TLAPS.  Source paths below are relative to the
repository's root (`src/router.c` and so on); PROJECT.json maps every definition to its lines.

## 1. Inventory

### Threads and how they meet

* **The event loop** (`readcb`, `route`, the timers).  There is exactly one, so requests never
  interleave with one another.  `readcb` finds the session of the request's cookie, locks its mutex,
  runs `route`, and unlocks the session the connection has *then*.
* **The console** (`util_main`): `rank`, `rankall`, `diff`, `quit`.  It shares the users,
  the sessions and the text files with the loop.
* **Signal handlers**: SIGSEGV and SIGABRT save the file maps and return to the faulting
  instruction; SIGINT breaks the loop.

All mutexes are `mtx_plain`: a thread that locks one twice waits for ever.

### Components

| component | state | operations | what makes it correct | hard because |
|---|---|---|---|---|
| Sessions and login (web.c, router.c, context.c) | `user_sessions` (key -> session), `user_sessions_by_idx` (user -> key), the sessions' mutexes and records | cookie lookup, register, login, logout, `session_auth`, request end | the two maps agree; one session per user; no session freed while in use, none lost; every request ends | two threads, two kinds of lock taken in both orders, sessions freed while a request holds them |
| Ranks (context.c `setrank`) | the user's record, and the copy of its location in his session | `setrank` from the account page and from the console | an administrator's rank is not changed by the web; no profile is rolled back; a session grants the present rank | the record is looked up before the locks |
| Console (main.c) | none of its own | rank, rankall, diff, quit | its commands return | it takes the locks in the other order |
| User directory (router.c) | `user_id`, `user_by_name`, `user_by_email` | register, account, password | names and emails lead to one user | indexes updated one by one |
| Article store (router.c) | `article_id`, `article_by_name`, groups' items | new, upload, edit, rename, delete | names and list agree; groups list exactly their members | several records per request, with error returns in the middle |
| Article locks (context.c) | `article_lock` | `lock_article`, `unlock_article` | every path of a handler gives back what it took | not recursive; error paths |
| Back-links (router.c) | `items` of an article: who links to it | `update_article_refs`, `rerender_articles` | who links to an article is known to it | links to oneself, to groups, to nothing, to renamed articles |
| Contributors | contributors of articles and groups | setcontrib, new, upload | only contributors edit | one more copy of the record |
| Text files (wiki.c) | a header, a text, a chain of diffs | `add_diff`, `read_txt`, `find_changes` | the text read is the last one written | written in pieces, read by the console meanwhile |
| Page cache (context.c) | `cached`: name -> text, users, deleted | `ctx_cache_*`, `ctx_fopen` | a page in use is not freed; no stale page is served | counts, names freed early |
| Word index (router.c) | 64 (article, score) per word record | `update_article_keywords`, `article_search` | search finds what is written | fixed capacity, score 0 as the end |
| HTTP connection (web.c) | parser state, queue of requests | `readcb`, `request_parse`, `parse_content` | each request answered once, in order | pieces of input, pipelining, termination |
| Session expiry (context.c) | last access | `cleanup_sessions` | idle sessions go, used ones stay | a timer next to requests and the console |
| Templates and responses (web.c) | parsed templates | `template_new`, `template_substitute`, `respond_*` | bounds of arguments | indices computed while parsing |
| Persistence (main.c) | the files of the maps | `save_ctx`, `wcache_callback` | a restart finds consistent maps | written table by table, not all of them |
| Container runner (container.c) | a child process and its pipes | run | all output is logged | exit races with output |
| corecommon | vectors, maps, file maps, lock tables | - | - | a submodule that is not in the tree |

PROJECT.json lists them with what is modelled of each, and lists under "hazards" every
place found where something can go wrong that a test would hardly reach.

## 2. The models

### SessionTable

Sessions, login and ranks, run by the two threads `loop` and `util`.

| variable | code |
|---|---|
| `user`, `registered` | the records in `user_fmap`, reached by `user_id`; `user_by_name` |
| `table`, `byIdx` | `user_sessions`, `user_sessions_by_idx` |
| `status`, `owner`, `cache` | a session's memory, `user.index`, and the record its location holds |
| `mutex`, `rw` | each `user_session.lock`; the writer of `user_sessions_by_idx.lock` |
| `pc`, `mine`, `ses`, `target`, `setto`, `snap` | each thread's place and locals (`mine` is `session->user_ses`) |

A step ends where the code takes or gives back a lock or where the other thread could see a
half-done change.  `readcb` is RequestAnonymous/RequestWithCookie, LockSession, a
handler, Done.  `login` is Login, LoginRemoveOld, LoginFreeOld, then `session_auth`: AuthDropMine
(or AuthUseAfterFree, when login has freed the request's own session, or AuthNoMine),
AuthCreate, AuthIndex.  `setrank` is SetrankFind ... SetrankUnwrite for whichever
thread runs it.  A rank is a number, a profile the number of times it was saved.

Abstractions: a key is identified with the session created for it (128 random bytes); a new rank or
profile is stored as a new record, so a location is the record found there (that a freed location
is reused by another record is not modelled); `rankall` is a series of `rank`.  The one handler that writes into a record where it
lies, POST /password (router.c:1472), is left out: it writes back the userdata it has read there, rank included, with another password,
under its session's lock.  Of the web alone nothing changes by that, for nobody else runs in between; what is checked
with the console as well is about sessions and locks, not about records.

### ArticleStore

Articles, groups, files and locks.  Only the loop changes them, one request at a time, so
what is hard is not interleaving but the order of effects, the error returns,
and locks that are not recursive.

| variable | code |
|---|---|
| `list`, `next` | `article_id` and the records in `article_fmap` |
| `byName` | `article_by_name` |
| `file` | the files under `wiki/`: nothing, an image, or a text, which is the set of paths it links to |
| `held`, `leaked` | locked paths of `article_lock`; `leaked` remembers which were left by a finished handler |
| the others | the running handler and its locals |

A path is the sequence of its segments.  Each request runs through the functions it calls:
`article_lock_groups` (LockGroup, GroupsBlocked, GroupsLocked), `article_group_insert`
(in Insert and PutRenamed), `rerender_articles` (Rerender, RerenderGone), `update_article_refs` (SkipRef, AddRef,
RemoveRef), `article_group_remove` (Remove).  `pc = "dead"` is the end of the process: a read of a missing
text, a double free, a use of values never set, each a choice next to the other outcomes it can have.  A text created over the image of a
deleted article (WriteNew) reads the image as a text file: that fails, or the file becomes a text, or stays one that cannot be read.  One
outcome of undefined behaviour is left out: a rename onto a dead path (LockNewPath, router.c:1816-1859) is refused or faults, but does not go
on with a vector of groups that was never set and happens to be one.

Abstractions: permissions and contributors (a refused request changes nothing; UserDirectory has them), the two ordered
lists, the word index, the page cache (PageCache), edit times, HTML.  Back-links are a set (the code keeps a list
and a count).

### WikiTree and ArticleTree

WikiTree is what a user is promised: a map from paths to contents and a set of groups, which change only by what the
request at hand asks for, one whole operation at a time: groups are made where no article is in the way, an article
appears in its groups, a text is written where it was asked, an article moves without being at two paths or at none,
links to it are turned only afterwards, an article is removed.  ArticleTree says how a state of ArticleStore is read as
such a tree (`Tree`, `Dirs`, `Asked`) and states the refinement, `ImplementsTree == Wiki!TreeSpec`.  A new article counts
from when its file is written, a deleted one ends when its record is dead.

### TextFile and PageCache

One article's file as `add_diff` leaves it after every write, with the console's `diff` command reading it without a lock
and the process stopping at any step.

| variable | code |
|---|---|
| `exists`, `header`, `cells` | the file: the offset in its header; texts and diffs by place, each with its link to the diff before it |
| `record`, `saved` | the article's record (none, live or dead) in the tables of the process, and in those of the last write-back |
| `job` | the handler of the loop and the locals of `add_diff` |
| `con` | `util_main`'s diff command: the offset it has read, the text and link found there, whether they were overwritten meanwhile (`torn`), and the diffs |
| `page`, `stale` (PageCache) | the entry of `ctx->cached`; whether a rerendering has rewritten the text since |
| `log`, `spoiled` | history: the texts written since the file was last damaged; whether it is damaged now |

A text is the number of the write it came with, and `Rendered` of it what `render_article` leaves of it: it escapes the text it is given in place
(router.c:115) and turns its code blocks into tags (289-305), which changes the texts in `Marked`.  Edit and delete render the old text for its links before they compare it, so the
diff they record starts from the rendered text: when the old one is marked, the diff is not one of the text that the file held, and does not apply to it.  New
and rerender compare the text itself.  A rerendering rewrites the texts of dead articles, too.

`read_txt` is not one step: link, length and text come in several `fread`s through a buffer, next to a handler that puts a diff over the same place.  DiffText reads
the link, DiffRest the rest: the text as it was, or, when it has been overwritten in between, the old text, a mixture (`Garbage`) or the zeros of a diff, with the old
link or none.  DiffLost is a link that was itself torn, or no link; what the command then reads and shows can be anything, and the model only lets it end.  A
single read or write by the system is taken to be atomic.  So is the whole of `read_txt` in a handler, for only handlers write; that
the console empties the file meanwhile (DiffCreate) is modelled.

Reading what is not there follows the code: a hole reads as zeros, a diff
where a text should be as the empty text, nothing at all as what uninitialised variables make of it (`Garbage`).
The cache of one page needs no count of readers, for each request takes and gives back what it reads.  PageCache EXTENDS
TextFile and composes its steps with what each does to the page.

### FindChanges

`find_changes` with its four loops, `skipline`, `skipline_i` and `search_line`, over texts of letters, CR and LF.  It has one
action per branch of the loop; `Made` is what a reader of the history makes of the old text: at each place what is added there, and then the next
character, if it is not deleted.

### HttpConnection

One connection: `readcb` with `session->parser` and `session->requests`, `parse_content`, `terminate` and `eventcb`.  The
client's bytes are a stream of lines and units of bodies; `Receive` lets any number of them arrive, so that a
request is cut anywhere and several come at once.  The loop of lines is one action per branch.  What the bytes of a
line say is abstracted to its kind, a partial line to one that has not arrived.  The loop over a path's segments
(web.c:704-727) ends at a space or a question mark and not at the end of the line: on a request line without either it goes on for ever,
and RequestEndless leaves `readcb` there, with the only event loop.  That `evbuffer_remove` fails (web.c:796-800) is left out: what it is to remove has been counted before.

### UserDirectory

The users' records with `user_by_name` and `user_by_email`, and the contributors in the records of articles and groups.  Each
request is one action, with all checks and effects of its handler.  `Above` names the group right above a path; the path of the secret
group itself has none (router.c:722-724).  Whether the second insertion of a name at
registration (router.c:1168) replaces the first or stands beside it is left open (`second`).  Ranks change by the console only.

The modules have named ASSUMEs for their constants: `ConsoleAssumption` keeps ranks below 255,
for which the console's `setrank` is refused and frees a record twice; the documented ranks are 0 to 5.

### External code

corecommon's maps and file maps are taken as functions: a lookup finds the last
value inserted, `filemap_insert` on an existing key replaces it, removed list indices
are not used again, reading a removed index finds nothing.  Whether `filemap_list_update` refreshes the
caller's location is left open (AccountPut).

## 3. What TLC checks

| run | question | bounds |
|---|---|---|
| `session_safety` | do the two maps and the sessions' memory stay consistent in every interleaving, and are relogin, the lock inversion and a fault the only ways to stop? | 2 users, 3 sessions, 1 console command, ranks 0 and 4, no profile edits; no symmetry, for it would not be sound for liveness |
| `session_web` | are ranks and profiles never rolled back by requests alone? | 2 users, 3 sessions, 2 edits each, ranks 0 and 4; users and sessions symmetric |
| `article_safety` | are groups and back-links right after any requests without renames? | a, a/b, a/c; 6 list indices; 3 links per text |
| `article_moves` | with renames, in and out of the secret group: does the store implement the tree, are listings exact, locks given back, and which requests never end? | secret, secret/b, c, d; 4 indices; 1 link; texts that do not render |
| `pages` | does the file keep its history, do the diffs the console shows hang together, does the cache follow the file? | 3 writes, the second a text that rendering changes, 1 crash, 2 diff commands for 1 or 2 diffs |
| `changes` | is the diff of two texts in order, does it lead from one to the other, and does its search end? | all pairs of texts of up to 3 characters and of up to 3 lines, over two letters, CR and LF |
| `http` | is each request answered in its turn with its own body, and freed once? | 3 requests of 10 kinds, cut anywhere; bodies of 0 to 2 units |
| `users` | do names and emails lead to the right user, and do groups know their authors? | 2 users, 3 names, 3 emails, 3 ranks, 1 article in a group and 1 without; no bound on requests |

Why the bounds are enough for what they are for: three sessions allow a session of each of two users and a
relogin (every freed session stays distinguishable); a second console command can only meet a state that the theorems of
section 4, which have no bounds, cover.  The paths are the least in which a group loses one member, its last
member, comes back, is refused because an article is in its place, and is reached by links from inside and outside.
Root always takes one list index, so six allow every path to exist and to be created again once or twice.
An instance with a fourth path beside these (5 indices, 2 links) was run while writing the model and agreed.
`secret/b` is inside the secret group, `c` and `d` are outside, so renames go in, out and past it, and a text that is linked
to can be edited after the one that links to it has moved; the root's, the two articles' and the moved one's are four indices.
In `pages` the third write follows a first that was cut off and a second that repaired it, or two that made a chain of two diffs, which the console
can be reading, the newest of them starting from a rendered text; the second command can meet a file the first has made.  In `changes` three lines let a line be kept, moved, dropped and
doubled.  In `http` a third request can be queued, be parsed or not have arrived while the second waits for its body or
is an error.  In `users` two users suffice because each property relates two: with three emails one can be registered, changed away
and taken by the other, and its entry removed by either; an article moves into a group and out of any.
Deadlock is not checked except in `users`: the other systems really stop (a self-deadlock, a fault, a freed connection, a finished diff, an
exhausted bound), and which stops exist is the subject of `LoopAnswers`, `ConsoleReturns`, `RequestsEnd`, `Terminates` and `AllAnswered`.

### The properties

*SessionTable.*  `IndexAgrees` is what `uses_from_idx` relies on when it follows a lookup unchecked;
`OneSessionPerUser`, `NoOrphanSession` and `SetrankSessionLive` say that emptying
the maps in different orders and freeing sessions under different locks never loses, doubles or
frees a session in use.  `SessionGrantsRank`, `WebKeepsAdmins` and `ProfileKept` relate the
session's location to the record; they hold of the web alone, and fail with a console command (below).
`LoopAnswers` and `ConsoleReturns` say that the three situations of `Hung` are the only ones in which a thread never goes on.

*ArticleStore.*  `NamesMatch` relates index and list both ways, `ListingExact` and `AboveAreGroups` the
groups and what is in them, `GroupsStay` that no article takes a group's path, `TextHasFile` records and files,
`BacklinksKnown` files and back-links, `LocksReleased` the locks and the end of requests.
`RequestsEnd` lists in `Stuck` the requests that never end, and `ImplementsTree` is the refinement.

*TextFile, PageCache.*  `HistoryIntact` says what is left of a file after any stop: the text is the last one
written, and the chain leads to every text since the damage, in order, each diff starting from the text before it or from what rendering made of that; without damage,
all of them.  `ConsoleCoherent` says that the diffs shown by a reader without a lock hang together, and lead to the text shown
unless that was overwritten while it was read; of a torn link it says nothing.  `FatalOnlyAfterFault` bounds what a stop or the console's emptying of a
file costs: a handler finds a missing text, or none at all, only when that has damaged the file, which takes a stop
between the diff and the header, or left a record whose first text was never written.
`CacheFresh` relates page and file: only a rerendering makes a page stale (router.c:686), which is what the code does.

*FindChanges.*  `ChangesInOrder`: a diff can be read from its front, never adds twice at one place, keeps something between two
deletions, and deletes what is in the old text.  `RebuildsLines`: for any two texts the diff rebuilds the lines of the new one; `ExactOnRegular`: exactly, when all lines are
ended and none is empty.  An empty line or a missing last break may be lost in the history (wiki.c:48, 173); the
current text, which is stored whole, is not concerned.  `Terminates`: the search always ends.

*HttpConnection.*  `AnswersInOrder` matches the n-th answer to the n-th request and its body; an error is the last answer and takes the place of those
that were queued.  `FreedOnce` follows each request through queue, parser and termination.  `QueueWaitsForBody` is the one
reason for which a complete request is not answered yet, and `AllAnswered` says that good requests all are in the end.

*UserDirectory.*  `NameFindsUser`: logins, ranks and grants by name reach the one who bears it, however names were changed and reused.
`EmailIndexTrue`: the entries that exist are true; it does not say that an email has one owner, which the code
does not provide (an email entered at registration is never indexed).  `GroupsKnowAuthors` relates articles, moves and the contributors of groups.

### Fairness

`FairSpec` of SessionTable is weak fairness of the loop's steps (`Serve`) and of the console's running
command: the scheduler runs both threads.  No request need arrive and no command need be typed.  A mutex may be taken
by the other thread again and again, so `ConsoleReturns` assumes that requests cease to take it.  `FairSpec` of ArticleStore is weak fairness of the
handler that runs, that of FindChanges of its loop, and that of HttpConnection of `ReadCb`: a callback that libevent has called runs on.  Arrival of bytes, the
end of a connection and the client are not fair; `AllAnswered` assumes that everything arrives and allows that the client goes.

### Where code and words part

Four runs end in a violation on purpose; each quotes what it contradicts.

1. `session_relogin`: a login by a user who is logged in locks the session that the request already holds (router.c:1231)
   and the server stops; the comment at router.c:1048 expects to get past it.
2. `session_transaction`: `readcb` unlocks a session it never locked after a login or register
   (web.c:1027), and so may give away the lock the console holds; context.h:57 calls it a "transaction lock".
3. `session_admins`: `setrank` judges a record read before its locks (context.c:385); the
   message at router.c:1313, "You cannot set an admin's permissions.", is not kept to when the console promotes the user in between.
4. `article_refs`: a link to the article itself is not among those left out "to avoid deadlocks" (router.c:516) and deadlocks.

## 4. What is proved

Every safety invariant that a passing run checks is a theorem for every value of the constants that the
named ASSUMEs allow, as are the action properties and the refinement.  Of liveness the part that is not about fairness is proved too: that
a handler which waits is in one of the situations the model lists, and that no step is for nothing.  A run then shows the same on a small instance, and that the
property is not vacuous there.  Almost no property is inductive; what has to be added is the explanation of why
the code keeps it, and this section gives it module by module.  These invariants hold under TLC on the instances of section 3 as well
(`PatchInv` with its two kinds of breaks written out).  What a proof says of going on, `CanGoOn` and its like, is stated without ENABLED; compared with
ENABLED as an invariant of these instances, TLC finds no difference.

### SessionTableProofs

For every set of users and sessions, every set of ranks below 255 and any bounds: `TypeCorrect`, `IndexAlwaysAgrees`, `SessionsAreUnique`,
`SetrankNeverUsesFreed`, `NoSessionIsLost`.  The inductive invariant is
`IInv == TypeOK /\ Parts`, and `Parts` adds to `IndexAgrees` and `NoOrphanSession`:

* `LockInv`: a thread that is between SetrankFind and SetrankUnwrite is the writer of by_idx; the console never reaches the refusal.
  This is why the loop cannot take a session out of the maps while `setrank` works on it.
* `TableInv`: a session in the table is live and is its owner's entry in `byIdx`, except the one
  that `session_auth` has created and not yet indexed.  This gives uniqueness.
* `UsingInv`: the session a thread's `setrank` found is the target's entry in `byIdx`.
* `LoginInv`: a login's user is registered and, from LoginRemoveOld until AuthIndex, has no entry in `byIdx`; the session
  login has taken out is not in the table; users not registered have no session.
* `MineInv`: the session a request came with is in the table until login, logout or `session_auth` drops it.

`ConsoleNeverRefused` uses `ConsoleAssumption`: the console's setrank is never refused, so its refusal branch, which gives `rw` back
before the session, is the loop's alone.

`SessionsGrantRanks`, `AdminsAreKept` and `ProfilesAreKept` are about the web alone: their hypothesis `[](cmds = 0)` says that no command is typed,
which is how `session_web` is bounded, and without which `session_admins` shows the second to fail.
`WebInv` adds that a record which was read is still the user's when it is used, and that only
between SetrankPut and SetrankSave the session lags behind.

`NothingElseHangs`: a thread that waits, waits for the other one, and that one can go on, but in the situations of `Hung`.  `WriterInv` says that only a thread inside
`setrank` has by_idx, `MutexInv` and `HandInv` whose session a thread has locked: so the loop waits for a console that is between two locks of its own, or the console for a loop
that is not waiting for by_idx, and `LockInversion` is the one way round.  `NoHandlerTurnsBack`: every step brings its handler nearer to its end (`Ahead`), and
none of the other thread's brings it back.  Both hold with the console.  What `LoopAnswers` and `ConsoleReturns` add is that a thread which can go on does,
and that a lock which is free again and again is got.

### UserDirectoryProofs

`TypeCorrect`, `NamesFindUsers`, `EmailsLeadHome`, `AuthorsAreKnown`, for any users, names, emails, ranks, articles and groups.  `AuthorsAreKnown` is about the articles that have
a group above them.  Each is inductive with the types; the steps are those where an index is changed after the record or not at all.

### ArticleStoreProofs, ArticleItemsProofs, ArticleTreeProofs

For any finite set of paths closed under prefixes (`PathsAssumption`), any number of indices and links, with and without renames and texts
that do not render.  ArticleStoreProofs proves `TypeCorrect`, `NamesAlwaysMatch`, `AllCanBeReached`, `GroupsNeverGo`, `AllIsReleased` and
`TextsHaveFiles` from one `IInv`:

* `ControlInv`: what each label says of the request and its locals; `ArtInv`: what the handler knows of its article from one step to the next, which is
  what makes it safe to use the location it has read before.
* `GroupsInv`: the groups found so far are those the index has, and are still groups; it holds since they are locked, `HoldsInv`.
* `ReleaseInv`: nothing else is held, so that giving back those leaves nothing, but for the groups of a rename whose text does not render.
* `NextInv`, `RoomInv`: indices not yet allocated are not used, and the bound on indices, which is checked when a
  request begins, leaves room for all it may allocate.  This is what makes the bound sound.
* `ContentsInv`, `FileInv`: only the paths of articles have contents; an article has its file, but for a new one before it is written.
* `AboveInv`, `RemovalInv`: the paths above an article are groups, those of what is being removed included.

ArticleItemsProofs extends it.  `ListingsAreExact` needs `ListingInv`, which says at every step that a group lists its members and, while an
article is taken out, the one that is `Late`; and `ParentInv`, which carries a group that becomes empty or comes back up to the next one, at any depth.
`BacklinksAreKnown` has the hypothesis `[](newPath = path)`: no request renames.  (A renamed
text gets a new index, and what it links to still knows it by the old one.)
`NothingRenamed` shows that a store without renames, as in `article_safety`, has it.
Its invariants are `TextsKnown`, that the targets of every text but the one in hand know of it, and `HandInv`, that of the one
in hand what is not yet registered is still in `adds`, and that a new article takes over the back-links of the path.

`HandlersImplementTree` is the refinement: each step of a handler is a step of WikiTree or none.  `TreeInv` adds that a file
holds contents, and that an edit which goes on can read its text.

`NothingElseWaits`: while a request is at work, the next lock it needs is free, but in the situations of `Stuck`.  By `ReleaseInv` only the request's own locks are held, so
it is about one handler and itself: the groups above a path are different from it and from each other; an article that is rendered again must not be of a path
that is being entered or deleted.  For that no article may be of the path of one that is entered as linking to it (`ApartInv`), though indices
outlive their articles, dead records keep what linked to them, and a rename takes back-links to a new path; `Tame` names the steps that cannot disturb it,
`OwnEnters` and `OwnAddRef` are the others.  A rename onto the path of what links to it is where it fails, and that one is stuck.
`RequestsMoveOn`: every step takes a request to a later `Stage` or leaves less at the one it is at (`Left`: groups, articles, links).  What `RequestsEnd` adds is fairness.

### HttpConnectionProofs

`TypeCorrect`, `AnswersAreInOrder`, `RequestsAreFreedOnce`, `QueueIsServed`, for any shapes of requests (a body has a length: `ShapeAssumption`), any number of them and any
way of cutting the bytes.  `OpenInv` says where the parser is in the stream, given how many requests it has taken off (`Turn`): at the first line
of the next one (`BetweenInv`), at one of its lines (`InLinesInv`), at its body (`AtContentInv`).  From this all else is
determined: what is answered, what is queued, what is freed.  `ClosedInv` keeps what held when the connection was terminated.

`GoodClientsAreServed`: when the requests of a client are good, have all arrived and readcb has returned, all are answered, or the client has left.  `RestInv` says that
readcb returns only when it has read all it can, `NoErrorInv` that good requests meet no error.  `CallbacksAdvance`: every step of readcb reads on, or stays and is nearer to
its return (`Rank`); and one place alone can hold it for good, the line of the first request that is neither answered nor queued, when that has no space after its path
(`EndlessAtLine`, from `EndlessInv`): then it and the requests queued before it have no answer.  That elsewhere a next step is possible would need ENABLED
and is not stated; `AllAnswered` shows it of good clients.  What `AllAnswered` adds is that the callback runs on, and that everything arrives.

### PageCacheProofs

About TextFile and PageCache, for any number of writes, stops and commands: `TypeCorrect`, `HistoryIsIntact`, `ConsoleIsCoherent`, `CacheIsFresh` and `FaultsNeedACause`.

* `TypeInv` says that links only lead back, so that every chain ends; `PlaceInv` that a write needs one more cell.
* `WholeInv`: while the file is not spoiled, the cells below the header tell the log, whatever step `add_diff` is at, each diff going on
  where the one before it ended, up to what rendering changes (`GoesOn`); `SoundInv`: what a
  write has left behind so far, whatever the file was like before.  They give the history.
* `ChainInv` holds of every file, damaged or not: below the header there are diffs that hang together, and nothing lies between the header
  and a handler's place.  `ShowInv` is what the console holds while it reads: it is at or below the header, at what led to what it has read, or at
  something that has been erased since; what it has read first led to the text it shows, unless that was torn.
* `CalmInv`: without a stop and the console the file is never spoiled, its chain goes down to its first cell, and an article that has a record has a text.
* `PageInv`: a page belongs to a living article, and between its handler's steps it is there only when the handler will drop it.

`Chain`, the texts read from the file, is a recursive function; facts about it are proved for the place with the least counterexample.

### FindChangesProofs

For texts of any length over any letters: `TypeCorrect`, `ChangesAreInOrder`, `RegularTextsAreExact`, `DiffsRebuildLines` and `TurnsAreBounded`.

* `OrderInv`: after a change the next lines are the same (or both texts end), so that before the next change something is kept.
* `PatchInv`: at every turn of the outer loop what has been recorded makes, of what has been read of the old text, what has been read of the new one; during a search, what
  had been.  It needs that both have been read up to the beginning of a line (`Begins`): in a regular text a line there is not empty,
  so `search_line` does not stop early, and equal lines are followed by equal breaks (`RegularLine`).
* `LinesInv` is the same for lines, and needs no regular text.  The lines of a text are its longest runs of letters, so those of `s \o t` are those of
  `s` and then those of `t` where `s` ends with a break or `t` begins with one (`LinesJoin`).  A change that drops an empty line keeps them; what the invariant must add is that whatever is
  made next is put behind a break, or begins with one, also when what is added comes after an old text without a last break.
* `Remaining` counts the characters to be read and the turns between; every step lowers it (`TurnsAreBounded`), so that a diff ends
  within three turns for each character and two more.  `Terminates` follows from this by fairness, which is left to TLC.

`search_line` and the text a diff makes are recursive; `SearchLineIs`, `MadeSame`, `MadeGrows` and `MadeStays` are again proved by the least counterexample (`Least`), which
follows from the well-foundedness of the natural numbers without induction over an operator.

### Only model-checked

* Liveness and ENABLED, outside the prover's reach: `LoopAnswers`, `ConsoleReturns`, `RequestsEnd`, `AllAnswered`, `Terminates`.  Their safety
  halves are proved, as said above: that nothing else stands in the way, and that every step counts.  Fairness is left to TLC.
* The violations of section 3, each of which is a behaviour TLC finds.

## 5. Not modelled

* **Word index and search**: `article_search` has no caller, so nothing observable depends on the index, and no invariant of its slots
  survives its own steps (a removal leaves a zero score in the middle, which hides the slots behind it and lets an article be entered twice).
* **Session expiry**: `cleanup_sessions` takes the cells of the map, which are pointers, for sessions and compares memory past them;
  the effect is not determined by the program.
* **Templates and responses, startup**: sequential formatting and reading of files.
* **Container runner**: clone, pipes and poll; its order is the kernel's.
* **Persistence** beyond one article's record next to its text: which pages of a table reach the disk is decided by corecommon, which is not in
  the tree.
* Of modelled parts: `display_diffs` and `split_dseg` (layout of a diff), the two ordered lists, back-link counts, a rename that moves a text's
  file over the file of a dead article, and a text over an image (both in ArticleStore, not in TextFile), passwords and biographies
(POST /password among them), the text of requests (query strings, percent
  encoding, multipart framing).

## 6. Plan

The plan this project was built along: the sessions and the articles first, since what they share is changed by two threads and by handlers that lock many paths;
then the files under them, the connection above them, the users and the diffs; for each the safety invariants by TLC, then as theorems, the abstract tree and its refinement, and last
the safety half of liveness.  None of it is left open.  What could follow is new ground rather than more of the same:

1. The text of requests (query strings, percent encoding, multipart framing), as operators checked against a reference definition.
2. Word index and session expiry, when the code gives them a meaning (section 5).
3. The rename over a dead article's file in TextFile as well, with ArticleStore and TextFile composed.

## 7. Running

    tlc -workers 2 -config SessionSafety.cfg MCSessionTable
    tlc -workers 2 -config ArticleSafety.cfg MCArticleStore
    tlc -workers 2 -config ArticleMoves.cfg MCArticleStore
    tlc -workers 2 -config Pages.cfg MCPageCache
    tlc -workers 2 -config Changes.cfg MCFindChanges
    tlc -workers 2 -config Http.cfg MCHttpConnection
    tlc -workers 2 -config Users.cfg MCUserDirectory
    for m in SessionTable UserDirectory ArticleStore ArticleItems ArticleTree HttpConnection PageCache FindChanges; do
      tlapm ${m}Proofs.tla
    done

The MC modules give the constants their values.  Operators commented "Mutant" are bugs that the
corresponding lines could have had; putting one in the place of the operator after it must break the property PROJECT.json names.
