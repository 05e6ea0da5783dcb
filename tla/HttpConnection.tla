--------------------------- MODULE HttpConnection ---------------------------
(***************************************************************************)
(* One client connection: the bytes arrive in pieces cut anywhere, readcb  *)
(* takes requests off them as far as they go, queues the complete ones and *)
(* answers the queue when no more lines are there.  An error in one        *)
(* request terminates the connection.                                      *)
(*                                                                         *)
(* The client's bytes are the lines of its requests and the units of their *)
(* bodies, one request after the other; a place among them is a request    *)
(* and a token of it.  Line ends do not matter in a body, for it is taken  *)
(* by its length.                                                          *)
(***************************************************************************)
EXTENDS Integers, SequencesExt

CONSTANTS
  Shapes,       \* the requests clients send: see ShapeAssumption
  MaxRequests   \* bound on the requests of a connection

\* A request starts with a good line, a malformed one, one that has no space after the
\* path ("endless") or none before an empty line; its body has a length that is accepted or
\* is too long, and the format its Content-Type says ("other" when it has none; an "unnamed"
\* one has a part without disposition).  Without a length it has none: what follows its
\* empty line is the next request.
Shape == [start : {"line", "malformed", "endless", "blank"},
          length : {"none", "fits", "oversized"},
          body : Nat, format : {"form", "multipart", "unnamed", "other"}]
ASSUME ShapeAssumption ==
  Shapes \subseteq {s \in Shape : s.length = "none" => s.body = 0}
ASSUME BoundAssumption == MaxRequests \in Nat

VARIABLES
  script,    \* the requests the client sends, in order
  arrived,   \* the place before which everything has arrived
  rd,        \* the place before which everything was taken from the input buffer
  parser,    \* session->parser
  requests,  \* session->requests: complete requests, with the tokens of their bodies
  pc,        \* where readcb is: "wait" between two calls of it
  closed,    \* session->closed
  freed,     \* the session is freed
  answers,   \* history: what was sent to the client
  frees      \* history: how often each request was given to req_free

vars == <<script, arrived, rd, parser, requests, pc, closed, freed, answers, frees>>

Place(i, t) == [req |-> i, tok |-> t]
Lines(s) == IF s.start # "line" THEN <<s.start>>
            ELSE IF s.length = "none" THEN <<"line", "header", "blank">>
            ELSE <<"line", "header", s.length, "blank">>
Size(s) == Len(Lines(s)) + (IF s.start = "line" THEN s.body ELSE 0)
End == Place(Len(script) + 1, 1)
Stream ==
  {End} \cup UNION {{Place(i, t) : t \in 1..Size(script[i])} : i \in 1..Len(script)}
Before(p, q) == p.req < q.req \/ (p.req = q.req /\ p.tok < q.tok)
\* n tokens after p: the last one of a request is followed by the next request.
After(p, n) == IF n > 0 /\ p.tok + n > Size(script[p.req]) THEN Place(p.req + 1, 1)
               ELSE Place(p.req, p.tok + n)
Tokens(p, n) == {Place(p.req, t) : t \in p.tok..(p.tok + n - 1)}
BodyOf(i) == Tokens(Place(i, Len(Lines(script[i])) + 1), script[i].body)

Idle == [done |-> TRUE, req_parsed |-> FALSE, has_content |-> FALSE,
         content_parsing |-> FALSE, req |-> 0]

\* Mutant: has_content stays set.
NextParserKeepsContent == IF parser.done THEN [Idle EXCEPT !.done = FALSE, !.has_content = parser.has_content] ELSE parser

\* A line after a complete request starts the next one.
NextParser == IF parser.done THEN [Idle EXCEPT !.done = FALSE] ELSE parser

Init ==
  /\ script \in UNION {[1..n -> Shapes] : n \in 1..MaxRequests}
  /\ arrived = Place(1, 1) /\ rd = Place(1, 1)
  /\ parser = Idle /\ requests = <<>>
  /\ pc = "wait" /\ closed = FALSE /\ freed = FALSE
  /\ answers = <<>> /\ frees = [i \in 1..Len(script) |-> 0]

-----------------------------------------------------------------------------
(* The end of a connection.                                                  *)

\* terminate frees the queued requests and the one that is being parsed.
Abandoned(p) ==
  {requests[k].req : k \in 1..Len(requests)}
    \cup (IF ~p.done /\ p.req_parsed THEN {p.req} ELSE {})
Terminate(p) ==
  /\ closed' = TRUE
  /\ frees' = [i \in DOMAIN frees |-> IF i \in Abandoned(p) THEN frees[i] + 1 ELSE frees[i]]

\* respond_error and terminate, then readcb returns; reading is disabled for good.
Fail(p, i) ==
  /\ answers' = Append(answers, [req |-> i, ok |-> FALSE, body |-> {}])
  /\ Terminate(p)
  /\ parser' = p
  /\ pc' = "wait"

\* The client closes, or nothing arrives for TIMEOUT seconds: seen while reading is on.
EventCb ==
  /\ pc = "wait" /\ ~closed /\ ~freed
  /\ Terminate(parser)
  /\ freed' = TRUE
  /\ UNCHANGED <<script, arrived, rd, parser, requests, pc, answers>>

\* The client of a terminated connection is gone before the error reaches it.
WriteError ==
  /\ pc = "wait" /\ closed /\ ~freed
  /\ freed' = TRUE
  /\ UNCHANGED <<script, arrived, rd, parser, requests, pc, closed, answers, frees>>

-----------------------------------------------------------------------------
(* readcb.                                                                   *)

Receive ==
  /\ pc = "wait" /\ ~closed /\ ~freed
  /\ arrived' \in {p \in Stream : Before(arrived, p)}
  /\ pc' = "content"
  /\ UNCHANGED <<script, rd, parser, requests, closed, freed, answers, frees>>

AwaitsContent == ~parser.done /\ parser.content_parsing

\* Mutant: what has arrived of the content is taken for all of it.
ContentThereAnyway == TRUE

ContentThere ==
  arrived.req # rd.req \/ arrived.tok - rd.tok >= script[parser.req].body

NoContent ==
  /\ pc = "content" /\ ~AwaitsContent
  /\ pc' = "lines"
  /\ UNCHANGED <<script, arrived, rd, parser, requests, closed, freed, answers, frees>>

\* readcb returns before it answers anything.
ContentMissing ==
  /\ pc = "content" /\ AwaitsContent /\ ~ContentThere
  /\ pc' = "wait"
  /\ UNCHANGED <<script, arrived, rd, parser, requests, closed, freed, answers, frees>>

TakeContent == rd' = After(rd, script[parser.req].body)

ContentParsed ==
  /\ pc = "content" /\ AwaitsContent /\ ContentThere
  /\ script[parser.req].format # "unnamed"
  /\ TakeContent
  /\ requests' = Append(requests, [req |-> parser.req, 
                                  body |-> Tokens(rd, script[parser.req].body)])
  /\ parser' = [parser EXCEPT !.done = TRUE]
  /\ pc' = "lines"
  /\ UNCHANGED <<script, arrived, closed, freed, answers, frees>>

\* A part of a multipart body has no name.
ContentMalformed ==
  /\ pc = "content" /\ AwaitsContent /\ ContentThere
  /\ script[parser.req].format = "unnamed"
  /\ TakeContent
  /\ Fail(parser, parser.req)
  /\ UNCHANGED <<script, arrived, requests, freed>>

\* evbuffer_readln
Line == LET lines == Lines(script[rd.req])
        IN IF rd.tok <= Len(lines) THEN lines[rd.tok] ELSE "body"
NextLine(what) == pc = "lines" /\ Before(rd, arrived) /\ Line \in what
TakeLine == rd' = After(rd, 1)

RequestLine ==
  /\ NextLine({"line"}) /\ ~NextParser.req_parsed
  /\ TakeLine
  /\ parser' = [NextParser EXCEPT !.req_parsed = TRUE, !.req = rd.req]
  /\ UNCHANGED <<script, arrived, requests, pc, closed, freed, answers, frees>>

\* Anything but a request line here is an error, an empty line, too.
RequestMalformed ==
  /\ NextLine({"malformed", "blank", "header", "fits", "oversized", "body"})
  /\ ~NextParser.req_parsed
  /\ TakeLine
  /\ Fail(NextParser, rd.req)
  /\ UNCHANGED <<script, arrived, requests, freed>>

\* The loop over the path ends at a space or a question mark, and not at the end of the
\* line: readcb stays in it for good, and nothing else is served.
RequestEndless ==
  /\ NextLine({"endless"}) /\ ~NextParser.req_parsed
  /\ TakeLine
  /\ parser' = NextParser
  /\ pc' = "endless"
  /\ UNCHANGED <<script, arrived, requests, closed, freed, answers, frees>>

Header ==
  /\ NextLine({"header", "line", "malformed", "endless", "body"}) /\ NextParser.req_parsed
  /\ TakeLine
  /\ UNCHANGED <<script, arrived, parser, requests, pc, closed, freed, answers, frees>>

ContentLength ==
  /\ NextLine({"fits"}) /\ NextParser.req_parsed
  /\ TakeLine
  /\ parser' = [NextParser EXCEPT !.has_content = TRUE]
  /\ UNCHANGED <<script, arrived, requests, pc, closed, freed, answers, frees>>

ContentOversized ==
  /\ NextLine({"oversized"}) /\ NextParser.req_parsed
  /\ TakeLine
  /\ Fail(NextParser, NextParser.req)
  /\ UNCHANGED <<script, arrived, requests, freed>>

\* Mutant: the request is left for the next time something arrives.
RequestCompleteReturns ==
  /\ NextLine({"blank"}) /\ NextParser.req_parsed /\ ~NextParser.has_content
  /\ TakeLine
  /\ requests' = Append(requests, [req |-> NextParser.req, body |-> {}])
  /\ parser' = [NextParser EXCEPT !.done = TRUE]
  /\ pc' = "wait"
  /\ UNCHANGED <<script, arrived, closed, freed, answers, frees>>

RequestComplete ==
  /\ NextLine({"blank"}) /\ NextParser.req_parsed /\ ~NextParser.has_content
  /\ TakeLine
  /\ requests' = Append(requests, [req |-> NextParser.req, body |-> {}])
  /\ parser' = [NextParser EXCEPT !.done = TRUE]
  /\ UNCHANGED <<script, arrived, pc, closed, freed, answers, frees>>

ContentFollows ==
  /\ NextLine({"blank"}) /\ NextParser.req_parsed /\ NextParser.has_content
  /\ script[NextParser.req].format # "other"
  /\ TakeLine
  /\ parser' = [NextParser EXCEPT !.content_parsing = TRUE]
  /\ pc' = "content"
  /\ UNCHANGED <<script, arrived, requests, closed, freed, answers, frees>>

ContentUnsupported ==
  /\ NextLine({"blank"}) /\ NextParser.req_parsed /\ NextParser.has_content
  /\ script[NextParser.req].format = "other"
  /\ TakeLine
  /\ Fail(NextParser, NextParser.req)
  /\ UNCHANGED <<script, arrived, requests, freed>>

NoMoreLines ==
  /\ pc = "lines" /\ rd = arrived
  /\ pc' = "respond"
  /\ UNCHANGED <<script, arrived, rd, parser, requests, closed, freed, answers, frees>>

Answer(r) == [req |-> r.req, ok |-> TRUE, body |-> r.body]
FreeQueued == frees' = [i \in DOMAIN frees |->
  frees[i] + Cardinality({k \in DOMAIN requests : requests[k].req = i})]

\* Mutant: the last request is answered first.
RespondLastFirst ==
  /\ pc = "respond"
  /\ answers' = answers \o Reverse([k \in 1..Len(requests) |-> Answer(requests[k])])
  /\ FreeQueued /\ requests' = <<>>
  /\ pc' = "wait"
  /\ UNCHANGED <<script, arrived, rd, parser, closed, freed>>

\* Mutant: the queue is not cleared.
RespondKeepQueue ==
  /\ pc = "respond"
  /\ answers' = answers \o [k \in 1..Len(requests) |-> Answer(requests[k])]
  /\ FreeQueued /\ UNCHANGED requests
  /\ pc' = "wait"
  /\ UNCHANGED <<script, arrived, rd, parser, closed, freed>>

\* All queued requests are routed, answered and freed.
Respond ==
  /\ pc = "respond"
  /\ answers' = answers \o [k \in 1..Len(requests) |-> Answer(requests[k])]
  /\ FreeQueued /\ requests' = <<>>
  /\ pc' = "wait"
  /\ UNCHANGED <<script, arrived, rd, parser, closed, freed>>

ReadCb ==
  \/ NoContent \/ ContentMissing \/ ContentParsed \/ ContentMalformed
  \/ RequestLine \/ RequestMalformed \/ RequestEndless
  \/ Header \/ ContentLength \/ ContentOversized
  \/ RequestComplete \/ ContentFollows \/ ContentUnsupported
  \/ NoMoreLines \/ Respond

Next == Receive \/ ReadCb \/ EventCb \/ WriteError
Spec == Init /\ [][Next]_vars
\* A callback that has begun goes on; nothing makes a client send or close.
FairSpec == Spec /\ WF_vars(ReadCb)
-----------------------------------------------------------------------------
(* Properties.                                                               *)

\* Every variable holds a value of its kind, and no more is read than has arrived.
TypeOK ==
  /\ arrived \in Stream /\ rd \in Stream /\ ~Before(arrived, rd)
  /\ parser.req \in 0..Len(script)
  /\ pc \in {"wait", "content", "lines", "respond", "endless"}
  /\ closed \in BOOLEAN /\ freed \in BOOLEAN
  /\ \A k \in 1..Len(requests) : requests[k].req \in 1..Len(script)

\* The n-th answer is that to the n-th request, given for its own body, however the bytes
\* were cut; an error is the last answer.  (The error takes the place of the answers to
\* the requests that were queued before the bad one: these are dropped.)
AnswersInOrder ==
  \A n \in 1..Len(answers) :
    IF answers[n].ok THEN answers[n].req = n /\ answers[n].body = BodyOf(n)
    ELSE n = Len(answers) /\ answers[n].req >= n /\ closed

\* Each request is freed once: when it was answered, or with its connection.
FreedOnce ==
  /\ \A i \in DOMAIN frees : frees[i] <= 1
  /\ closed => \A k \in 1..Len(answers) : answers[k].ok => frees[answers[k].req] = 1
  /\ closed /\ parser.req_parsed => frees[parser.req] = 1

\* A complete request waits for one thing only: the body of a later one.
QueueWaitsForBody ==
  pc = "wait" /\ ~closed /\ requests # <<>> => AwaitsContent

Honest(s) ==
  /\ s.start = "line" /\ s.length # "oversized"
  /\ s.length = "fits" => s.format \in {"form", "multipart"}
AllOk == Len(answers) = Len(script) /\ \A n \in 1..Len(answers) : answers[n].ok

\* A client that sends good requests, as many as it likes and cut as they may be, and
\* stays until they are all there, gets all its answers.
AllAnswered ==
  (\A i \in 1..Len(script) : Honest(script[i])) /\ <>(arrived = End)
    => <>(AllOk \/ freed)
=============================================================================
