------------------------ MODULE HttpConnectionProofs ------------------------
(***************************************************************************)
(* The properties of HttpConnection, for any shapes of requests, any       *)
(* number of them and any way of cutting their bytes.  What is in the      *)
(* answers, in the queue and in the parser follows from how many requests  *)
(* have been taken off the input: OpenInv says how.  ClosedInv keeps what  *)
(* held when the connection was terminated.                                *)
(***************************************************************************)
EXTENDS HttpConnection, FiniteSetTheorems, TLAPS

GoodShape == {s \in Shape : s.length = "none" => s.body = 0}
Spot == [req : Nat, tok : Nat]
Parser == [done : BOOLEAN, req_parsed : BOOLEAN, has_content : BOOLEAN,
           content_parsing : BOOLEAN, req : 0..Len(script)]
TypeInv ==
  /\ script \in Seq(GoodShape)
  /\ arrived \in Stream /\ rd \in Stream /\ ~Before(arrived, rd)
  /\ parser \in Parser
  /\ requests \in Seq([req : 1..Len(script), body : SUBSET Spot])
  /\ answers \in Seq([req : Nat, ok : BOOLEAN, body : SUBSET Spot])
  /\ frees \in [1..Len(script) -> Nat]
  /\ pc \in {"wait", "content", "lines", "respond", "endless"}
  /\ closed \in BOOLEAN /\ freed \in BOOLEAN

\* The requests that are answered or queued, and the place of the next one's body.
Turn == Len(answers) + Len(requests)
ContentAt(i) == After(Place(i, 4), 1)

AnsweredInv ==
  \A n \in 1..Len(answers) : answers[n] = [req |-> n, ok |-> TRUE, body |-> BodyOf(n)]
QueuedInv ==
  \A k \in 1..Len(requests) :
    requests[k] = [req |-> Len(answers) + k, body |-> BodyOf(Len(answers) + k)]
FreesInv == \A i \in 1..Len(script) : frees[i] = IF i <= Len(answers) THEN 1 ELSE 0

\* Between two requests, in the lines of one, and at the body of one.
BetweenInv ==
  parser.done =>
    /\ rd = Place(Turn + 1, 1)
    /\ parser.req_parsed => parser.req = Turn /\ Turn >= 1
InRequestInv ==
  ~parser.done /\ pc # "endless" =>
    /\ parser.req_parsed /\ parser.req = Turn + 1 /\ Turn < Len(script)
    /\ script[Turn + 1].start = "line"
InLinesInv ==
  ~parser.done /\ ~parser.content_parsing /\ pc # "endless" =>
    /\ rd.req = Turn + 1 /\ rd.tok \in 2..Len(Lines(script[Turn + 1]))
    /\ parser.has_content <=> script[Turn + 1].length = "fits" /\ rd.tok = 4
    /\ script[Turn + 1].length = "oversized" => rd.tok < 4
AtContentInv ==
  ~parser.done /\ parser.content_parsing =>
    /\ rd = ContentAt(Turn + 1)
    /\ script[Turn + 1].length = "fits" /\ script[Turn + 1].format # "other"

\* In the loop over a path that does not end: at the request whose turn it is.
EndlessInv ==
  pc = "endless" =>
    /\ ~parser.done /\ ~parser.req_parsed /\ ~parser.content_parsing
    /\ Turn < Len(script) /\ script[Turn + 1].start = "endless"

OpenInv ==
  ~closed =>
    /\ AnsweredInv /\ QueuedInv /\ FreesInv
    /\ BetweenInv /\ InRequestInv /\ InLinesInv /\ AtContentInv /\ EndlessInv
    /\ pc \in {"lines", "respond"} => ~AwaitsContent
    /\ QueueWaitsForBody
ClosedInv == closed => pc = "wait" /\ AnswersInOrder /\ FreedOnce

IInv == TypeInv /\ OpenInv /\ ClosedInv
-----------------------------------------------------------------------------
(* Places.                                                                   *)

\* A request has its lines, and then its body.
LEMMA LinesOf ==
  ASSUME NEW s \in GoodShape
  PROVE  /\ s.start # "line" => Len(Lines(s)) = 1 /\ Lines(s)[1] = s.start /\ Size(s) = 1
         /\ s.start = "line" =>
              /\ Lines(s)[1] = "line" /\ Lines(s)[2] = "header"
              /\ Size(s) = Len(Lines(s)) + s.body
         /\ s.start = "line" /\ s.length = "none" =>
              Len(Lines(s)) = 3 /\ Lines(s)[3] = "blank" /\ Size(s) = 3
         /\ s.start = "line" /\ s.length # "none" =>
              Len(Lines(s)) = 4 /\ Lines(s)[3] = s.length /\ Lines(s)[4] = "blank"
         /\ Len(Lines(s)) \in 1..4 /\ Size(s) \in Nat /\ Size(s) >= Len(Lines(s))
         /\ s.body \in Nat /\ s.start \in {"line", "malformed", "endless", "blank"}
         /\ s.length \in {"none", "fits", "oversized"}
<1>1. CASE s.start # "line"
  BY <1>1 DEF Lines, Size, GoodShape, Shape
<1>2. CASE s.start = "line" /\ s.length = "none"
  BY <1>2 DEF Lines, Size, GoodShape, Shape
<1>3. CASE s.start = "line" /\ s.length # "none"
  BY <1>3 DEF Lines, Size, GoodShape, Shape
<1>. QED
  BY <1>1, <1>2, <1>3

\* The requests of a client are of the shapes that clients send.
LEMMA GoodScript ==
  ASSUME TypeInv
  PROVE  /\ Len(script) \in Nat
         /\ \A i \in 1..Len(script) : script[i] \in GoodShape /\ Size(script[i]) \in Nat \ {0}
<1>1. Len(script) \in Nat /\ \A i \in 1..Len(script) : script[i] \in GoodShape
  BY DEF TypeInv
<1>2. ASSUME NEW i \in 1..Len(script)
      PROVE  Size(script[i]) \in Nat \ {0}
  <2>1. script[i] \in GoodShape
    BY <1>1
  <2>. QED
    BY <2>1, LinesOf
<1>. QED
  BY <1>1, <1>2

\* A place is a token of a request or the end.
LEMMA InStream ==
  ASSUME TypeInv, NEW p
  PROVE  p \in Stream <=>
           \/ p = Place(Len(script) + 1, 1)
           \/ \E i \in 1..Len(script) : \E t \in 1..Size(script[i]) : p = Place(i, t)
<1>1. p \in UNION {{Place(i, t) : t \in 1..Size(script[i])} : i \in 1..Len(script)}
        <=> \E i \in 1..Len(script) : \E t \in 1..Size(script[i]) : p = Place(i, t)
  OBVIOUS
<1>. QED
  BY <1>1, Zenon DEF Stream, End

\* The same, for a place whose request and token are known.
LEMMA PlaceInStream ==
  ASSUME TypeInv, NEW i \in Nat, NEW t \in Nat
  PROVE  Place(i, t) \in Stream <=>
           \/ i = Len(script) + 1 /\ t = 1
           \/ i \in 1..Len(script) /\ t \in 1..Size(script[i])
  BY InStream DEF Place

\* What a place of the stream is made of.
LEMMA StreamPlace ==
  ASSUME TypeInv, NEW p \in Stream
  PROVE  /\ p = Place(p.req, p.tok) /\ p.req \in 1..(Len(script) + 1) /\ p.tok \in Nat \ {0}
         /\ p.req \in 1..Len(script) => p.tok \in 1..Size(script[p.req])
         /\ p.req = Len(script) + 1 => p.tok = 1
<1>1. CASE p = Place(Len(script) + 1, 1)
  BY <1>1 DEF Place, TypeInv
<1>2. ASSUME NEW i \in 1..Len(script), NEW t \in 1..Size(script[i]), p = Place(i, t)
      PROVE  /\ p = Place(p.req, p.tok) /\ p.req \in 1..(Len(script) + 1) /\ p.tok \in Nat \ {0}
             /\ p.req \in 1..Len(script) => p.tok \in 1..Size(script[p.req])
             /\ p.req = Len(script) + 1 => p.tok = 1
  <2>1. Size(script[i]) \in Nat /\ Len(script) \in Nat
    BY GoodScript
  <2>. QED
    BY <1>2, <2>1 DEF Place
<1>. QED
  BY <1>1, <1>2, InStream

\* Before the place up to which everything has arrived, there is a request.
LEMMA NotAtEnd ==
  ASSUME TypeInv, Before(rd, arrived)
  PROVE  /\ rd.req \in 1..Len(script) /\ rd.tok \in 1..Size(script[rd.req])
         /\ rd = Place(rd.req, rd.tok) /\ script[rd.req] \in GoodShape
<1>1. rd \in Stream /\ arrived \in Stream /\ Len(script) \in Nat
  BY DEF TypeInv
<1>2. rd.req \in 1..Len(script)
  BY <1>1, StreamPlace DEF Before
<1>. QED
  BY <1>1, <1>2, StreamPlace DEF TypeInv

\* Tokens that are there can be taken, and what follows them is a place again.
LEMMA AfterInStream ==
  ASSUME TypeInv, NEW p \in Stream, NEW n \in Nat,
         n > 0 => p.req \in 1..Len(script) /\ p.tok + n <= Size(script[p.req]) + 1
  PROVE  /\ After(p, n) \in Stream
         /\ ~Before(arrived, p) /\ (arrived.req # p.req \/ arrived.tok - p.tok >= n)
              => ~Before(arrived, After(p, n))
<1>1. /\ p = Place(p.req, p.tok) /\ p.req \in 1..(Len(script) + 1) /\ p.tok \in Nat \ {0}
      /\ p.req \in 1..Len(script) => p.tok \in 1..Size(script[p.req])
  BY StreamPlace
<1>2. /\ arrived.req \in 1..(Len(script) + 1) /\ arrived.tok \in Nat \ {0}
      /\ arrived.req \in 1..Len(script) => arrived.tok \in 1..Size(script[arrived.req])
  BY StreamPlace DEF TypeInv
<1>3. Len(script) \in Nat /\ \A i \in 1..Len(script) : Size(script[i]) \in Nat \ {0}
  BY GoodScript
<1>4. CASE n = 0
  <2>1. After(p, n) = p
    BY <1>1, <1>4 DEF After
  <2>. QED
    BY <2>1
<1>5. CASE n > 0 /\ p.tok + n > Size(script[p.req])
  <2>1. After(p, n) = Place(p.req + 1, 1)
    BY <1>5 DEF After
  <2>2. Place(p.req + 1, 1) \in Stream
    <3>1. p.req \in 1..Len(script)
      BY <1>5
    <3>2. p.req + 1 = Len(script) + 1 \/ p.req + 1 \in 1..Len(script)
      BY <1>3, <3>1
    <3>3. p.req + 1 \in 1..Len(script) => 1 \in 1..Size(script[p.req + 1])
      BY <1>3
    <3>4. p.req + 1 \in Nat /\ 1 \in Nat
      BY <3>1
    <3>. QED
      BY <3>2, <3>3, <3>4, PlaceInStream
  <2>3. ASSUME ~Before(arrived, p), arrived.req # p.req \/ arrived.tok - p.tok >= n
        PROVE  ~Before(arrived, Place(p.req + 1, 1))
    BY <2>3, <1>1, <1>2, <1>3, <1>5 DEF Before, Place
  <2>. QED
    BY <2>1, <2>2, <2>3
<1>6. CASE n > 0 /\ p.tok + n <= Size(script[p.req])
  <2>1. After(p, n) = Place(p.req, p.tok + n)
    BY <1>1, <1>3, <1>6 DEF After
  <2>2. Place(p.req, p.tok + n) \in Stream
    BY <1>1, <1>3, <1>6, PlaceInStream
  <2>3. ASSUME ~Before(arrived, p), arrived.req # p.req \/ arrived.tok - p.tok >= n
        PROVE  ~Before(arrived, Place(p.req, p.tok + n))
    BY <2>3, <1>1, <1>2, <1>3, <1>6 DEF Before, Place
  <2>. QED
    BY <2>1, <2>2, <2>3
<1>. QED
  BY <1>1, <1>3, <1>4, <1>5, <1>6

\* A line that is there can be taken.
LEMMA LineTaken ==
  ASSUME TypeInv, Before(rd, arrived)
  PROVE  After(rd, 1) \in Stream /\ ~Before(arrived, After(rd, 1))
<1>1. rd.req \in 1..Len(script) /\ rd.tok \in 1..Size(script[rd.req])
  BY NotAtEnd
<1>2. rd \in Stream /\ arrived \in Stream /\ ~Before(arrived, rd)
  BY DEF TypeInv
<1>3. arrived.req # rd.req \/ arrived.tok - rd.tok >= 1
  <2>1. arrived.tok \in Nat /\ rd.tok \in Nat
    BY <1>2, StreamPlace
  <2>. QED
    BY <2>1, <1>1 DEF Before
<1>4. rd.tok + 1 <= Size(script[rd.req]) + 1
  BY <1>1, GoodScript
<1>. QED
  BY <1>1, <1>2, <1>3, <1>4, AfterInStream, 1 \in Nat, 1 > 0

\* The body of a request begins after its empty line, and ends where the next begins.
LEMMA ContentSpan ==
  ASSUME TypeInv, NEW i \in 1..Len(script), script[i].start = "line", script[i].length = "fits"
  PROVE  /\ ContentAt(i) \in Stream
         /\ After(ContentAt(i), script[i].body) = Place(i + 1, 1)
         /\ Tokens(ContentAt(i), script[i].body) = BodyOf(i)
         /\ script[i].body > 0 => ContentAt(i).req = i
                                  /\ ContentAt(i).tok + script[i].body = Size(script[i]) + 1
<1>. DEFINE b == script[i].body
<1>. script[i] \in GoodShape
  BY GoodScript
<1>1. Len(Lines(script[i])) = 4 /\ Size(script[i]) = 4 + b /\ b \in Nat
  BY LinesOf
<1>2. CASE b = 0
  <2>1. ContentAt(i) = Place(i + 1, 1)
    BY <1>1, <1>2 DEF ContentAt, After, Place
  <2>2. Place(i + 1, 1) \in Stream
    <3>1. i + 1 \in 1..Len(script) => 1 \in 1..Size(script[i + 1])
      BY GoodScript
    <3>. QED
      BY <3>1, PlaceInStream, GoodScript
  <2>3. After(Place(i + 1, 1), 0) = Place(i + 1, 1)
    BY DEF After, Place
  <2>4. Tokens(ContentAt(i), 0) = {} /\ BodyOf(i) = {}
    BY <1>1, <1>2, <2>1 DEF Tokens, BodyOf, Place
  <2>. QED
    BY <1>2, <2>1, <2>2, <2>3, <2>4
<1>3. CASE b > 0
  <2>1. ContentAt(i) = Place(i, 5)
    BY <1>1, <1>3 DEF ContentAt, After, Place
  <2>2. Place(i, 5) \in Stream
    BY <1>1, <1>3, PlaceInStream
  <2>3. After(Place(i, 5), b) = Place(i + 1, 1)
    BY <1>1, <1>3 DEF After, Place
  <2>4. Tokens(Place(i, 5), b) = BodyOf(i)
    BY <1>1 DEF BodyOf
  <2>. QED
    BY <1>1, <2>1, <2>2, <2>3, <2>4 DEF Place
<1>. QED
  BY <1>1, <1>2, <1>3

\* A body is a set of places of the client's bytes.
LEMMA BodyType ==
  ASSUME TypeInv, NEW i \in 1..Len(script)
  PROVE  BodyOf(i) \in SUBSET Spot
<1>1. Len(Lines(script[i])) \in Nat /\ script[i].body \in Nat
  BY LinesOf DEF TypeInv
<1>. QED
  BY <1>1 DEF BodyOf, Tokens, Place, Spot

\* A request without a body that is accepted has an empty one.
LEMMA NoBody ==
  ASSUME TypeInv, NEW i \in 1..Len(script), script[i].length = "none"
  PROVE  BodyOf(i) = {}
<1>1. script[i] \in GoodShape
  BY GoodScript
<1>2. Len(Lines(script[i])) \in Nat /\ script[i].body = 0
  BY <1>1, LinesOf DEF GoodShape
<1>. QED
  BY <1>2 DEF BodyOf, Tokens, Place

\* The client's bytes do not change under way.
LEMMA SameScript ==
  ASSUME script' = script
  PROVE  /\ Stream' = Stream /\ End' = End /\ Parser' = Parser
         /\ \A i : BodyOf(i)' = BodyOf(i) /\ ContentAt(i)' = ContentAt(i)
  BY DEF Stream, End, Parser, BodyOf, ContentAt, After, Place, Size, Lines, Tokens
-----------------------------------------------------------------------------
(* What the steps have in common.                                            *)

\* Not more requests are done with than there are.
LEMMA TurnBound ==
  ASSUME IInv, ~closed
  PROVE  /\ Len(answers) \in Nat /\ Len(requests) \in Nat /\ Len(script) \in Nat
         /\ Turn \in 0..Len(script)
<1>1. Len(answers) \in Nat /\ Len(requests) \in Nat /\ Len(script) \in Nat
  BY DEF IInv, TypeInv
<1>2. CASE parser.done
  <2>1. rd = Place(Turn + 1, 1) /\ rd \in Stream
    BY <1>2 DEF IInv, OpenInv, BetweenInv, TypeInv
  <2>2. rd.req \in 1..(Len(script) + 1)
    BY <2>1, StreamPlace DEF IInv
  <2>. QED
    BY <1>1, <2>1, <2>2 DEF Place, Turn
<1>3. CASE ~parser.done
  BY <1>1, <1>3 DEF IInv, OpenInv, InRequestInv, EndlessInv, Turn
<1>. QED
  BY <1>1, <1>2, <1>3

\* What the answers, the queue and the counts say of the requests stays true.
LEMMA QueueKept ==
  ASSUME IInv, ~closed, UNCHANGED <<script, answers, requests, frees>>
  PROVE  AnsweredInv' /\ QueuedInv' /\ FreesInv' /\ Turn' = Turn
<1>1. \A i : BodyOf(i)' = BodyOf(i)
  BY SameScript
<1>2. AnsweredInv /\ QueuedInv /\ FreesInv
  BY DEF IInv, OpenInv
<1>3. AnsweredInv'
  BY <1>1, <1>2 DEF AnsweredInv
<1>4. QueuedInv'
  BY <1>1, <1>2 DEF QueuedInv
<1>5. FreesInv'
  BY <1>2 DEF FreesInv
<1>. QED
  BY <1>3, <1>4, <1>5 DEF Turn

\* The requests a termination frees are those that were not answered.
LEMMA Terminated ==
  ASSUME IInv, ~closed, NEW p \in Parser, Terminate(p), script' = script,
         p.req_parsed => IF p.done THEN p.req = Turn /\ Turn >= 1
                         ELSE p.req = Turn + 1 /\ Turn < Len(script)
  PROVE  /\ closed' = TRUE /\ frees' \in [1..Len(script) -> Nat]
         /\ \A i \in 1..Len(script) : frees'[i] <= 1
         /\ \A i \in 1..Len(script) : i <= Len(answers) => frees'[i] = 1
         /\ p.req_parsed => p.req \in 1..Len(script) /\ frees'[p.req] = 1
<1>1. /\ Len(answers) \in Nat /\ Len(requests) \in Nat /\ Len(script) \in Nat
      /\ Turn \in 0..Len(script)
  BY TurnBound
<1>2. \A k \in 1..Len(requests) : requests[k].req = Len(answers) + k
  <2>. SUFFICES ASSUME NEW k \in 1..Len(requests) PROVE requests[k].req = Len(answers) + k
    OBVIOUS
  <2>1. requests[k] = [req |-> Len(answers) + k, body |-> BodyOf(Len(answers) + k)]
    BY DEF IInv, OpenInv, QueuedInv
  <2>. QED
    BY <2>1
<1>3. frees \in [1..Len(script) -> Nat]
  BY DEF IInv, TypeInv
<1>4. \A i \in 1..Len(script) : frees[i] = IF i <= Len(answers) THEN 1 ELSE 0
  BY DEF IInv, OpenInv, FreesInv
<1>5. closed' = TRUE
      /\ frees' = [i \in 1..Len(script) |-> IF i \in Abandoned(p) THEN frees[i] + 1 ELSE frees[i]]
  BY <1>3 DEF Terminate
<1>6. \A i \in Abandoned(p) : i > Len(answers)
  BY <1>1, <1>2 DEF Abandoned, Turn
<1>7. ASSUME p.req_parsed
      PROVE  p.req \in 1..Len(script) /\ (p.req <= Len(answers) \/ p.req \in Abandoned(p))
  <2>1. CASE ~p.done
    BY <1>1, <1>7, <2>1 DEF Abandoned
  <2>2. CASE p.done
    <3>1. p.req = Turn /\ Turn \in 1..Len(script)
      BY <1>1, <1>7, <2>2
    <3>2. CASE Len(requests) = 0
      BY <1>1, <3>1, <3>2 DEF Turn
    <3>3. CASE Len(requests) > 0
      <4>1. Len(requests) \in 1..Len(requests) /\ requests[Len(requests)].req = p.req
        BY <1>1, <1>2, <3>1, <3>3 DEF Turn
      <4>. QED
        BY <3>1, <4>1 DEF Abandoned
    <3>. QED
      BY <1>1, <3>2, <3>3
  <2>. QED
    BY <2>1, <2>2
<1>8. frees' \in [1..Len(script) -> Nat]
  BY <1>3, <1>5
<1>9. \A i \in 1..Len(script) : frees'[i] <= 1
  BY <1>1, <1>4, <1>5, <1>6
<1>10. \A i \in 1..Len(script) : i <= Len(answers) => frees'[i] = 1
  BY <1>1, <1>4, <1>5, <1>6
<1>11. \A i \in 1..Len(script) : i \in Abandoned(p) => frees'[i] = 1
  BY <1>1, <1>4, <1>5, <1>6
<1>. QED
  BY <1>5, <1>7, <1>8, <1>9, <1>10, <1>11

\* An answer is to one of the client's requests.
LEMMA AnswersBound ==
  ASSUME IInv, ~closed, NEW k \in 1..Len(answers)
  PROVE  /\ k \in 1..Len(script)
         /\ answers[k].req = k /\ answers[k].ok /\ answers[k].body = BodyOf(k)
<1>1. answers[k] = [req |-> k, ok |-> TRUE, body |-> BodyOf(k)]
  BY DEF IInv, OpenInv, AnsweredInv
<1>2. k \in 1..Len(script)
  BY TurnBound DEF Turn
<1>. QED
  BY <1>1, <1>2

\* An error is answered last, and its connection is terminated.
LEMMA Failed ==
  ASSUME IInv, ~closed, NEW p \in Parser, NEW i \in Nat, Fail(p, i),
         UNCHANGED <<script, arrived, requests, freed>>, rd' \in Stream, ~Before(arrived, rd'),
         i > Turn, ~p.done,
         p.req_parsed => p.req = Turn + 1 /\ Turn < Len(script)
  PROVE  IInv'
<1>1. /\ closed' = TRUE /\ frees' \in [1..Len(script) -> Nat]
      /\ \A j \in 1..Len(script) : frees'[j] <= 1
      /\ \A j \in 1..Len(script) : j <= Len(answers) => frees'[j] = 1
      /\ p.req_parsed => p.req \in 1..Len(script) /\ frees'[p.req] = 1
  BY Terminated DEF Fail
<1>2. /\ parser' = p /\ pc' = "wait"
      /\ answers' = Append(answers, [req |-> i, ok |-> FALSE, body |-> {}])
  BY DEF Fail
<1>3. Stream' = Stream /\ Parser' = Parser /\ \A j : BodyOf(j)' = BodyOf(j)
  BY SameScript
<1>4. answers \in Seq([req : Nat, ok : BOOLEAN, body : SUBSET Spot])
  BY DEF IInv, TypeInv
<1>5. Len(answers) \in Nat /\ Turn \in Nat /\ i > Len(answers)
  BY TurnBound DEF Turn
<1>6. /\ Len(answers') = Len(answers) + 1
      /\ answers'[Len(answers) + 1] = [req |-> i, ok |-> FALSE, body |-> {}]
      /\ \A n \in 1..Len(answers) : answers'[n] = answers[n]
  BY <1>2, <1>4
<1>7. TypeInv'
  <2>1. answers' \in Seq([req : Nat, ok : BOOLEAN, body : SUBSET Spot])
    BY <1>2, <1>4
  <2>2. arrived' \in Stream' /\ rd' \in Stream' /\ ~Before(arrived, rd)'
    BY <1>3 DEF IInv, TypeInv, Before
  <2>3. parser' \in Parser'
    BY <1>2, <1>3
  <2>4. requests' \in Seq([req : 1..Len(script'), body : SUBSET Spot])
    BY DEF IInv, TypeInv
  <2>5. frees' \in [1..Len(script') -> Nat] /\ closed' \in BOOLEAN /\ freed' \in BOOLEAN
        /\ script' \in Seq(GoodShape)
    BY <1>1 DEF IInv, TypeInv
  <2>. QED
    BY <1>2, <2>1, <2>2, <2>3, <2>4, <2>5 DEF TypeInv
<1>8. OpenInv'
  BY <1>1 DEF OpenInv
<1>9. AnswersInOrder'
  <2>. SUFFICES ASSUME NEW n \in 1..Len(answers')
                PROVE  IF answers'[n].ok
                       THEN answers'[n].req = n /\ answers'[n].body = BodyOf(n)'
                       ELSE n = Len(answers') /\ answers'[n].req >= n /\ closed'
    BY DEF AnswersInOrder
  <2>1. CASE n = Len(answers) + 1
    BY <1>1, <1>5, <1>6, <2>1
  <2>2. CASE n \in 1..Len(answers)
    BY <1>3, <1>6, <2>2, AnswersBound
  <2>. QED
    BY <1>5, <1>6, <2>1, <2>2
<1>10. FreedOnce'
  <2>1. DOMAIN frees' = 1..Len(script)
    BY <1>1
  <2>2. ASSUME NEW k \in 1..Len(answers'), answers'[k].ok
        PROVE  frees'[answers'[k].req] = 1
    <3>1. k \in 1..Len(answers)
      BY <1>5, <1>6, <2>2
    <3>2. k \in 1..Len(script) /\ answers'[k].req = k
      BY <1>6, <3>1, AnswersBound
    <3>. QED
      BY <1>1, <3>1, <3>2
  <2>. QED
    BY <1>1, <1>2, <2>1, <2>2 DEF FreedOnce
<1>. QED
  BY <1>2, <1>7, <1>8, <1>9, <1>10 DEF IInv, ClosedInv
-----------------------------------------------------------------------------
(* The steps of readcb.                                                      *)

\* A step that answers, queues and frees nothing: what is left to show.
LEMMA NothingQueued ==
  ASSUME IInv, ~closed, UNCHANGED <<script, answers, requests, frees, closed, freed>>,
         arrived' \in Stream, rd' \in Stream, ~Before(arrived', rd'), parser' \in Parser,
         pc' \in {"wait", "content", "lines", "respond"},
         BetweenInv', InRequestInv', InLinesInv', AtContentInv',
         pc' \in {"lines", "respond"} => ~AwaitsContent', QueueWaitsForBody'
  PROVE  IInv'
<1>1. AnsweredInv' /\ QueuedInv' /\ FreesInv'
  BY QueueKept
<1>2. TypeInv'
  BY SameScript DEF IInv, TypeInv, Before
<1>3. OpenInv'
  BY <1>1 DEF OpenInv, EndlessInv
<1>4. ClosedInv'
  BY DEF ClosedInv
<1>. QED
  BY <1>2, <1>3, <1>4 DEF IInv

\* Where the parser is does not depend on how much has arrived, or on where readcb is.
LEMMA ParserKept ==
  ASSUME IInv, ~closed, UNCHANGED <<script, answers, requests, rd, parser>>,
         pc = "endless" <=> pc' = "endless"
  PROVE  /\ BetweenInv' /\ InRequestInv' /\ InLinesInv' /\ AtContentInv' /\ EndlessInv'
         /\ AwaitsContent' = AwaitsContent
<1>1. Turn' = Turn /\ ContentAt(Turn + 1)' = ContentAt(Turn + 1)
  BY SameScript DEF Turn
<1>2. BetweenInv /\ InRequestInv /\ InLinesInv /\ AtContentInv /\ EndlessInv
  BY DEF IInv, OpenInv
<1>3. BetweenInv'
  BY <1>1, <1>2 DEF BetweenInv, Place
<1>4. InRequestInv'
  BY <1>1, <1>2 DEF InRequestInv
<1>5. InLinesInv'
  BY <1>1, <1>2 DEF InLinesInv, Lines
<1>6. AtContentInv'
  BY <1>1, <1>2, SameScript DEF AtContentInv
<1>7. EndlessInv'
  BY <1>1, <1>2 DEF EndlessInv
<1>. QED
  BY <1>3, <1>4, <1>5, <1>6, <1>7 DEF AwaitsContent

\* Bytes arrive: readcb begins, and what it knows does not change.
LEMMA ReceiveStep == ASSUME IInv, Receive PROVE IInv'
<1>1. ~closed /\ UNCHANGED <<script, rd, parser, requests, closed, freed, answers, frees>>
      /\ arrived' \in Stream /\ Before(arrived, arrived') /\ pc = "wait" /\ pc' = "content"
  BY DEF Receive
<1>2. rd' \in Stream /\ ~Before(arrived', rd') /\ parser' \in Parser
  <2>1. rd \in Stream /\ arrived \in Stream /\ ~Before(arrived, rd) /\ parser \in Parser
    BY DEF IInv, TypeInv
  <2>2. /\ rd.req \in Int /\ rd.tok \in Int /\ arrived.req \in Int /\ arrived.tok \in Int
        /\ arrived'.req \in Int /\ arrived'.tok \in Int
    <3>1. \A p \in Stream : p.req \in Int /\ p.tok \in Int
      BY StreamPlace DEF IInv
    <3>. QED
      BY <1>1, <2>1, <3>1
  <2>. QED
    BY <1>1, <2>1, <2>2 DEF Before
<1>3. QueueWaitsForBody'
  BY <1>1 DEF QueueWaitsForBody
<1>. QED
  BY <1>1, <1>2, <1>3, ParserKept, NothingQueued

\* Steps that only go on to the next part of readcb.
LEMMA GoOnStep ==
  ASSUME IInv, NoContent \/ ContentMissing \/ NoMoreLines
  PROVE  IInv'
<1>1. ~closed
  BY DEF IInv, ClosedInv, NoContent, ContentMissing, NoMoreLines
<1>2. UNCHANGED <<script, arrived, rd, parser, requests, closed, freed, answers, frees>>
  BY DEF NoContent, ContentMissing, NoMoreLines
<1>3. /\ rd' \in Stream /\ arrived' \in Stream /\ ~Before(arrived', rd')
      /\ parser' \in Parser
  BY <1>2 DEF IInv, TypeInv
<1>4. /\ BetweenInv' /\ InRequestInv' /\ InLinesInv' /\ AtContentInv'
      /\ AwaitsContent' = AwaitsContent
  BY <1>1, <1>2, ParserKept DEF NoContent, ContentMissing, NoMoreLines
<1>5. /\ pc' \in {"wait", "lines", "respond"}
      /\ pc' \in {"lines", "respond"} => ~AwaitsContent'
      /\ pc' = "wait" => AwaitsContent'
  BY <1>1, <1>4 DEF IInv, OpenInv, NoContent, ContentMissing, NoMoreLines
<1>6. QueueWaitsForBody'
  BY <1>5 DEF QueueWaitsForBody
<1>. QED
  BY <1>1, <1>2, <1>3, <1>4, <1>5, <1>6, NothingQueued

\* The line at hand is one of the request whose turn it is.
LEMMA AtLine ==
  ASSUME IInv, NEW w, NextLine(w)
  PROVE  /\ ~closed /\ Turn \in Nat /\ Turn + 1 \in 1..Len(script) /\ rd.req = Turn + 1
         /\ script[Turn + 1] \in GoodShape
         /\ NextParser \in Parser /\ ~NextParser.done /\ ~NextParser.content_parsing
         /\ NextParser.req_parsed =>
              /\ parser = NextParser /\ NextParser.req = Turn + 1
              /\ script[Turn + 1].start = "line"
              /\ rd.tok \in 2..Len(Lines(script[Turn + 1]))
              /\ Line = Lines(script[Turn + 1])[rd.tok]
              /\ NextParser.has_content <=> script[Turn + 1].length = "fits" /\ rd.tok = 4
              /\ script[Turn + 1].length = "oversized" => rd.tok < 4
         /\ ~NextParser.req_parsed =>
              /\ NextParser = [Idle EXCEPT !.done = FALSE]
              /\ rd = Place(Turn + 1, 1) /\ Line = script[Turn + 1].start
<1>. pc = "lines" /\ Before(rd, arrived) /\ TypeInv
  BY DEF NextLine, IInv
<1>1. ~closed
  BY DEF IInv, ClosedInv
<1>2. /\ rd.req \in 1..Len(script) /\ rd.tok \in 1..Size(script[rd.req])
      /\ rd = Place(rd.req, rd.tok) /\ script[rd.req] \in GoodShape
  BY NotAtEnd
<1>3. Turn \in Nat /\ parser \in Parser
  BY <1>1, TurnBound DEF TypeInv
<1>4. CASE parser.done
  <2>1. NextParser = [Idle EXCEPT !.done = FALSE]
    BY <1>4 DEF NextParser
  <2>2. /\ NextParser \in Parser /\ ~NextParser.done /\ ~NextParser.content_parsing
        /\ ~NextParser.req_parsed
    <3>1. NextParser = [done |-> FALSE, req_parsed |-> FALSE, has_content |-> FALSE,
                        content_parsing |-> FALSE, req |-> 0]
      BY <2>1 DEF Idle
    <3>. QED
      BY <3>1, GoodScript DEF Parser
  <2>3. rd = Place(Turn + 1, 1)
    BY <1>1, <1>4 DEF IInv, OpenInv, BetweenInv
  <2>4. rd.req = Turn + 1 /\ rd.tok = 1
    BY <2>3 DEF Place
  <2>5. Line = script[Turn + 1].start
    <3>1. Len(Lines(script[rd.req])) >= 1 /\ Lines(script[rd.req])[1] = script[rd.req].start
      BY <1>2, LinesOf
    <3>. QED
      BY <2>4, <3>1 DEF Line
  <2>. QED
    BY <1>1, <1>2, <1>3, <2>1, <2>2, <2>3, <2>4, <2>5
<1>5. CASE ~parser.done
  <2>1. NextParser = parser
    BY <1>5 DEF NextParser
  <2>2. /\ parser.req_parsed /\ parser.req = Turn + 1 /\ ~parser.content_parsing
        /\ script[Turn + 1].start = "line"
    BY <1>1, <1>5 DEF IInv, OpenInv, InRequestInv, AwaitsContent
  <2>3. /\ rd.req = Turn + 1 /\ rd.tok \in 2..Len(Lines(script[Turn + 1]))
        /\ parser.has_content <=> script[Turn + 1].length = "fits" /\ rd.tok = 4
        /\ script[Turn + 1].length = "oversized" => rd.tok < 4
    BY <1>1, <1>5, <2>2 DEF IInv, OpenInv, InLinesInv
  <2>4. Line = Lines(script[Turn + 1])[rd.tok]
    <3>1. Len(Lines(script[Turn + 1])) \in Nat
      BY <1>2, <2>3, LinesOf
    <3>. QED
      BY <2>3, <3>1 DEF Line
  <2>. QED
    BY <1>1, <1>2, <1>3, <1>5, <2>1, <2>2, <2>3, <2>4
<1>. QED
  BY <1>4, <1>5
-----------------------------------------------------------------------------
\* A step that takes a line off the input.
LEMMA TakenLine ==
  ASSUME IInv, NEW w, NextLine(w), TakeLine
  PROVE  /\ rd' \in Stream /\ ~Before(arrived, rd')
         /\ rd.tok < Size(script[Turn + 1]) => rd' = Place(Turn + 1, rd.tok + 1)
         /\ rd.tok = Size(script[Turn + 1]) => rd' = Place(Turn + 2, 1)
         /\ rd.tok \in Nat
<1>1. rd' = After(rd, 1) /\ Before(rd, arrived)
  BY DEF TakeLine, NextLine
<1>2. rd.req = Turn + 1 /\ Turn \in Nat /\ script[Turn + 1] \in GoodShape
  BY AtLine
<1>3. rd.tok \in Nat /\ Size(script[Turn + 1]) \in Nat
  BY <1>1, <1>2, NotAtEnd, LinesOf DEF IInv
<1>. QED
  BY <1>1, <1>2, <1>3, LineTaken DEF After, IInv

\* A step on to a later line of a request.
LEMMA OnToLine ==
  ASSUME IInv, NEW w, NextLine(w), TakeLine,
         UNCHANGED <<script, arrived, requests, pc, closed, freed, answers, frees>>,
         rd.tok < Len(Lines(script[Turn + 1])), script[Turn + 1].start = "line",
         parser' \in Parser, ~parser'.done, parser'.req_parsed, ~parser'.content_parsing,
         parser'.req = Turn + 1,
         parser'.has_content <=> script[Turn + 1].length = "fits" /\ rd.tok = 3,
         script[Turn + 1].length = "oversized" => rd.tok < 3
  PROVE  IInv'
<1>1. /\ ~closed /\ Turn \in Nat /\ Turn + 1 \in 1..Len(script)
      /\ script[Turn + 1] \in GoodShape /\ pc = "lines"
  BY AtLine DEF NextLine
<1>2. rd.tok \in Nat \ {0} /\ rd.tok < Size(script[Turn + 1]) /\ Len(Lines(script[Turn + 1])) \in Nat
  <2>1. rd.tok \in Nat \ {0}
    BY NotAtEnd DEF NextLine, IInv
  <2>. QED
    BY <1>1, <2>1, LinesOf
<1>3. rd' \in Stream /\ ~Before(arrived, rd') /\ rd' = Place(Turn + 1, rd.tok + 1)
  BY <1>2, TakenLine
<1>4. Turn' = Turn
  BY DEF Turn
<1>5. rd'.req = Turn + 1 /\ rd'.tok = rd.tok + 1
  BY <1>3 DEF Place
<1>6. InLinesInv'
  <2>1. Lines(script[Turn + 1])' = Lines(script[Turn + 1])
    BY <1>4 DEF Lines
  <2>. QED
    BY <1>1, <1>2, <1>4, <1>5, <2>1 DEF InLinesInv
<1>7. BetweenInv' /\ InRequestInv' /\ AtContentInv' /\ ~AwaitsContent'
  BY <1>1, <1>4 DEF BetweenInv, InRequestInv, AtContentInv, AwaitsContent
<1>8. QueueWaitsForBody' /\ arrived' \in Stream
  BY <1>1 DEF QueueWaitsForBody, IInv, TypeInv
<1>. QED
  BY <1>1, <1>3, <1>6, <1>7, <1>8, NothingQueued

\* A request line begins the request whose turn it is.
LEMMA RequestLineStep == ASSUME IInv, RequestLine PROVE IInv'
<1>1. NextLine({"line"}) /\ TakeLine /\ ~NextParser.req_parsed
      /\ parser' = [NextParser EXCEPT !.req_parsed = TRUE, !.req = rd.req]
      /\ UNCHANGED <<script, arrived, requests, pc, closed, freed, answers, frees>>
  BY DEF RequestLine
<1>2. Line = "line"
  BY <1>1 DEF NextLine
<1>3. /\ rd = Place(Turn + 1, 1) /\ script[Turn + 1].start = "line"
      /\ Turn + 1 \in 1..Len(script) /\ Turn \in Nat /\ rd.req = Turn + 1
      /\ NextParser = [Idle EXCEPT !.done = FALSE] /\ script[Turn + 1] \in GoodShape
  BY <1>1, <1>2, AtLine
<1>4. rd.tok = 1 /\ Len(Lines(script[Turn + 1])) \in 3..4
  BY <1>3, LinesOf DEF Place
<1>5. parser' = [done |-> FALSE, req_parsed |-> TRUE, has_content |-> FALSE,
                 content_parsing |-> FALSE, req |-> Turn + 1]
  BY <1>1, <1>3 DEF Idle
<1>6. /\ parser' \in Parser /\ ~parser'.done /\ parser'.req_parsed /\ ~parser'.has_content
      /\ ~parser'.content_parsing /\ parser'.req = Turn + 1
  BY <1>3, <1>5 DEF Parser
<1>7. /\ rd.tok < Len(Lines(script[Turn + 1])) /\ rd.tok < 3
      /\ parser'.has_content <=> script[Turn + 1].length = "fits" /\ rd.tok = 3
  <2>1. rd.tok < Len(Lines(script[Turn + 1])) /\ rd.tok < 3 /\ rd.tok # 3
    BY <1>4
  <2>. QED
    BY <1>6, <2>1
<1>. QED
  BY <1>1, <1>3, <1>6, <1>7, OnToLine

\* A header leads on to the next line of its request.
LEMMA HeaderStep == ASSUME IInv, Header PROVE IInv'
<1>. DEFINE w == {"header", "line", "malformed", "endless", "body"}
            lines == Lines(script[Turn + 1])
<1>1. NextLine(w) /\ TakeLine /\ NextParser.req_parsed
      /\ UNCHANGED <<script, arrived, parser, requests, pc, closed, freed, answers, frees>>
  BY DEF Header
<1>2. Line \in w
  BY <1>1 DEF NextLine
<1>3. /\ Turn + 1 \in 1..Len(script) /\ Turn \in Nat /\ script[Turn + 1] \in GoodShape
      /\ NextParser \in Parser /\ ~NextParser.done /\ ~NextParser.content_parsing
      /\ parser = NextParser /\ NextParser.req = Turn + 1
      /\ script[Turn + 1].start = "line"
      /\ rd.tok \in 2..Len(lines) /\ Line = lines[rd.tok]
      /\ NextParser.has_content <=> script[Turn + 1].length = "fits" /\ rd.tok = 4
  <2>. HIDE DEF w
  <2>. QED
    BY <1>1, AtLine
<1>4. rd.tok = 2 /\ rd.tok < Len(lines)
  <2>1. /\ Len(lines) \in 3..4
        /\ lines[3] \in {"none", "fits", "oversized", "blank"}
        /\ Len(lines) = 4 => lines[4] = "blank"
    BY <1>3, LinesOf
  <2>. QED
    BY <1>2, <1>3, <2>1
<1>5. /\ parser' \in Parser /\ ~parser'.done /\ parser'.req_parsed
      /\ ~parser'.content_parsing /\ parser'.req = Turn + 1 /\ ~parser'.has_content
  BY <1>1, <1>3, <1>4
<1>6. /\ rd.tok < Len(lines) /\ rd.tok < 3
      /\ parser'.has_content <=> script[Turn + 1].length = "fits" /\ rd.tok = 3
  <2>1. rd.tok < 3 /\ rd.tok # 3
    BY <1>4
  <2>. QED
    BY <1>4, <1>5, <2>1
<1>. QED
  <2>. HIDE DEF w
  <2>. QED
    BY <1>1, <1>3, <1>5, <1>6, OnToLine

\* The length of a body is seen before the empty line.
LEMMA ContentLengthStep == ASSUME IInv, ContentLength PROVE IInv'
<1>. DEFINE lines == Lines(script[Turn + 1])
<1>1. NextLine({"fits"}) /\ TakeLine /\ NextParser.req_parsed
      /\ parser' = [NextParser EXCEPT !.has_content = TRUE]
      /\ UNCHANGED <<script, arrived, requests, pc, closed, freed, answers, frees>>
  BY DEF ContentLength
<1>2. Line = "fits"
  BY <1>1 DEF NextLine
<1>3. /\ Turn + 1 \in 1..Len(script) /\ Turn \in Nat /\ script[Turn + 1] \in GoodShape
      /\ NextParser \in Parser /\ ~NextParser.done /\ ~NextParser.content_parsing
      /\ NextParser.req = Turn + 1 /\ script[Turn + 1].start = "line"
      /\ rd.tok \in 2..Len(lines) /\ Line = lines[rd.tok]
  BY <1>1, AtLine
<1>4. rd.tok = 3 /\ Len(lines) = 4 /\ script[Turn + 1].length = "fits"
  <2>1. /\ Len(lines) \in 3..4 /\ lines[2] = "header"
        /\ Len(lines) = 3 => lines[3] = "blank"
        /\ Len(lines) = 4 => lines[3] = script[Turn + 1].length /\ lines[4] = "blank"
    BY <1>3, LinesOf
  <2>. QED
    BY <1>2, <1>3, <2>1
<1>5. /\ parser' \in Parser /\ ~parser'.done /\ parser'.req_parsed /\ parser'.has_content
      /\ ~parser'.content_parsing /\ parser'.req = Turn + 1
  BY <1>1, <1>3 DEF Parser
<1>6. /\ rd.tok < Len(lines) /\ script[Turn + 1].length # "oversized"
      /\ parser'.has_content <=> script[Turn + 1].length = "fits" /\ rd.tok = 3
  BY <1>4, <1>5
<1>. QED
  BY <1>1, <1>3, <1>5, <1>6, OnToLine

\* The path of a request line without a space after it holds readcb for good.
LEMMA EndlessStep == ASSUME IInv, RequestEndless PROVE IInv'
<1>1. /\ NextLine({"endless"}) /\ TakeLine /\ ~NextParser.req_parsed
      /\ parser' = NextParser /\ pc' = "endless"
      /\ UNCHANGED <<script, arrived, requests, closed, freed, answers, frees>>
  BY DEF RequestEndless
<1>2. Line = "endless"
  BY <1>1 DEF NextLine
<1>3. /\ ~closed /\ Turn \in Nat /\ Turn + 1 \in 1..Len(script)
      /\ parser' \in Parser /\ ~parser'.done /\ ~parser'.content_parsing /\ ~parser'.req_parsed
      /\ script[Turn + 1].start = "endless"
  BY <1>1, <1>2, AtLine
<1>4. rd' \in Stream /\ ~Before(arrived, rd')
  BY <1>1, TakenLine
<1>5. AnsweredInv' /\ QueuedInv' /\ FreesInv' /\ Turn' = Turn
  BY <1>1, <1>3, QueueKept
<1>6. TypeInv'
  BY <1>1, <1>3, <1>4, SameScript DEF IInv, TypeInv, Before
<1>7. EndlessInv'
  <2>1. Turn < Len(script)
    BY <1>3, TurnBound
  <2>. QED
    BY <1>1, <1>3, <1>5, <2>1 DEF EndlessInv
<1>8. /\ BetweenInv' /\ InRequestInv' /\ InLinesInv' /\ AtContentInv' /\ QueueWaitsForBody'
      /\ ClosedInv'
  BY <1>1, <1>3 DEF BetweenInv, InRequestInv, InLinesInv, AtContentInv, QueueWaitsForBody, ClosedInv
<1>. QED
  BY <1>1, <1>5, <1>6, <1>7, <1>8 DEF IInv, OpenInv

\* Errors in a line.
LEMMA BadLineStep ==
  ASSUME IInv, RequestMalformed \/ ContentOversized \/ ContentUnsupported
  PROVE  IInv'
<1>1. PICK w, i : /\ NextLine(w) /\ TakeLine /\ Fail(NextParser, i)
                  /\ i = rd.req \/ (i = NextParser.req /\ NextParser.req_parsed)
                  /\ UNCHANGED <<script, arrived, requests, freed>>
  BY DEF RequestMalformed, ContentOversized, ContentUnsupported
<1>2. /\ ~closed /\ Turn \in Nat /\ Turn + 1 \in 1..Len(script) /\ rd.req = Turn + 1
      /\ NextParser \in Parser /\ ~NextParser.done
      /\ NextParser.req_parsed => NextParser.req = Turn + 1
  BY <1>1, AtLine
<1>3. i = Turn + 1
  BY <1>1, <1>2
<1>4. rd' \in Stream /\ ~Before(arrived, rd')
  BY <1>1, TakenLine
<1>. QED
  BY <1>1, <1>2, <1>3, <1>4, Failed
-----------------------------------------------------------------------------
\* A step that queues the request whose turn it is.
LEMMA Queued ==
  ASSUME IInv, ~closed, Turn < Len(script),
         UNCHANGED <<script, arrived, closed, freed, answers, frees>>,
         requests' = Append(requests, [req |-> Turn + 1, body |-> BodyOf(Turn + 1)]),
         rd' \in Stream, ~Before(arrived, rd'), rd' = Place(Turn + 2, 1),
         parser' \in Parser, parser'.done, parser'.req = Turn + 1, pc' = "lines"
  PROVE  IInv'
<1>1. Len(answers) \in Nat /\ Len(requests) \in Nat /\ Len(script) \in Nat /\ Turn \in Nat
  BY TurnBound
<1>2. requests \in Seq([req : 1..Len(script), body : SUBSET Spot])
  BY DEF IInv, TypeInv
<1>3. [req |-> Turn + 1, body |-> BodyOf(Turn + 1)] \in [req : 1..Len(script), body : SUBSET Spot]
  <2>1. Turn + 1 \in 1..Len(script)
    BY <1>1
  <2>. QED
    BY <2>1, BodyType DEF IInv
<1>4. /\ requests' \in Seq([req : 1..Len(script), body : SUBSET Spot])
      /\ Len(requests') = Len(requests) + 1
      /\ \A k \in 1..Len(requests) : requests'[k] = requests[k]
      /\ requests'[Len(requests) + 1] = [req |-> Turn + 1, body |-> BodyOf(Turn + 1)]
  <2>. DEFINE r == [req |-> Turn + 1, body |-> BodyOf(Turn + 1)]
              T == [req : 1..Len(script), body : SUBSET Spot]
  <2>1. requests' = Append(requests, r) /\ requests \in Seq(T) /\ r \in T
    BY <1>2, <1>3
  <2>. HIDE DEF r, T
  <2>. QED
    BY <2>1 DEF r, T
<1>5. Turn' = Turn + 1
  BY <1>1, <1>4 DEF Turn
<1>6. TypeInv'
  BY <1>4, SameScript DEF IInv, TypeInv, Before
<1>7. QueuedInv'
  <2>1. ASSUME NEW k \in 1..Len(requests')
        PROVE  requests'[k] = [req |-> Len(answers) + k, body |-> BodyOf(Len(answers) + k)]
    <3>1. CASE k \in 1..Len(requests)
      BY <1>4, <3>1 DEF IInv, OpenInv, QueuedInv
    <3>2. CASE k = Len(requests) + 1
      <4>1. Turn + 1 = Len(answers) + k
        BY <1>1, <3>2 DEF Turn
      <4>. QED
        BY <1>4, <3>2, <4>1
    <3>. QED
      BY <1>1, <1>4, <3>1, <3>2
  <2>2. \A i : BodyOf(i)' = BodyOf(i)
    BY SameScript
  <2>. QED
    BY <2>1, <2>2 DEF QueuedInv
<1>8. AnsweredInv' /\ FreesInv'
  BY SameScript DEF IInv, OpenInv, AnsweredInv, FreesInv
<1>9. BetweenInv'
  <2>1. rd' = Place(Turn' + 1, 1)
    BY <1>1, <1>5
  <2>. QED
    BY <1>1, <1>5, <2>1 DEF BetweenInv, Place
<1>10. InRequestInv' /\ InLinesInv' /\ AtContentInv' /\ ~AwaitsContent' /\ QueueWaitsForBody'
  BY DEF InRequestInv, InLinesInv, AtContentInv, AwaitsContent, QueueWaitsForBody
<1>11. ClosedInv' /\ EndlessInv'
  BY DEF ClosedInv, EndlessInv
<1>. QED
  BY <1>6, <1>7, <1>8, <1>9, <1>10, <1>11 DEF IInv, OpenInv

\* A request without a body is queued at its empty line.
LEMMA RequestCompleteStep == ASSUME IInv, RequestComplete PROVE IInv'
<1>. DEFINE lines == Lines(script[Turn + 1])
<1>1. NextLine({"blank"}) /\ TakeLine /\ NextParser.req_parsed /\ ~NextParser.has_content
      /\ requests' = Append(requests, [req |-> NextParser.req, body |-> {}])
      /\ parser' = [NextParser EXCEPT !.done = TRUE]
      /\ UNCHANGED <<script, arrived, pc, closed, freed, answers, frees>>
  BY DEF RequestComplete
<1>2. Line = "blank" /\ pc = "lines"
  BY <1>1 DEF NextLine
<1>3. /\ ~closed /\ Turn + 1 \in 1..Len(script) /\ Turn \in Nat /\ script[Turn + 1] \in GoodShape
      /\ NextParser \in Parser /\ NextParser.req = Turn + 1 /\ script[Turn + 1].start = "line"
      /\ rd.tok \in 2..Len(lines) /\ Line = lines[rd.tok]
      /\ NextParser.has_content <=> script[Turn + 1].length = "fits" /\ rd.tok = 4
      /\ script[Turn + 1].length = "oversized" => rd.tok < 4
  BY <1>1, AtLine
<1>4. script[Turn + 1].length = "none" /\ rd.tok = Size(script[Turn + 1])
  <2>1. /\ Len(lines) \in 3..4 /\ lines[2] = "header"
        /\ script[Turn + 1].length \in {"none", "fits", "oversized"}
        /\ script[Turn + 1].length = "none" => Len(lines) = 3 /\ Size(script[Turn + 1]) = 3
        /\ script[Turn + 1].length # "none" => lines[3] = script[Turn + 1].length
    BY <1>3, LinesOf
  <2>2. rd.tok \in 3..4
    BY <1>2, <1>3, <2>1
  <2>3. CASE script[Turn + 1].length # "none"
    <3>1. rd.tok = 4
      BY <1>2, <1>3, <2>1, <2>2, <2>3
    <3>. QED
      BY <1>1, <1>3, <2>1, <2>3, <3>1
  <2>4. CASE script[Turn + 1].length = "none"
    BY <1>3, <2>1, <2>2, <2>4
  <2>. QED
    BY <2>3, <2>4
<1>5. rd' \in Stream /\ ~Before(arrived, rd') /\ rd' = Place(Turn + 2, 1)
  BY <1>1, <1>4, TakenLine
<1>6. BodyOf(Turn + 1) = {}
  BY <1>3, <1>4, NoBody DEF IInv
<1>7. parser' \in Parser /\ parser'.done /\ parser'.req = Turn + 1
  BY <1>1, <1>3 DEF Parser
<1>8. Turn < Len(script)
  BY <1>3, TurnBound
<1>. QED
  BY <1>1, <1>2, <1>3, <1>5, <1>6, <1>7, <1>8, Queued

\* After the empty line of a request with a body the parser is at the body.
LEMMA ContentFollowsStep == ASSUME IInv, ContentFollows PROVE IInv'
<1>. DEFINE lines == Lines(script[Turn + 1])
<1>1. NextLine({"blank"}) /\ TakeLine /\ NextParser.req_parsed /\ NextParser.has_content
      /\ script[NextParser.req].format # "other"
      /\ parser' = [NextParser EXCEPT !.content_parsing = TRUE] /\ pc' = "content"
      /\ UNCHANGED <<script, arrived, requests, closed, freed, answers, frees>>
  BY DEF ContentFollows
<1>2. /\ ~closed /\ Turn + 1 \in 1..Len(script) /\ Turn \in Nat
      /\ NextParser \in Parser /\ ~NextParser.done
      /\ NextParser.req = Turn + 1 /\ script[Turn + 1].start = "line"
      /\ script[Turn + 1].length = "fits" /\ rd.tok = 4 /\ rd.req = Turn + 1
  BY <1>1, AtLine
<1>3. rd' \in Stream /\ ~Before(arrived, rd') /\ rd' = ContentAt(Turn + 1)
  <2>1. rd' \in Stream /\ ~Before(arrived, rd')
    BY <1>1, TakenLine
  <2>2. rd = Place(Turn + 1, 4)
    BY <1>1, <1>2, NotAtEnd DEF NextLine, IInv
  <2>. QED
    BY <1>1, <2>1, <2>2 DEF TakeLine, ContentAt
<1>4. /\ parser' \in Parser /\ ~parser'.done /\ parser'.req_parsed /\ parser'.content_parsing
      /\ parser'.req = Turn + 1
  BY <1>1, <1>2 DEF Parser
<1>5. Turn' = Turn /\ ContentAt(Turn + 1)' = ContentAt(Turn + 1)
  BY <1>1, SameScript DEF Turn
<1>6. AtContentInv'
  BY <1>1, <1>2, <1>3, <1>5 DEF AtContentInv
<1>7. BetweenInv' /\ InRequestInv' /\ InLinesInv' /\ QueueWaitsForBody'
  <2>1. Turn < Len(script)
    BY <1>2, TurnBound
  <2>. QED
    BY <1>1, <1>2, <1>4, <1>5, <2>1 DEF BetweenInv, InRequestInv, InLinesInv, QueueWaitsForBody
<1>8. arrived' \in Stream
  BY <1>1 DEF IInv, TypeInv
<1>. QED
  BY <1>1, <1>2, <1>3, <1>4, <1>6, <1>7, <1>8, NothingQueued

\* At the body of a request: it is taken as a whole.
LEMMA AtContent ==
  ASSUME IInv, pc = "content", AwaitsContent, ContentThere, TakeContent
  PROVE  /\ ~closed /\ Turn \in Nat /\ Turn + 1 \in 1..Len(script)
         /\ parser \in Parser /\ ~parser.done /\ parser.req = Turn + 1
         /\ rd' \in Stream /\ ~Before(arrived, rd') /\ rd' = Place(Turn + 2, 1)
         /\ Tokens(rd, script[parser.req].body) = BodyOf(Turn + 1)
<1>1. ~closed /\ ~parser.done /\ parser \in Parser
  BY DEF IInv, ClosedInv, TypeInv, AwaitsContent
<1>2. /\ parser.req = Turn + 1 /\ Turn < Len(script) /\ Turn \in Nat /\ Len(script) \in Nat
      /\ script[Turn + 1].start = "line" /\ script[Turn + 1].length = "fits"
      /\ rd = ContentAt(Turn + 1)
  BY <1>1, TurnBound DEF IInv, OpenInv, InRequestInv, AtContentInv, AwaitsContent
<1>. DEFINE i == Turn + 1
            b == script[i].body
<1>3. i \in 1..Len(script) /\ script[i] \in GoodShape /\ b \in Nat
  <2>1. i \in 1..Len(script) /\ script[i] \in GoodShape
    BY <1>2, GoodScript DEF IInv
  <2>. QED
    BY <2>1, LinesOf
<1>4. /\ After(rd, b) = Place(i + 1, 1) /\ Tokens(rd, b) = BodyOf(i)
      /\ b > 0 => rd.req = i /\ rd.tok + b = Size(script[i]) + 1
  BY <1>2, <1>3, ContentSpan DEF IInv
<1>5. rd \in Stream /\ ~Before(arrived, rd) /\ (arrived.req # rd.req \/ arrived.tok - rd.tok >= b)
  BY <1>2 DEF IInv, TypeInv, ContentThere
<1>6. b > 0 => rd.req \in 1..Len(script) /\ rd.tok + b <= Size(script[rd.req]) + 1
  BY <1>3, <1>4, LinesOf
<1>7. After(rd, b) \in Stream /\ ~Before(arrived, After(rd, b))
  <2>. HIDE DEF b
  <2>. QED
    BY <1>3, <1>5, <1>6, AfterInStream DEF IInv
<1>8. rd' = After(rd, b)
  BY <1>2 DEF TakeContent
<1>. QED
  BY <1>1, <1>2, <1>3, <1>4, <1>7, <1>8

\* A body that is there is taken as a whole, and its request is queued.
LEMMA ContentParsedStep == ASSUME IInv, ContentParsed PROVE IInv'
<1>1. /\ pc = "content" /\ AwaitsContent /\ ContentThere /\ TakeContent
      /\ requests' = Append(requests, [req |-> parser.req,
                                       body |-> Tokens(rd, script[parser.req].body)])
      /\ parser' = [parser EXCEPT !.done = TRUE] /\ pc' = "lines"
      /\ UNCHANGED <<script, arrived, closed, freed, answers, frees>>
  BY DEF ContentParsed
<1>2. /\ ~closed /\ Turn \in Nat /\ Turn + 1 \in 1..Len(script)
      /\ parser \in Parser /\ parser.req = Turn + 1
      /\ rd' \in Stream /\ ~Before(arrived, rd') /\ rd' = Place(Turn + 2, 1)
      /\ Tokens(rd, script[parser.req].body) = BodyOf(Turn + 1)
  BY <1>1, AtContent
<1>3. parser' \in Parser /\ parser'.done /\ parser'.req = Turn + 1
  BY <1>1, <1>2 DEF Parser
<1>4. Turn < Len(script)
  BY <1>2, TurnBound
<1>. QED
  BY <1>1, <1>2, <1>3, <1>4, Queued

\* A body that cannot be parsed ends the connection.
LEMMA ContentMalformedStep == ASSUME IInv, ContentMalformed PROVE IInv'
<1>1. /\ pc = "content" /\ AwaitsContent /\ ContentThere /\ TakeContent
      /\ Fail(parser, parser.req) /\ UNCHANGED <<script, arrived, requests, freed>>
  BY DEF ContentMalformed
<1>2. /\ ~closed /\ Turn \in Nat /\ Turn + 1 \in 1..Len(script)
      /\ parser \in Parser /\ ~parser.done /\ parser.req = Turn + 1
      /\ rd' \in Stream /\ ~Before(arrived, rd')
  BY <1>1, AtContent
<1>3. Turn < Len(script)
  BY <1>2, TurnBound
<1>. QED
  BY <1>1, <1>2, <1>3, Failed
-----------------------------------------------------------------------------
\* A request in the queue is freed once.
LEMMA QueuedOnce ==
  ASSUME IInv, ~closed, FreeQueued
  PROVE  /\ frees' \in [1..Len(script) -> Nat]
         /\ \A i \in 1..Len(script) : frees'[i] = IF i <= Turn THEN 1 ELSE 0
<1>1. /\ Len(answers) \in Nat /\ Len(requests) \in Nat /\ Len(script) \in Nat
      /\ Turn = Len(answers) + Len(requests)
  BY TurnBound DEF Turn
<1>2. frees \in [1..Len(script) -> Nat] /\ DOMAIN requests = 1..Len(requests)
  BY DEF IInv, TypeInv
<1>3. ASSUME NEW k \in 1..Len(requests)
      PROVE  requests[k].req = Len(answers) + k
  <2>1. requests[k] = [req |-> Len(answers) + k, body |-> BodyOf(Len(answers) + k)]
    BY DEF IInv, OpenInv, QueuedInv
  <2>. QED
    BY <2>1
<1>4. ASSUME NEW i \in 1..Len(script)
      PROVE  Cardinality({k \in DOMAIN requests : requests[k].req = i}) =
               IF i > Len(answers) /\ i <= Turn THEN 1 ELSE 0
  <2>. DEFINE K == {k \in DOMAIN requests : requests[k].req = i}
  <2>1. CASE i > Len(answers) /\ i <= Turn
    <3>1. K = {i - Len(answers)}
      BY <1>1, <1>2, <1>3, <2>1
    <3>. QED
      BY <2>1, <3>1, FS_Singleton
  <2>2. CASE ~(i > Len(answers) /\ i <= Turn)
    <3>1. K = {}
      BY <1>1, <1>2, <1>3, <2>2
    <3>. QED
      BY <2>2, <3>1, FS_EmptySet
  <2>. QED
    BY <2>1, <2>2
<1>5. \A i \in 1..Len(script) : frees[i] = IF i <= Len(answers) THEN 1 ELSE 0
  BY DEF IInv, OpenInv, FreesInv
<1>6. ASSUME NEW i \in 1..Len(script)
      PROVE  frees[i] + Cardinality({k \in DOMAIN requests : requests[k].req = i})
               = IF i <= Turn THEN 1 ELSE 0
  BY <1>1, <1>4, <1>5
<1>7. frees' = [i \in 1..Len(script) |->
                  frees[i] + Cardinality({k \in DOMAIN requests : requests[k].req = i})]
  BY <1>2 DEF FreeQueued
<1>8. ASSUME NEW i \in 1..Len(script)
      PROVE  frees'[i] = IF i <= Turn THEN 1 ELSE 0
  BY <1>6, <1>7
<1>9. frees' \in [1..Len(script) -> Nat]
  BY <1>6, <1>7
<1>. QED
  BY <1>8, <1>9

\* The queue is answered in its order and freed.
LEMMA RespondStep == ASSUME IInv, Respond PROVE IInv'
<1>. DEFINE new == [k \in 1..Len(requests) |-> Answer(requests[k])]
            T == [req : Nat, ok : BOOLEAN, body : SUBSET Spot]
<1>1. /\ pc = "respond" /\ answers' = answers \o new /\ FreeQueued /\ requests' = <<>>
      /\ pc' = "wait" /\ UNCHANGED <<script, arrived, rd, parser, closed, freed>>
  BY DEF Respond
<1>2. ~closed
  BY <1>1 DEF IInv, ClosedInv
<1>3. /\ Len(answers) \in Nat /\ Len(requests) \in Nat /\ Len(script) \in Nat
      /\ Turn = Len(answers) + Len(requests) /\ Turn \in 0..Len(script)
  BY <1>2, TurnBound DEF Turn
<1>4. ASSUME NEW k \in 1..Len(requests)
      PROVE  new[k] = [req |-> Len(answers) + k, ok |-> TRUE, body |-> BodyOf(Len(answers) + k)]
  <2>1. requests[k] = [req |-> Len(answers) + k, body |-> BodyOf(Len(answers) + k)]
    BY <1>2 DEF IInv, OpenInv, QueuedInv
  <2>2. new[k] = Answer(requests[k])
    OBVIOUS
  <2>. QED
    BY <2>1, <2>2 DEF Answer
<1>5. new \in Seq(T) /\ Len(new) = Len(requests)
  <2>1. ASSUME NEW k \in 1..Len(requests)
        PROVE  new[k] \in T
    <3>1. Len(answers) + k \in 1..Len(script)
      BY <1>3
    <3>2. BodyOf(Len(answers) + k) \in SUBSET Spot
      BY <3>1, BodyType DEF IInv
    <3>3. Len(answers) + k \in Nat
      BY <1>3
    <3>4. new[k] = [req |-> Len(answers) + k, ok |-> TRUE, body |-> BodyOf(Len(answers) + k)]
      BY <1>4
    <3>. HIDE DEF new
    <3>. QED
      BY <3>2, <3>3, <3>4
  <2>2. new \in [1..Len(requests) -> T]
    BY <2>1
  <2>. QED
    <3>. HIDE DEF new, T
    <3>. QED
      BY <1>3, <2>2
<1>6. answers \in Seq(T)
  BY DEF IInv, TypeInv
<1>7. /\ answers' \in Seq(T) /\ Len(answers') = Turn
      /\ \A n \in 1..Len(answers) : answers'[n] = answers[n]
      /\ \A n \in 1..Turn : n > Len(answers) => answers'[n] = new[n - Len(answers)]
  <2>. HIDE DEF new, T
  <2>. QED
    BY <1>1, <1>3, <1>5, <1>6
<1>8. AnsweredInv'
  <2>1. ASSUME NEW n \in 1..Len(answers')
        PROVE  answers'[n] = [req |-> n, ok |-> TRUE, body |-> BodyOf(n)]
    <3>1. CASE n \in 1..Len(answers)
      BY <1>2, <1>7, <3>1 DEF IInv, OpenInv, AnsweredInv
    <3>2. CASE n > Len(answers)
      <4>1. n - Len(answers) \in 1..Len(requests) /\ Len(answers) + (n - Len(answers)) = n
        BY <1>3, <1>7, <3>2
      <4>2. answers'[n] = new[n - Len(answers)]
        BY <1>7, <3>2
      <4>. QED
        <5>. HIDE DEF new
        <5>. QED
          BY <1>4, <4>1, <4>2
    <3>. QED
      BY <1>3, <1>7, <3>1, <3>2
  <2>. QED
    BY <1>1, <2>1, SameScript DEF AnsweredInv
<1>9. QueuedInv' /\ Turn' = Turn
  BY <1>1, <1>3, <1>7 DEF QueuedInv, Turn
<1>10. frees' \in [1..Len(script) -> Nat] /\ FreesInv'
  BY <1>1, <1>2, <1>7, QueuedOnce DEF FreesInv
<1>11. TypeInv'
  BY <1>1, <1>7, <1>10, SameScript DEF IInv, TypeInv, Before
<1>12. BetweenInv' /\ InRequestInv' /\ InLinesInv' /\ AtContentInv'
  <2>1. ContentAt(Turn + 1)' = ContentAt(Turn + 1)
    BY <1>1, <1>9, SameScript
  <2>2. BetweenInv /\ InRequestInv /\ InLinesInv /\ AtContentInv
    BY <1>2 DEF IInv, OpenInv
  <2>3. BetweenInv'
    BY <1>1, <1>9, <2>2 DEF BetweenInv, Place
  <2>4. InRequestInv'
    BY <1>1, <1>9, <2>2 DEF InRequestInv
  <2>5. InLinesInv'
    BY <1>1, <1>9, <2>2 DEF InLinesInv, Lines
  <2>6. AtContentInv'
    BY <1>1, <1>9, <2>1, <2>2 DEF AtContentInv
  <2>. QED
    BY <2>3, <2>4, <2>5, <2>6
<1>13. QueueWaitsForBody' /\ ClosedInv' /\ EndlessInv'
  BY <1>1, <1>2 DEF QueueWaitsForBody, ClosedInv, EndlessInv
<1>. QED
  BY <1>1, <1>8, <1>9, <1>10, <1>11, <1>12, <1>13 DEF IInv, OpenInv
-----------------------------------------------------------------------------
(* The end of the connection, and the whole.                                 *)

\* The client goes, or is silent for too long.
LEMMA EventCbStep == ASSUME IInv, EventCb PROVE IInv'
<1>1. /\ ~closed /\ pc = "wait" /\ Terminate(parser) /\ freed' = TRUE
      /\ UNCHANGED <<script, arrived, rd, parser, requests, pc, answers>>
  BY DEF EventCb
<1>2. parser \in Parser
  BY DEF IInv, TypeInv
<1>3. parser.req_parsed => IF parser.done THEN parser.req = Turn /\ Turn >= 1
                           ELSE parser.req = Turn + 1 /\ Turn < Len(script)
  BY <1>1 DEF IInv, OpenInv, BetweenInv, InRequestInv
<1>4. /\ closed' = TRUE /\ frees' \in [1..Len(script) -> Nat]
      /\ \A i \in 1..Len(script) : frees'[i] <= 1
      /\ \A i \in 1..Len(script) : i <= Len(answers) => frees'[i] = 1
      /\ parser.req_parsed => parser.req \in 1..Len(script) /\ frees'[parser.req] = 1
  BY <1>1, <1>2, <1>3, Terminated
<1>5. TypeInv'
  BY <1>1, <1>4, SameScript DEF IInv, TypeInv, Before
<1>6. \A n \in 1..Len(answers) : /\ n \in 1..Len(script)
                                 /\ answers[n].req = n /\ answers[n].ok
                                 /\ answers[n].body = BodyOf(n)
  BY <1>1, AnswersBound
<1>7. AnswersInOrder'
  BY <1>1, <1>6, SameScript DEF AnswersInOrder
<1>8. FreedOnce'
  BY <1>1, <1>4, <1>6 DEF FreedOnce
<1>. QED
  BY <1>1, <1>4, <1>5, <1>7, <1>8 DEF IInv, OpenInv, ClosedInv

\* Once it is terminated nothing but its own end happens to a connection.
LEMMA StutterStep ==
  ASSUME IInv, UNCHANGED <<script, arrived, rd, parser, requests, pc, closed, answers, frees>>,
         freed' \in BOOLEAN
  PROVE  IInv'
<1>1. TypeInv'
  BY SameScript DEF IInv, TypeInv, Before
<1>2. OpenInv'
  <2>1. CASE ~closed
    BY <2>1, QueueKept, ParserKept DEF IInv, OpenInv, QueueWaitsForBody
  <2>2. CASE closed
    BY <2>2 DEF OpenInv
  <2>. QED
    BY <2>1, <2>2
<1>3. ClosedInv'
  BY SameScript DEF IInv, ClosedInv, AnswersInOrder, FreedOnce
<1>. QED
  BY <1>1, <1>2, <1>3 DEF IInv

\* A connection begins with nothing read and nothing answered.
LEMMA InitInv == Init => IInv
<1>. SUFFICES ASSUME Init PROVE IInv
  OBVIOUS
<1>1. script \in Seq(GoodShape) /\ Len(script) \in Nat \ {0}
  <2>1. PICK n \in 1..MaxRequests : script \in [1..n -> Shapes]
    BY DEF Init
  <2>2. n \in Nat \ {0}
    BY <2>1, BoundAssumption
  <2>3. script \in [1..n -> GoodShape]
    BY <2>1, ShapeAssumption DEF GoodShape
  <2>. QED
    BY <2>2, <2>3
<1>2. /\ arrived = Place(1, 1) /\ rd = Place(1, 1) /\ parser = Idle /\ requests = <<>>
      /\ pc = "wait" /\ closed = FALSE /\ freed = FALSE /\ answers = <<>>
      /\ frees = [i \in 1..Len(script) |-> 0]
  BY DEF Init
<1>3. Place(1, 1) \in Stream
  <2>1. script[1] \in GoodShape /\ 1 \in 1..Len(script)
    BY <1>1
  <2>2. 1 \in 1..Size(script[1])
    BY <2>1, LinesOf
  <2>3. Place(1, 1) \in UNION {{Place(i, t) : t \in 1..Size(script[i])} : i \in 1..Len(script)}
    BY <2>1, <2>2
  <2>. QED
    BY <2>3, Zenon DEF Stream
<1>4. TypeInv
  <2>1. parser \in Parser
    BY <1>1, <1>2 DEF Idle, Parser
  <2>2. ~Before(arrived, rd)
    BY <1>2 DEF Before, Place
  <2>3. \A S : <<>> \in Seq(S)
    OBVIOUS
  <2>4. frees \in [1..Len(script) -> Nat]
    BY <1>2
  <2>. QED
    BY <1>1, <1>2, <1>3, <2>1, <2>2, <2>3, <2>4 DEF TypeInv
<1>5. OpenInv
  <2>1. Turn = 0
    BY <1>2 DEF Turn
  <2>2. parser.done /\ ~parser.req_parsed
    BY <1>2 DEF Idle
  <2>. QED
    BY <1>2, <2>1, <2>2
       DEF OpenInv, AnsweredInv, QueuedInv, FreesInv, BetweenInv, InRequestInv, InLinesInv,
           AtContentInv, EndlessInv, QueueWaitsForBody
<1>. QED
  BY <1>2, <1>4, <1>5 DEF IInv, ClosedInv

\* The invariant holds in every state.
LEMMA Invariant == Spec => []IInv
<1>1. ASSUME IInv, [Next]_vars PROVE IInv'
  <2>1. CASE ReadCb
    <3>. USE <1>1
    <3>. QED
      BY <2>1, GoOnStep, ContentParsedStep, ContentMalformedStep, RequestLineStep, BadLineStep,
         EndlessStep, HeaderStep, ContentLengthStep, RequestCompleteStep, ContentFollowsStep, RespondStep
         DEF ReadCb
  <2>2. CASE WriteError
    BY <1>1, <2>2, StutterStep DEF WriteError
  <2>3. CASE UNCHANGED vars
    BY <1>1, <2>3, StutterStep DEF vars, IInv, TypeInv
  <2>. QED
    BY <1>1, <2>1, <2>2, <2>3, ReceiveStep, EventCbStep DEF Next
<1>. QED
  BY <1>1, InitInv, PTL DEF Spec
-----------------------------------------------------------------------------
\* No more of a client's bytes is read than has arrived, the parser and the queue speak of
\* requests of the client, and readcb is at one of its places.
THEOREM TypeCorrect == Spec => []TypeOK
<1>1. IInv => TypeOK
  <2>. SUFFICES ASSUME IInv PROVE TypeOK
    OBVIOUS
  <2>1. \A k \in 1..Len(requests) : requests[k].req \in 1..Len(script)
    <3>. DEFINE T == [req : 1..Len(script), body : SUBSET Spot]
    <3>1. requests \in Seq(T)
      BY DEF IInv, TypeInv
    <3>2. \A k \in 1..Len(requests) : requests[k] \in T
      <4>. HIDE DEF T
      <4>. QED
        BY <3>1
    <3>. QED
      BY <3>2
  <2>. QED
    BY <2>1 DEF TypeOK, IInv, TypeInv, Parser
<1>. QED
  BY <1>1, Invariant, PTL

\* However the bytes are cut, answers come in the order of the requests, each for its own
\* body, and nothing follows an error.
THEOREM AnswersAreInOrder == Spec => []AnswersInOrder
<1>1. IInv => AnswersInOrder
  <2>. SUFFICES ASSUME IInv PROVE AnswersInOrder
    OBVIOUS
  <2>1. CASE closed
    BY <2>1 DEF IInv, ClosedInv
  <2>2. CASE ~closed
    BY <2>2, AnswersBound DEF AnswersInOrder
  <2>. QED
    BY <2>1, <2>2
<1>. QED
  BY <1>1, Invariant, PTL

\* Requests are freed once, in the loop that answers them or by terminate.
THEOREM RequestsAreFreedOnce == Spec => []FreedOnce
<1>1. IInv => FreedOnce
  <2>. SUFFICES ASSUME IInv PROVE FreedOnce
    OBVIOUS
  <2>1. CASE closed
    BY <2>1 DEF IInv, ClosedInv
  <2>2. CASE ~closed
    BY <2>2 DEF IInv, OpenInv, TypeInv, FreesInv, FreedOnce
  <2>. QED
    BY <2>1, <2>2
<1>. QED
  BY <1>1, Invariant, PTL

\* Whenever readcb has returned, a complete request that has no answer waits for the body
\* of a later one.
THEOREM QueueIsServed == Spec => []QueueWaitsForBody
<1>1. IInv => QueueWaitsForBody
  BY DEF IInv, OpenInv, QueueWaitsForBody
<1>. QED
  BY <1>1, Invariant, PTL
-----------------------------------------------------------------------------
(* What a callback leaves behind: the part of AllAnswered that is not about  *)
(* fairness.                                                                 *)

AllHonest == \A i \in 1..Len(script) : Honest(script[i])

\* Between two callbacks all that has arrived is read, but for a body that is not all there.
RestInv ==
  ~closed =>
    /\ pc = "respond" => rd = arrived
    /\ pc = "wait" => IF AwaitsContent THEN ~ContentThere ELSE rd = arrived

\* The connection of a client that sends good requests is not closed for an error.
NoErrorInv == AllHonest /\ closed => freed

\* When all requests of such a client have arrived and readcb has returned, they are
\* answered, unless the client has left.
GoodClientIsServed ==
  AllHonest /\ arrived = End /\ pc = "wait" => AllOk \/ freed

\* What remains for readcb to do where it is, before it takes something off the input.
Rank == CASE pc = "content" -> 3
          [] pc = "lines" -> 2
          [] pc = "respond" -> 1
          [] pc \in {"wait", "endless"} -> 0
\* Nothing more arrives, and there is less to be read, or the same and less to be done.
Advances ==
  /\ arrived' = arrived
  /\ Before(rd, rd') \/ (rd' = rd /\ Rank' < Rank)
CallbackAdvances == [][ReadCb => Advances]_vars

\* readcb stays in the loop over a path at one place only: at the line of the first request
\* that is neither answered nor queued, when that line has no space after the path.  The
\* requests that are queued before it have no answer.
EndlessAtLine ==
  pc = "endless" =>
    /\ ~closed /\ Len(answers) + Len(requests) < Len(script)
    /\ script[Len(answers) + Len(requests) + 1].start = "endless"
    /\ \A n \in 1..Len(answers) : answers[n].ok /\ answers[n].req = n
    /\ \A k \in 1..Len(requests) : requests[k].req = Len(answers) + k
    /\ ~AllHonest

\* Every step leaves the input read as far as it can be.
LEMMA RestStep == IInv /\ RestInv /\ [Next]_vars => RestInv'
<1>. SUFFICES ASSUME IInv, RestInv, [Next]_vars PROVE RestInv'
  OBVIOUS
<1>. USE DEF RestInv
<1>1. CASE Receive \/ NoContent \/ ContentParsed \/ ContentFollows
  BY <1>1 DEF Receive, NoContent, ContentParsed, ContentFollows
<1>2. CASE ContentMissing
  BY <1>2 DEF ContentMissing, AwaitsContent, ContentThere
<1>3. CASE ContentMalformed \/ RequestMalformed \/ ContentOversized \/ ContentUnsupported
           \/ EventCb
  BY <1>3 DEF ContentMalformed, RequestMalformed, ContentOversized, ContentUnsupported, EventCb,
              Fail, Terminate
<1>4. CASE RequestLine \/ RequestEndless \/ Header \/ ContentLength \/ RequestComplete
  BY <1>4 DEF RequestLine, RequestEndless, Header, ContentLength, RequestComplete, NextLine
<1>5. CASE NoMoreLines
  BY <1>5 DEF NoMoreLines
<1>6. CASE Respond
  <2>1. ~closed => rd = arrived /\ ~AwaitsContent
    BY <1>6 DEF Respond, IInv, OpenInv
  <2>. QED
    BY <1>6, <2>1 DEF Respond, AwaitsContent
<1>7. CASE WriteError
  BY <1>7 DEF WriteError
<1>8. CASE UNCHANGED vars
  BY <1>8 DEF vars, AwaitsContent, ContentThere
<1>. QED
  BY <1>1, <1>2, <1>3, <1>4, <1>5, <1>6, <1>7, <1>8 DEF Next, ReadCb

\* None of the errors is met with good requests.
LEMMA NoErrorStep == IInv /\ NoErrorInv /\ [Next]_vars => NoErrorInv'
<1>. SUFFICES ASSUME IInv, NoErrorInv, [Next]_vars, AllHonest', closed' PROVE freed'
  BY DEF NoErrorInv
<1>1. script' = script /\ AllHonest
  <2>1. script' = script
    BY DEF Next, vars, Receive, ReadCb, EventCb, WriteError, NoContent, ContentMissing,
           ContentParsed, ContentMalformed, RequestLine, RequestMalformed, RequestEndless, Header,
           ContentLength, ContentOversized, RequestComplete, ContentFollows, ContentUnsupported, NoMoreLines,
           Respond
  <2>. QED
    BY <2>1 DEF AllHonest
<1>2. ASSUME NEW w, NextLine(w)
      PROVE  /\ ~NextParser.req_parsed => Line = "line"
             /\ NextParser.req_parsed => Line # "oversized"
             /\ NextParser.has_content => script[NextParser.req].format # "other"
  <2>1. Turn + 1 \in 1..Len(script) /\ script[Turn + 1] \in GoodShape
    BY <1>2, AtLine
  <2>2. Honest(script[Turn + 1])
    BY <1>1, <2>1 DEF AllHonest
  <2>3. CASE NextParser.req_parsed
    <3>1. /\ NextParser.req = Turn + 1 /\ rd.tok \in 2..Len(Lines(script[Turn + 1]))
          /\ Line = Lines(script[Turn + 1])[rd.tok]
          /\ NextParser.has_content => script[Turn + 1].length = "fits"
      BY <1>2, <2>3, AtLine
    <3>2. script[Turn + 1].start = "line" /\ script[Turn + 1].length \in {"none", "fits"}
      BY <2>1, <2>2, LinesOf DEF Honest
    <3>3. Line # "oversized"
      <4>1. /\ Lines(script[Turn + 1])[2] = "header"
            /\ \/ Len(Lines(script[Turn + 1])) = 3 /\ Lines(script[Turn + 1])[3] = "blank"
               \/ /\ Len(Lines(script[Turn + 1])) = 4
                  /\ Lines(script[Turn + 1])[3] = "fits" /\ Lines(script[Turn + 1])[4] = "blank"
        BY <2>1, <3>2, LinesOf
      <4>2. rd.tok \in {2, 3} \/ (rd.tok = 4 /\ Len(Lines(script[Turn + 1])) = 4)
        BY <3>1, <4>1
      <4>. QED
        BY <3>1, <4>1, <4>2
    <3>. QED
      BY <2>2, <2>3, <3>1, <3>3 DEF Honest
  <2>4. CASE ~NextParser.req_parsed
    BY <1>2, <2>2, <2>4, AtLine DEF Honest, Idle
  <2>. QED
    BY <2>3, <2>4
<1>3. ~RequestMalformed /\ ~ContentOversized /\ ~ContentUnsupported
  <2>1. ~RequestMalformed
    BY <1>2 DEF RequestMalformed, NextLine
  <2>2. ~ContentOversized
    BY <1>2 DEF ContentOversized, NextLine
  <2>3. ~ContentUnsupported
    BY <1>2 DEF ContentUnsupported, NextLine
  <2>. QED
    BY <2>1, <2>2, <2>3
<1>4. ~ContentMalformed
  <2>. SUFFICES ASSUME ContentMalformed PROVE FALSE
    OBVIOUS
  <2>1. ~closed /\ parser.req = Turn + 1 /\ Turn + 1 \in 1..Len(script)
    BY AtContent DEF ContentMalformed
  <2>2. script[parser.req].length = "fits"
    BY <2>1 DEF ContentMalformed, AwaitsContent, IInv, OpenInv, AtContentInv
  <2>3. Honest(script[parser.req])
    BY <1>1, <2>1 DEF AllHonest
  <2>. QED
    BY <2>2, <2>3 DEF ContentMalformed, Honest
<1>5. CASE closed
  <2>1. freed
    BY <1>1, <1>5 DEF NoErrorInv
  <2>. QED
    BY <1>3, <1>4, <2>1
       DEF Next, vars, Receive, ReadCb, EventCb, WriteError, NoContent, ContentMissing,
           ContentParsed, RequestLine, RequestEndless, Header, ContentLength, RequestComplete, ContentFollows,
           NoMoreLines, Respond
<1>6. CASE ~closed
  BY <1>3, <1>4, <1>6
     DEF Next, vars, Receive, ReadCb, EventCb, WriteError, NoContent, ContentMissing,
         ContentParsed, RequestLine, RequestEndless, Header, ContentLength, RequestComplete, ContentFollows,
         NoMoreLines, Respond
<1>. QED
  BY <1>5, <1>6

\* The invariants hold in every state.
LEMMA Served == Spec => [](IInv /\ RestInv /\ NoErrorInv)
<1>1. Init => RestInv /\ NoErrorInv
  BY DEF Init, RestInv, NoErrorInv, AwaitsContent, Idle
<1>. QED
  BY <1>1, RestStep, NoErrorStep, Invariant, PTL DEF Spec

\* A client that sends good requests, cut as they may be, has all its answers as soon as
\* they are all there and readcb has returned; or it has left.
THEOREM GoodClientsAreServed == Spec => []GoodClientIsServed
<1>1. IInv /\ RestInv /\ NoErrorInv => GoodClientIsServed
  <2>. SUFFICES ASSUME IInv, RestInv, NoErrorInv, AllHonest, arrived = End, pc = "wait", ~freed
                PROVE  AllOk
    BY DEF GoodClientIsServed
  <2>1. ~closed
    BY DEF NoErrorInv
  <2>2. /\ Len(answers) \in Nat /\ Len(requests) \in Nat /\ Len(script) \in Nat
        /\ Turn \in 0..Len(script) /\ Turn = Len(answers) + Len(requests)
    BY <2>1, TurnBound DEF Turn
  <2>3. arrived = Place(Len(script) + 1, 1)
    BY DEF End
  <2>4. ~AwaitsContent
    <3>. SUFFICES ASSUME AwaitsContent PROVE FALSE
      OBVIOUS
    <3>1. /\ ~ContentThere /\ parser.req = Turn + 1 /\ Turn < Len(script)
          /\ script[Turn + 1].start = "line" /\ script[Turn + 1].length = "fits"
          /\ rd = ContentAt(Turn + 1)
      BY <2>1 DEF RestInv, AwaitsContent, IInv, OpenInv, InRequestInv, AtContentInv
    <3>. DEFINE i == Turn + 1
                b == script[i].body
    <3>2. i \in 1..Len(script) /\ script[i] \in GoodShape
      BY <2>2, <3>1, GoodScript DEF IInv
    <3>3. b \in Nat
      BY <3>2, LinesOf
    <3>4. b > 0 => rd.req = i
      BY <3>1, <3>2, ContentSpan DEF IInv
    <3>5. arrived.req = rd.req /\ arrived.tok - rd.tok < b
      <4>1. arrived.req = rd.req /\ ~(arrived.tok - rd.tok >= b)
        BY <3>1 DEF ContentThere
      <4>2. arrived.tok \in Nat /\ rd.tok \in Nat
        BY StreamPlace DEF IInv, TypeInv
      <4>. QED
        BY <3>3, <4>1, <4>2
    <3>6. b = 0
      <4>1. arrived.req = Len(script) + 1
        BY <2>3 DEF Place
      <4>. QED
        BY <2>2, <3>1, <3>3, <3>4, <3>5, <4>1
    <3>7. arrived.tok \in Nat /\ rd.tok \in Nat /\ arrived.req \in Nat /\ ~Before(arrived, rd)
      BY StreamPlace DEF IInv, TypeInv
    <3>. QED
      BY <3>5, <3>6, <3>7 DEF Before
  <2>5. rd = Place(Len(script) + 1, 1)
    BY <2>1, <2>3, <2>4 DEF RestInv
  <2>6. parser.done
    <3>. SUFFICES ASSUME ~parser.done PROVE FALSE
      OBVIOUS
    <3>1. rd.req = Turn + 1 /\ Turn < Len(script)
      BY <2>1, <2>4 DEF AwaitsContent, IInv, OpenInv, InRequestInv, InLinesInv
    <3>. QED
      BY <2>2, <2>5, <3>1 DEF Place
  <2>7. Turn = Len(script)
    <3>1. rd = Place(Turn + 1, 1)
      BY <2>1, <2>6 DEF IInv, OpenInv, BetweenInv
    <3>. QED
      BY <2>2, <2>5, <3>1 DEF Place
  <2>8. requests = <<>>
    BY <2>1, <2>4 DEF IInv, OpenInv, QueueWaitsForBody
  <2>9. Len(answers) = Len(script)
    BY <2>2, <2>7, <2>8
  <2>10. \A n \in 1..Len(answers) : answers[n].ok
    BY <2>1, AnswersBound
  <2>. QED
    BY <2>9, <2>10 DEF AllOk
<1>. QED
  BY <1>1, Served, PTL

\* Between the lines of readcb nothing goes round in circles: a step of it reads on, or
\* leaves less to do before it reads on, and what has arrived is finite.  One line can hold
\* it for good: the loop over the path in request_parse does not see the end of a line that
\* has no space after the path, and then the requests queued before it get no answer, either.
THEOREM CallbacksAdvance == Spec => CallbackAdvances /\ []EndlessAtLine
<1>1. IInv /\ [Next]_vars => [ReadCb => Advances]_vars
  <2>. SUFFICES ASSUME IInv, ReadCb PROVE Advances
    OBVIOUS
  <2>1. /\ rd \in Stream /\ rd.req \in Nat /\ rd.tok \in Nat
    BY StreamPlace DEF IInv, TypeInv
  <2>2. CASE NoContent \/ ContentMissing \/ NoMoreLines \/ Respond
    BY <2>2 DEF NoContent, ContentMissing, NoMoreLines, Respond, Advances, Rank
  <2>3. CASE ContentParsed \/ ContentMalformed
    <3>1. /\ pc = "content" /\ AwaitsContent /\ ContentThere /\ TakeContent
          /\ pc' \in {"lines", "wait"} /\ arrived' = arrived
      BY <2>3 DEF ContentParsed, ContentMalformed, Fail
    <3>2. Turn \in Nat /\ parser.req = Turn + 1 /\ rd' = Place(Turn + 2, 1)
      BY <3>1, AtContent
    <3>3. rd = ContentAt(Turn + 1)
      BY <3>1, AtContent DEF AwaitsContent, IInv, OpenInv, AtContentInv
    <3>4. rd.req = Turn + 1 \/ rd = Place(Turn + 2, 1)
      BY <3>2, <3>3 DEF ContentAt, After, Place
    <3>5. Rank' < Rank
      BY <3>1 DEF Rank
    <3>. QED
      BY <3>1, <3>2, <3>4, <3>5 DEF Advances, Before, Place
  <2>4. CASE RequestLine \/ RequestMalformed \/ RequestEndless \/ Header
             \/ ContentLength \/ ContentOversized \/ RequestComplete \/ ContentFollows \/ ContentUnsupported
    <3>1. PICK w : NextLine(w)
      BY <2>4 DEF RequestLine, RequestMalformed, RequestEndless, Header, ContentLength,
                  ContentOversized, RequestComplete, ContentFollows, ContentUnsupported
    <3>2. TakeLine /\ arrived' = arrived
      BY <2>4 DEF RequestLine, RequestMalformed, RequestEndless, Header, ContentLength,
                  ContentOversized, RequestComplete, ContentFollows, ContentUnsupported
    <3>3. Before(rd, rd')
      BY <2>1, <3>2 DEF TakeLine, After, Place, Before
    <3>. QED
      BY <3>2, <3>3 DEF Advances
  <2>. QED
    BY <2>2, <2>3, <2>4 DEF ReadCb
<1>2. IInv => EndlessAtLine
  <2>. SUFFICES ASSUME IInv, pc = "endless" PROVE EndlessAtLine
    BY DEF EndlessAtLine
  <2>1. ~closed
    BY DEF IInv, ClosedInv
  <2>2. Turn < Len(script) /\ script[Turn + 1].start = "endless" /\ Turn \in Nat
    BY <2>1, TurnBound DEF IInv, OpenInv, EndlessInv
  <2>3. ~AllHonest
    <3>1. Turn + 1 \in 1..Len(script)
      BY <2>2, GoodScript DEF IInv
    <3>. QED
      BY <2>2, <3>1 DEF AllHonest, Honest
  <2>4. \A k \in 1..Len(requests) : requests[k].req = Len(answers) + k
    <3>. SUFFICES ASSUME NEW k \in 1..Len(requests) PROVE requests[k].req = Len(answers) + k
      OBVIOUS
    <3>1. requests[k] = [req |-> Len(answers) + k, body |-> BodyOf(Len(answers) + k)]
      BY <2>1 DEF IInv, OpenInv, QueuedInv
    <3>. QED
      BY <3>1
  <2>5. \A n \in 1..Len(answers) : answers[n].ok /\ answers[n].req = n
    BY <2>1, AnswersBound
  <2>. QED
    BY <2>1, <2>2, <2>3, <2>4, <2>5 DEF EndlessAtLine, Turn
<1>. QED
  BY <1>1, <1>2, Invariant, PTL DEF Spec, CallbackAdvances
=============================================================================
