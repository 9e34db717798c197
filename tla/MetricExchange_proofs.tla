------------------------ MODULE MetricExchange_proofs ------------------------
(***************************************************************************)
(* Theorems about one connection's exchanges, for every buffer size, every *)
(* set of requests and every way they are cut into segments.               *)
(***************************************************************************)
EXTENDS MetricExchange, TLAPS

Busy == {"receive", "parse", "send", "sent"}

\* Where the bytes of the request are.
Bytes ==
    /\ request = NoRequest => unsent = 0 /\ inbox = 0 /\ total = 0
    /\ request # NoRequest => unsent + inbox + total <= request.size
    /\ pc \in {"send", "sent"} =>
          request # NoRequest /\ total = request.size
    /\ pc \in Busy => open /\ reported = "in"
    /\ pc \notin Busy => total = 0

\* A request that was whole when its turn came is in the buffer or on its way.
Whole ==
    (whole /\ pc \in {"receive", "parse"}) =>
        /\ request # NoRequest /\ unsent = 0
        /\ inbox + total = request.size
        /\ pc = "parse" => inbox = 0 \/ total >= Room

KeptInv ==
    pc \in {"send", "sent"} =>
        /\ answer.keep => /\ request.copied > 0
                          /\ request.agree = 1 .. request.copied
        /\ request.agree = Positions => answer.keep

\* Once poll has reported the request no question is put before its answer.
Heard == reported = "in" => inbox + total > 0 \/ link \in {"fin", "rst"}

NewOrBroken(s) == s \in broken \/ mdb[s] = "new"

FreshInv ==
    /\ Source \ working \subseteq broken
    /\ pc # "update" => next = 1
    /\ pc = "update" /\ reported = "in" =>
          \A i \in 1 .. next - 1 : NewOrBroken(Sources[i])
    /\ pc \in {"serve", "receive", "parse"} /\ reported = "in" =>
          \A s \in Source : NewOrBroken(s)
    /\ answer.body # NoBody => pc \in {"send", "sent"}
    /\ Fresh

XInv ==
    /\ ExchangeTypeOK /\ DatabaseTypeOK /\ BufferInBounds
    /\ Bytes /\ Whole /\ KeptInv /\ Heard /\ FreshInv

----------------------------------------------------------------------------

\* The sources by name.
LEMMA FiveSources ==
    /\ Len(Sources) = 5
    /\ Source = {"jit", "caches", "cpu", "thread", "machine"}
    /\ \A i \in 1 .. 5 : Sources[i] \in Source
    /\ \A s \in Source : \E i \in 1 .. 5 : Sources[i] = s
<1>1. Len(Sources) = 5
  BY DEF Sources
<1>2. /\ Sources[1] = "jit" /\ Sources[2] = "caches" /\ Sources[3] = "cpu"
      /\ Sources[4] = "thread" /\ Sources[5] = "machine"
  BY DEF Sources
<1>3. \A i \in 1 .. 5 : i = 1 \/ i = 2 \/ i = 3 \/ i = 4 \/ i = 5
  OBVIOUS
<1>4. Source = {Sources[i] : i \in 1 .. 5}
  BY <1>1 DEF Source
<1> QED
  BY <1>1, <1>2, <1>3, <1>4

\* A request of the instance is one of the parser's.
LEMMA RequestsTyped ==
    \A r \in Requests :
        /\ r.size \in Nat \ {0} /\ r.copied \in 0 .. Letters
        /\ r.agree \subseteq 1 .. r.copied
  BY ExchangeAssumption DEF Request, WellFormed

\* What is left in _connection by the parser is keep-alive's own letters only
\* if the header brought a beginning of them, and always if it brought all.
LEMMA ConnectionPrefix ==
    ASSUME NEW req \in Requests, NEW before \in SUBSET Positions
    PROVE  LET c == KeepAlive(ConnectionOf(before, req))
           IN  /\ c => req.copied > 0 /\ req.agree = 1 .. req.copied
               /\ req.agree = Positions => c
<1>1. /\ req.copied \in 0 .. Letters /\ req.agree \subseteq 1 .. req.copied
      /\ Letters \in Nat \ {0}
  BY RequestsTyped, LettersAssumption
<1>2. ASSUME ConnectionOf(before, req) = Positions
      PROVE  req.copied > 0 /\ req.agree = 1 .. req.copied
  <2>1. 1 \in Positions /\ 1 .. req.copied \subseteq Positions
    BY <1>1 DEF Positions
  <2>2. 1 \in req.agree
    BY <1>2, <2>1 DEF ConnectionOf
  <2>3. 1 .. req.copied \subseteq req.agree
    BY <1>2, <2>1 DEF ConnectionOf
  <2>4. req.copied > 0
    <3>1. 1 \in 1 .. req.copied
      BY <1>1, <2>2
    <3> QED
      BY <1>1, <3>1
  <2>5. req.agree = 1 .. req.copied
    BY <1>1, <2>3
  <2> QED
    BY <2>4, <2>5
<1>3. ASSUME req.agree = Positions
      PROVE  ConnectionOf(before, req) = Positions
  BY <1>3 DEF ConnectionOf
<1> QED
  BY <1>2, <1>3 DEF KeepAlive

LEMMA InitXInv == ExchangeInit => XInv
<1> SUFFICES ASSUME ExchangeInit PROVE XInv
  OBVIOUS
<1>1. ExchangeTypeOK
  <2>1. answer \in [status : {0, 200, 400, 404},
                   body : {NoBody} \cup [Source -> {"none", "old", "new"}],
                   keep : BOOLEAN]
    BY DEF ExchangeInit, NoAnswer
  <2> QED
    BY <2>1 DEF ExchangeInit, ExchangeTypeOK
<1>2. DatabaseTypeOK
  BY FiveSources DEF ExchangeInit, DatabaseInit, DatabaseTypeOK
<1>3. BufferInBounds
  BY ExchangeAssumption DEF ExchangeInit, BufferInBounds
<1>4. Bytes /\ Whole /\ KeptInv /\ Heard
  BY DEF ExchangeInit, Bytes, Whole, KeptInv, Heard, Busy
<1>5. FreshInv
  <2>1. answer.body = NoBody
    BY DEF ExchangeInit, NoAnswer
  <2> QED
    BY <2>1, FiveSources DEF ExchangeInit, DatabaseInit, FreshInv, Fresh
<1> QED
  BY <1>1, <1>2, <1>3, <1>4, <1>5 DEF XInv

----------------------------------------------------------------------------
(* The peer *)

\* Nothing the server's place, the database or the answer depend on.
LEMMA QuietPeer ==
    ASSUME XInv, Connect \/ Finish \/ Reset \/ (\E r \in Requests : AskFor(r))
    PROVE  XInv'
<1> USE DEF XInv, Connect, Finish, Reset, AskFor, server, database
<1>1. ExchangeTypeOK' /\ DatabaseTypeOK' /\ BufferInBounds'
  BY RequestsTyped DEF ExchangeTypeOK, DatabaseTypeOK, BufferInBounds
<1>2. Bytes' /\ Whole'
  BY RequestsTyped, ExchangeAssumption DEF ExchangeTypeOK, Bytes, Whole, Busy
<1>3. KeptInv' /\ Heard'
  BY DEF KeptInv, Heard, Bytes, ExchangeTypeOK
<1>4. FreshInv'
  BY DEF FreshInv, Fresh, NewOrBroken
<1> QED
  BY <1>1, <1>2, <1>3, <1>4

\* The first segment puts the question: then poll has not reported anything
\* of it, and no answer is under way.
LEMMA SegmentStep ==
    ASSUME XInv, NEW k \in 1 .. unsent, Segment(k)
    PROVE  XInv'
<1> USE DEF XInv, Segment, server
<1>1. request # NoRequest /\ request \in Requests
  BY DEF Bytes, ExchangeTypeOK
<1>2. ExchangeTypeOK' /\ BufferInBounds'
  BY DEF ExchangeTypeOK, BufferInBounds
<1>3. DatabaseTypeOK'
  BY DEF DatabaseTypeOK, Question
<1>4. Bytes' /\ Whole' /\ Heard'
  BY <1>1, RequestsTyped DEF ExchangeTypeOK, Bytes, Whole, Heard, Busy
<1>5. KeptInv'
  BY DEF KeptInv
<1>6. CASE unsent = request.size
  <2>1. inbox + total = 0 /\ pc \notin {"send", "sent"}
    BY <1>1, <1>6, RequestsTyped DEF Bytes, ExchangeTypeOK
  <2>2. reported # "in" /\ answer.body = NoBody
    BY <2>1 DEF Heard, FreshInv
  <2>3. pc \notin Busy
    BY <2>2 DEF Bytes
  <2>4. Source \ working' \subseteq broken'
    BY <1>6 DEF Question
  <2> QED
    BY <1>2, <1>3, <1>4, <1>5, <2>2, <2>3, <2>4 DEF FreshInv, Fresh, Busy
<1>7. CASE unsent # request.size
  BY <1>2, <1>3, <1>4, <1>5, <1>7 DEF FreshInv, Fresh, NewOrBroken
<1> QED
  BY <1>6, <1>7

----------------------------------------------------------------------------
(* poll() and update() *)

LEMMA PollStep ==
    ASSUME XInv, Poll
    PROVE  XInv'
<1> USE DEF XInv, Poll, peer, database
<1>1. ExchangeTypeOK' /\ DatabaseTypeOK' /\ BufferInBounds'
  BY DEF ExchangeTypeOK, DatabaseTypeOK, BufferInBounds, Revents
<1>2. Bytes' /\ Whole' /\ KeptInv'
  BY DEF Bytes, Whole, KeptInv, Busy
<1>3. Heard'
  BY DEF Heard, Revents, Readable, ExchangeTypeOK
<1>4. FreshInv'
  BY DEF FreshInv, Fresh
<1> QED
  BY <1>1, <1>2, <1>3, <1>4

LEMMA UpdateStep ==
    ASSUME XInv, Update
    PROVE  XInv'
<1> USE DEF XInv, Update, Ask, peer, server
<1>1. next \in 1 .. 5 /\ Sources[next] \in Source
  BY FiveSources
<1>2. ExchangeTypeOK' /\ BufferInBounds'
  BY DEF ExchangeTypeOK, BufferInBounds
<1>3. DatabaseTypeOK'
  BY <1>1, FiveSources DEF DatabaseTypeOK, Set
<1>4. Bytes' /\ Whole' /\ KeptInv' /\ Heard'
  BY DEF Bytes, Whole, KeptInv, Heard
<1>5. Sources[next] \in broken' \/ mdb'[Sources[next]] = "new"
  BY <1>1 DEF Set, FreshInv, DatabaseTypeOK
<1>6. ASSUME NEW s \in Source, NewOrBroken(s)
      PROVE  NewOrBroken(s)'
  BY <1>1, <1>6 DEF NewOrBroken, Set, DatabaseTypeOK
<1>7. FreshInv'
  <2>1. ASSUME reported = "in", NEW i \in 1 .. next' - 1
        PROVE  NewOrBroken(Sources[i])'
    <3>1. i = next \/ i \in 1 .. next - 1
      BY <1>1
    <3>2. Sources[i] \in Source
      BY <1>1, <3>1, FiveSources
    <3>3. CASE i = next
      BY <3>3, <1>5 DEF NewOrBroken
    <3>4. CASE i \in 1 .. next - 1
      BY <3>4, <3>2, <1>6, <2>1 DEF FreshInv
    <3> QED
      BY <3>1, <3>3, <3>4
  <2> QED
    BY <2>1 DEF FreshInv, Fresh
<1> QED
  BY <1>2, <1>3, <1>4, <1>7

LEMMA UpdateDoneStep ==
    ASSUME XInv, UpdateDone
    PROVE  XInv'
<1> USE DEF XInv, UpdateDone, peer
<1>1. next = 6
  BY FiveSources DEF Updated, DatabaseTypeOK
<1>2. ExchangeTypeOK' /\ BufferInBounds' /\ DatabaseTypeOK'
  BY FiveSources DEF ExchangeTypeOK, BufferInBounds, DatabaseTypeOK
<1>3. Bytes' /\ Whole' /\ KeptInv' /\ Heard'
  BY DEF Bytes, Whole, KeptInv, Heard, Busy
<1>4. reported = "in" => \A s \in Source : NewOrBroken(s)
  BY <1>1, FiveSources DEF FreshInv
<1> QED
  BY <1>2, <1>3, <1>4 DEF FreshInv, Fresh, NewOrBroken

----------------------------------------------------------------------------
(* Serving *)

LEMMA DropStep ==
    ASSUME XInv, Drop, pc # "update"
    PROVE  XInv'
<1> USE DEF XInv, Drop, database
<1>1. answer'.body = NoBody
  BY DEF NoAnswer
<1>2. ExchangeTypeOK'
  <2>1. answer' \in [status : {0, 200, 400, 404},
                    body : {NoBody} \cup [Source -> {"none", "old", "new"}],
                    keep : BOOLEAN]
    BY DEF NoAnswer
  <2> QED
    BY <2>1 DEF ExchangeTypeOK
<1>3. DatabaseTypeOK' /\ BufferInBounds'
  BY ExchangeAssumption DEF DatabaseTypeOK, BufferInBounds
<1>4. Bytes' /\ Whole' /\ KeptInv' /\ Heard'
  BY DEF Bytes, Whole, KeptInv, Heard, Busy
<1>5. FreshInv'
  BY <1>1 DEF FreshInv, Fresh
<1> QED
  BY <1>2, <1>3, <1>4, <1>5

LEMMA ServeStep ==
    ASSUME XInv, Serve \/ PassOver
    PROVE  XInv'
<1> USE DEF XInv, Serve, PassOver, peer, database
<1>1. ExchangeTypeOK' /\ DatabaseTypeOK' /\ BufferInBounds'
  <2>1. whole' \in BOOLEAN
    BY DEF ExchangeTypeOK
  <2>2. total' \in Nat /\ total' <= Room
    BY ExchangeAssumption DEF ExchangeTypeOK, BufferInBounds
  <2> QED
    BY <2>1, <2>2 DEF ExchangeTypeOK, DatabaseTypeOK, BufferInBounds
<1>2. Bytes' /\ KeptInv'
  BY RequestsTyped DEF Bytes, KeptInv, Busy, ExchangeTypeOK
<1>3. Whole'
  <2>1. CASE Serve
    <3>1. SUFFICES ASSUME whole' PROVE request # NoRequest /\ inbox = request.size
      BY <2>1, RequestsTyped DEF Whole, Bytes, ExchangeTypeOK
    <3> QED
      BY <2>1, <3>1
  <2>2. CASE PassOver
    BY <2>2 DEF Whole
  <2> QED
    BY <2>1, <2>2
<1>4. Heard'
  BY DEF Heard, Bytes, Busy
<1>5. FreshInv'
  BY DEF FreshInv, Fresh, NewOrBroken
<1> QED
  BY <1>1, <1>2, <1>3, <1>4, <1>5

LEMMA ReceiveStep ==
    ASSUME XInv, (\E k \in 1 .. inbox : Receive(k)) \/ ReceiveDone
    PROVE  XInv'
<1> USE DEF XInv, Receive, ReceiveDone, Full, Space, peer, database
<1>1. ExchangeTypeOK' /\ DatabaseTypeOK' /\ BufferInBounds'
  BY ExchangeAssumption DEF ExchangeTypeOK, DatabaseTypeOK, BufferInBounds
<1>2. Bytes' /\ KeptInv' /\ Heard'
  BY RequestsTyped DEF Bytes, KeptInv, Heard, Busy, ExchangeTypeOK
<1>3. Whole'
  <2>1. CASE ReceiveDone
    BY <2>1 DEF Whole
  <2>2. ASSUME NEW k \in 1 .. inbox, Receive(k)
        PROVE  Whole'
    <3>1. inbox' + total' = inbox + total
      BY <2>2 DEF ExchangeTypeOK
    <3> QED
      BY <2>2, <3>1 DEF Whole
  <2> QED
    BY <2>1, <2>2
<1>4. FreshInv'
  BY DEF FreshInv, Fresh, NewOrBroken
<1> QED
  BY <1>1, <1>2, <1>3, <1>4

LEMMA ParseStep ==
    ASSUME XInv, Parse
    PROVE  XInv'
<1> USE DEF XInv, Parse, peer, database
<1>1. PICK before \in SUBSET Positions, e \in Endpoints(request) :
        /\ answer' = [status |-> Status(request, e),
                      body   |-> Body(Status(request, e), e),
                      keep   |-> KeepAlive(ConnectionOf(before, request))]
        /\ left' = IF answer'.body = NoBody THEN 1 ELSE 1 + BodySize
  OBVIOUS
<1>2. request \in Requests
  BY DEF Complete, ExchangeTypeOK
<1>3. mdb \in [Source -> {"none", "old", "new"}]
  BY DEF DatabaseTypeOK
<1>4. answer'.body \in {NoBody, mdb}
  BY <1>1 DEF Body
<1>5. ExchangeTypeOK'
  <2>1. answer' \in [status : {0, 200, 400, 404},
                    body : {NoBody} \cup [Source -> {"none", "old", "new"}],
                    keep : BOOLEAN]
    BY <1>1, <1>3 DEF Status, Body, KeepAlive
  <2>2. left' \in Nat
    BY <1>1, ExchangeAssumption
  <2> QED
    BY <2>1, <2>2 DEF ExchangeTypeOK
<1>6. DatabaseTypeOK' /\ BufferInBounds'
  BY DEF DatabaseTypeOK, BufferInBounds
<1>7. Bytes' /\ Whole' /\ Heard'
  BY DEF Bytes, Whole, Heard, Busy, Complete
<1>8. KeptInv'
  BY <1>1, <1>2, ConnectionPrefix DEF KeptInv
<1>9. FreshInv'
  <2>1. \A s \in Source : NewOrBroken(s)
    BY DEF FreshInv, Bytes, Busy
  <2> QED
    BY <1>4, <2>1 DEF FreshInv, Fresh, NewOrBroken
<1> QED
  BY <1>5, <1>6, <1>7, <1>8, <1>9

LEMMA SendStep ==
    ASSUME XInv, (\E k \in 1 .. left : Send(k)) \/ SendDone
    PROVE  XInv'
<1> USE DEF XInv, Send, SendDone, peer, database
<1>1. ExchangeTypeOK' /\ DatabaseTypeOK' /\ BufferInBounds'
  BY DEF ExchangeTypeOK, DatabaseTypeOK, BufferInBounds
<1>2. Bytes' /\ Whole' /\ KeptInv' /\ Heard'
  BY DEF Bytes, Whole, KeptInv, Heard, Busy
<1>3. FreshInv'
  BY DEF FreshInv, Fresh
<1> QED
  BY <1>1, <1>2, <1>3

LEMMA KeepStep ==
    ASSUME XInv, Keep
    PROVE  XInv'
<1> USE DEF XInv, Keep, database
<1>1. answer'.body = NoBody
  BY DEF NoAnswer
<1>2. ExchangeTypeOK'
  <2>1. answer' \in [status : {0, 200, 400, 404},
                    body : {NoBody} \cup [Source -> {"none", "old", "new"}],
                    keep : BOOLEAN]
    BY DEF NoAnswer
  <2> QED
    BY <2>1 DEF ExchangeTypeOK
<1>3. unsent = 0 /\ inbox = 0
  BY RequestsTyped DEF Bytes, ExchangeTypeOK
<1>4. DatabaseTypeOK' /\ BufferInBounds'
  BY ExchangeAssumption DEF DatabaseTypeOK, BufferInBounds
<1>5. Bytes' /\ Whole' /\ KeptInv' /\ Heard'
  BY <1>3 DEF Bytes, Whole, KeptInv, Heard, Busy
<1>6. FreshInv'
  BY <1>1 DEF FreshInv, Fresh
<1> QED
  BY <1>2, <1>4, <1>5, <1>6

LEMMA SourceStepXInv ==
    ASSUME XInv, SourceStep
    PROVE  XInv'
<1> USE DEF XInv, SourceStep, Break, Recover, peer, server
<1>1. ExchangeTypeOK' /\ DatabaseTypeOK' /\ BufferInBounds'
  BY FallibleAssumption DEF ExchangeTypeOK, DatabaseTypeOK, BufferInBounds
<1>2. Bytes' /\ Whole' /\ KeptInv' /\ Heard'
  BY DEF Bytes, Whole, KeptInv, Heard
<1>3. Source \ working' \subseteq broken' /\ broken \subseteq broken'
  BY DEF FreshInv
<1>4. FreshInv'
  BY <1>3 DEF FreshInv, Fresh, NewOrBroken
<1> QED
  BY <1>1, <1>2, <1>4

LEMMA NextXInv == XInv /\ [ExchangeNext]_vars => XInv'
<1> SUFFICES ASSUME XInv, [ExchangeNext]_vars PROVE XInv'
  OBVIOUS
<1>1. CASE UNCHANGED vars
  BY <1>1 DEF vars, peer, server, database, XInv, ExchangeTypeOK, DatabaseTypeOK,
      BufferInBounds, Bytes, Whole, KeptInv, Heard, FreshInv, Fresh, NewOrBroken
<1>2. CASE Peer
  BY <1>2, QuietPeer, SegmentStep DEF Peer
<1>3. CASE Poll
  BY <1>3, PollStep
<1>4. CASE Update \/ UpdateDone
  BY <1>4, UpdateStep, UpdateDoneStep
<1>5. CASE Serve \/ PassOver \/ (\E k \in 1 .. inbox : Receive(k)) \/ ReceiveDone
  BY <1>5, ServeStep, ReceiveStep
<1>6. CASE Parse \/ (\E k \in 1 .. left : Send(k)) \/ SendDone \/ Keep
  BY <1>6, ParseStep, SendStep, KeepStep
<1>7. CASE Kill \/ ReceiveFails \/ ParseFails \/ SendFails \/ Part
  <2>1. Drop /\ pc # "update"
    BY <1>7 DEF Kill, ReceiveFails, ParseFails, SendFails, Part
  <2> QED
    BY <2>1, DropStep
<1>8. CASE SourceStep
  BY <1>8, SourceStepXInv
<1> QED
  BY <1>1, <1>2, <1>3, <1>4, <1>5, <1>6, <1>7, <1>8 DEF ExchangeNext, ServerStep

\* XInv holds whenever the server and its peer are at work.
THEOREM ExchangeInvariance == ExchangeSpec => []XInv
  BY InitXInv, NextXInv, PTL DEF ExchangeSpec

\* clientReceive writes its terminator inside the buffer, however large the
\* request, and however it is cut.
THEOREM BufferSafe == ExchangeSpec => []BufferInBounds
<1>1. XInv => BufferInBounds
  BY DEF XInv
<1> QED
  BY <1>1, ExchangeInvariance, PTL

\* What the stack holds in _connection's place can keep a connection only for
\* a beginning of "keep-alive", and can never close one for all of it.
THEOREM KeepsAsAsked == ExchangeSpec => []KeptAsAsked
<1>1. XInv => KeptAsAsked
  BY DEF XInv, KeptInv, KeptAsAsked
<1> QED
  BY <1>1, ExchangeInvariance, PTL

\* A metrics answer is younger than its question.
THEOREM AnswersFresh == ExchangeSpec => []Fresh
<1>1. XInv => Fresh
  BY DEF XInv, FreshInv
<1> QED
  BY <1>1, ExchangeInvariance, PTL

\* A request that has arrived in time and fits is read and parsed.
THEOREM AnswersWholeRequests == ExchangeSpec => WholeRequestsAnswered
<1>1. ASSUME XInv, [ExchangeNext]_vars, pc \in {"receive", "parse"}, whole,
             request.size < Room, link # "rst"
      PROVE  open'
  <2>1. /\ open /\ request # NoRequest /\ total \in Nat /\ inbox \in Nat
        /\ inbox + total = request.size /\ request.size \in Nat \ {0}
        /\ pc = "parse" => inbox = 0 \/ total >= Room
        /\ Room \in Nat
    BY <1>1, RequestsTyped, ExchangeAssumption
    DEF XInv, Bytes, Whole, ExchangeTypeOK, Busy
  <2>2. ~ReceiveFails
    BY <1>1, <2>1 DEF ReceiveFails, Full
  <2>3. ~ParseFails
    BY <1>1, <2>1 DEF ParseFails, Complete
  <2>4. CASE UNCHANGED vars
    BY <2>1, <2>4 DEF vars, server
  <2>5. CASE Peer \/ SourceStep
    BY <2>1, <2>5 DEF Peer, Connect, Finish, Reset, AskFor, Segment, SourceStep, server
  <2>6. CASE Poll \/ ServerStep
    BY <1>1, <2>1, <2>2, <2>3, <2>6
    DEF Poll, ServerStep, Update, UpdateDone, Serve, Kill, PassOver, Receive,
        ReceiveDone, Parse, Send, SendDone, SendFails, Keep, Part
  <2> QED
    BY <1>1, <2>4, <2>5, <2>6 DEF ExchangeNext
<1>2. XInv /\ [ExchangeNext]_vars =>
        [/\ pc \in {"receive", "parse"} /\ whole
         /\ request.size < Room /\ link # "rst"
         => open']_vars
  BY <1>1
<1> QED
  BY <1>2, ExchangeInvariance, PTL DEF ExchangeSpec, WholeRequestsAnswered

----------------------------------------------------------------------------
(* How long a turn takes                                                     *)

\* What the rank of a place is made of.
LEMMA TurnTypes ==
    ASSUME XInv
    PROVE  /\ Len(Sources) = 5 /\ next \in 1 .. 6
           /\ Room \in Nat \ {0} /\ BodySize \in Nat \ {0}
           /\ total \in 0 .. Room /\ left \in Nat
  BY FiveSources, ExchangeAssumption
  DEF XInv, ExchangeTypeOK, DatabaseTypeOK, BufferInBounds

\* Every step of the server's own takes it nearer to its next poll(): a unit read
\* is one the buffer has no room for any more, a unit sent one that is not left.
LEMMA ServerRunsOut ==
    ASSUME XInv, ServerStep
    PROVE  StepsLeft' < StepsLeft /\ StepsLeft' >= 0
<1>0. /\ Len(Sources) = 5 /\ next \in 1 .. 6
      /\ Room \in Nat \ {0} /\ BodySize \in Nat \ {0}
      /\ total \in 0 .. Room /\ left \in Nat
  BY TurnTypes
<1> USE <1>0 DEF StepsLeft
<1>1. CASE Update
  BY <1>1 DEF Update, Ask, server
<1>2. CASE UpdateDone
  <2>1. /\ pc = "update" /\ pc' = "serve" /\ next > Len(Sources)
    BY <1>2 DEF UpdateDone, Updated
  <2>2. next = 6
    BY <1>0, <2>1
  <2> QED
    BY <2>1, <2>2
<1>3. CASE Serve
  BY <1>3 DEF Serve
<1>4. CASE Kill \/ ReceiveFails \/ ParseFails \/ SendFails \/ Part
  BY <1>4 DEF Kill, ReceiveFails, ParseFails, SendFails, Part, Drop
<1>5. CASE PassOver \/ Keep
  BY <1>5 DEF PassOver, Keep
<1>6. ASSUME NEW k \in 1 .. inbox, Receive(k)
      PROVE  StepsLeft' < StepsLeft /\ StepsLeft' >= 0
  <2>1. /\ pc = "receive" /\ pc' = "receive" /\ total' = total + k
        /\ k >= 1 /\ k <= Room - total /\ k \in Nat
    BY <1>6 DEF Receive, Space, XInv, ExchangeTypeOK
  <2> QED
    BY <2>1
<1>7. CASE ReceiveDone
  BY <1>7 DEF ReceiveDone
<1>8. CASE Parse
  <2>1. pc = "parse" /\ pc' = "send" /\ left' \in {1, 1 + BodySize}
    BY <1>8 DEF Parse
  <2> QED
    BY <2>1
<1>9. ASSUME NEW k \in 1 .. left, Send(k)
      PROVE  StepsLeft' < StepsLeft /\ StepsLeft' >= 0
  <2>1. pc = "send" /\ pc' = "send" /\ left' = left - k /\ k \in 1 .. left
    BY <1>9 DEF Send
  <2> QED
    BY <2>1
<1>10. CASE SendDone
  BY <1>10 DEF SendDone
<1> QED
  BY <1>1, <1>2, <1>3, <1>4, <1>5, <1>6, <1>7, <1>8, <1>9, <1>10 DEF ServerStep

\* Nobody else has a say in it.
LEMMA OthersWait ==
    ASSUME Peer \/ SourceStep
    PROVE  StepsLeft' = StepsLeft
<1>1. UNCHANGED <<pc, next, total, left>>
  BY DEF Peer, Connect, Finish, Reset, AskFor, Segment, SourceStep, Break, Recover,
     server, database
<1> QED
  BY <1>1 DEF StepsLeft

\* TurnsRunOut: for every size of the buffer and of the answers, and however a peer
\* cuts, withholds or resets what it sends, its turn ends after a number of steps
\* of the server's that is known when it begins.
THEOREM TurnsBounded == ExchangeSpec => TurnsRunOut
<1>1. XInv /\ [ExchangeNext]_vars =>
        [pc # "poll" =>
            IF ServerStep THEN StepsLeft' < StepsLeft /\ StepsLeft' >= 0
                          ELSE StepsLeft' = StepsLeft]_vars
  <2> SUFFICES ASSUME XInv, ExchangeNext, pc # "poll"
               PROVE  IF ServerStep THEN StepsLeft' < StepsLeft /\ StepsLeft' >= 0
                                    ELSE StepsLeft' = StepsLeft
    OBVIOUS
  <2>1. CASE ServerStep
    BY <2>1, ServerRunsOut
  <2>2. CASE ~ServerStep
    <3>1. Peer \/ SourceStep
      BY <2>2 DEF ExchangeNext, Poll
    <3> QED
      BY <2>2, <3>1, OthersWait
  <2> QED
    BY <2>1, <2>2
<1> QED
  BY <1>1, ExchangeInvariance, PTL DEF ExchangeSpec, TurnsRunOut
=============================================================================
