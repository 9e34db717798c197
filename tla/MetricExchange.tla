--------------------------- MODULE MetricExchange ---------------------------
(***************************************************************************)
(* One connection, byte range by byte range: a peer that sends a request,  *)
(* waits for the answer and then may ask again, and what the server makes  *)
(* of it between two polls.  The other connections, and the poll loop as a *)
(* whole, are module MetricServerHandler's; here they are what makes poll  *)
(* return and what others' requests leave on the stack.  The peer does not *)
(* pipeline, and its requests have no bodies.                              *)
(***************************************************************************)
EXTENDS HttpRequest, MetricDatabase

CONSTANTS
    Room,      \* sizeof(_recvBuffer) - 1
    Requests,  \* what a peer may ask
    BodySize,  \* the size of a metrics answer, its head being of size 1
    NoRequest

ASSUME ExchangeAssumption ==
    /\ Room \in Nat \ {0} /\ BodySize \in Nat \ {0}
    /\ Requests \subseteq {r \in Request : WellFormed(r)}
    /\ NoRequest \notin Requests

VARIABLES
    link,     \* the peer's side: "none", "up", "fin" or "rst"
    request,  \* what the peer asks and has no answer to
    unsent,   \* how much of it is still to arrive
    inbox,    \* how much of it has arrived and not been read
    pc,       \* the server's place between two polls
    open,     \* it has accepted the connection
    reported, \* what poll has reported of it
    total,    \* totalBytes of clientReceive
    answer,   \* status, metrics and keep-alive of the request in hand
    left,     \* how much of the answer is not sent
    whole     \* history: all of the request was there when it was served

peer   == <<link, request, unsent, inbox>>
server == <<pc, open, reported, total, answer, left, whole>>
vars   == <<peer, server, database>>

\* The body of every answer that shows no metrics.
NoBody == [s \in {} |-> "none"]

NoAnswer == [status |-> 0, body |-> NoBody, keep |-> FALSE]

ExchangeTypeOK ==
    /\ link \in {"none", "up", "fin", "rst"}
    /\ request \in Requests \cup {NoRequest}
    /\ unsent \in Nat /\ inbox \in Nat
    /\ pc \in {"poll", "update", "serve", "receive", "parse", "send", "sent"}
    /\ open \in BOOLEAN
    /\ reported \in {"nothing", "in", "hup", "error", "new"}
    /\ total \in Nat /\ left \in Nat
    /\ answer \in [status : {0, 200, 400, 404},
                   body   : {NoBody} \cup [Source -> {"none", "old", "new"}],
                   keep   : BOOLEAN]
    /\ whole \in BOOLEAN

\* The first update() precedes the first poll.
ExchangeInit ==
    /\ DatabaseInit
    /\ link = "none" /\ request = NoRequest /\ unsent = 0 /\ inbox = 0
    /\ pc = "update" /\ open = FALSE /\ reported = "nothing"
    /\ total = 0 /\ answer = NoAnswer /\ left = 0 /\ whole = FALSE

----------------------------------------------------------------------------
(* The peer *)

Connect ==
    /\ link = "none" /\ link' = "up"
    /\ UNCHANGED <<request, unsent, inbox, server, database>>

AskFor(r) ==
    /\ link = "up" /\ request = NoRequest
    /\ request' = r /\ unsent' = r.size
    /\ UNCHANGED <<link, inbox, server, database>>

\* A segment arrives; with the first one the question is put.
Segment(k) ==
    /\ link = "up" /\ k \in 1 .. unsent
    /\ unsent' = unsent - k /\ inbox' = inbox + k
    /\ IF unsent = request.size THEN Question ELSE UNCHANGED <<mdb, broken>>
    /\ UNCHANGED <<link, request, server, working, next>>

\* Of a request cut short the rest never comes.
Finish ==
    /\ link = "up" /\ link' = "fin"
    /\ unsent' = 0
    /\ UNCHANGED <<request, inbox, server, database>>

Reset ==
    /\ link \in {"up", "fin"} /\ link' = "rst"
    /\ unsent' = 0
    /\ UNCHANGED <<request, inbox, server, database>>

Peer ==
    \/ Connect \/ Finish \/ Reset
    \/ \E r \in Requests : AskFor(r)
    \/ \E k \in 1 .. unsent : Segment(k)

----------------------------------------------------------------------------
(* poll() and update() *)

Readable == open /\ link \in {"up", "fin"} /\ (inbox > 0 \/ link = "fin")

\* A reset connection is reported as this system reports it: POLLHUP alone, or
\* with other events, which match no branch of the loop.
Revents ==
    CASE ~open /\ link # "none" -> {"new"}
      [] ~open /\ link = "none" -> {"nothing"}
      [] open /\ link = "rst"   -> {"hup", "error"}
      [] Readable               -> {"in"}
      [] OTHER                  -> {"nothing"}

\* "nothing" is another connection's event, or none: then poll goes on.
Poll ==
    /\ pc = "poll"
    /\ reported' \in Revents
    /\ open' = (open \/ reported' = "new")
    /\ pc' = "update"
    /\ UNCHANGED <<peer, total, answer, left, whole, database>>

Update ==
    /\ pc = "update" /\ Ask
    /\ UNCHANGED <<peer, server>>

UpdateDone ==
    /\ pc = "update" /\ Updated
    /\ pc' = "serve" /\ next' = 1
    /\ UNCHANGED <<peer, open, reported, total, answer, left, whole,
                   mdb, working, broken>>

----------------------------------------------------------------------------
(* Serving, lines 474-563 of MetricServerHandler.cpp *)

\* clientClear and fds[i].fd = -1: both sides lose what was under way.
Drop ==
    /\ open' = FALSE /\ link' = "none"
    /\ request' = NoRequest /\ unsent' = 0 /\ inbox' = 0
    /\ pc' = "poll" /\ reported' = "nothing"
    /\ total' = 0 /\ answer' = NoAnswer /\ left' = 0 /\ whole' = FALSE
    /\ UNCHANGED database

Serve ==
    /\ pc = "serve" /\ open /\ reported = "in"
    /\ pc' = "receive" /\ total' = 0
    /\ whole' = (request # NoRequest /\ inbox = request.size)
    /\ UNCHANGED <<peer, open, reported, answer, left, database>>

\* A connection without an event is taken for one its peer has closed.
Kill ==
    /\ pc = "serve" /\ open /\ reported \in {"hup", "nothing"}
    /\ Drop

PassOver ==
    /\ pc = "serve" /\ (open => reported \in {"error", "new"})
    /\ pc' = "poll" /\ reported' = "nothing"
    /\ UNCHANGED <<peer, open, total, answer, left, whole, database>>

\* Mutant: what has been read before is forgotten.
SpaceOfFirst == Room

\* clientReceive: how much one recv() may take.
Space == Room - total

\* Mutant: one byte too early.
FullEarly == total >= Room - 1

Full == total >= Room

Receive(k) ==
    /\ pc = "receive" /\ ~Full
    /\ k \in 1 .. inbox /\ k <= Space
    /\ total' = total + k /\ inbox' = inbox - k
    /\ UNCHANGED <<link, request, unsent, pc, open, reported, answer, left,
                   whole, database>>

\* There is nothing more to read, or no room for it: then errno is what some
\* earlier call left, and may well be EAGAIN.
ReceiveDone ==
    /\ pc = "receive" /\ total > 0
    /\ Full \/ (inbox = 0 /\ link # "rst")
    /\ pc' = "parse"
    /\ UNCHANGED <<peer, open, reported, total, answer, left, whole, database>>

ReceiveFails ==
    /\ pc = "receive"
    /\ \/ Full
       \/ inbox = 0 /\ link = "rst"
       \/ inbox = 0 /\ total = 0
    /\ Drop

\* Only all of a request has the empty line that ends it.
Complete == request # NoRequest /\ total = request.size

Body(status, endpoint) ==
    IF status = 200 /\ endpoint = "metrics" THEN mdb ELSE NoBody

\* HttpRequest(), parse() and httpErrorCheck(); before them _connection is
\* what an earlier request, of this connection or another, left there.
Parse ==
    /\ pc = "parse" /\ Complete
    /\ \E before \in SUBSET Positions, e \in Endpoints(request) :
          LET status == Status(request, e)
          IN  /\ answer' = [status |-> status,
                            body   |-> Body(status, e),
                            keep   |-> KeepAlive(ConnectionOf(before, request))]
              /\ left' = IF answer'.body = NoBody THEN 1 ELSE 1 + BodySize
    /\ pc' = "send"
    /\ UNCHANGED <<peer, open, reported, total, whole, database>>

\* Mutant: the rest of an incomplete request is waited for.
ParseFailsAndWaits ==
    /\ pc = "parse" /\ ~Complete
    /\ pc' = "receive"
    /\ UNCHANGED <<peer, open, reported, total, answer, left, whole, database>>

ParseFails ==
    /\ pc = "parse" /\ ~Complete
    /\ Drop

Send(k) ==
    /\ pc = "send" /\ link # "rst"
    /\ k \in 1 .. left
    /\ left' = left - k
    /\ UNCHANGED <<peer, pc, open, reported, total, answer, whole, database>>

\* Mutant: the loop goes on while send() does not fail, which with nothing left
\* to send it never does.
SendDoneAgain ==
    /\ pc = "send" /\ link # "rst" /\ left > 0
    /\ pc' = "sent"
    /\ UNCHANGED <<peer, open, reported, total, answer, left, whole, database>>

\* send() returns 0 when nothing is left, and EAGAIN when the peer has no room
\* for a microsecond: that counts as sent.
SendDone ==
    /\ pc = "send" /\ link # "rst"
    /\ pc' = "sent"
    /\ UNCHANGED <<peer, open, reported, total, answer, left, whole, database>>

SendFails ==
    /\ pc = "send" /\ link = "rst"
    /\ Drop

Keep ==
    /\ pc = "sent" /\ answer.keep
    /\ pc' = "poll" /\ reported' = "nothing"
    /\ request' = NoRequest
    /\ total' = 0 /\ answer' = NoAnswer /\ left' = 0 /\ whole' = FALSE
    /\ UNCHANGED <<link, unsent, inbox, open, database>>

Part ==
    /\ pc = "sent" /\ ~answer.keep
    /\ Drop

ServerStep ==
    \/ Update \/ UpdateDone
    \/ Serve \/ Kill \/ PassOver
    \/ \E k \in 1 .. inbox : Receive(k)
    \/ ReceiveDone \/ ReceiveFails
    \/ Parse \/ ParseFails
    \/ \E k \in 1 .. left : Send(k)
    \/ SendDone \/ SendFails
    \/ Keep \/ Part

SourceStep == (\E s \in Source : Break(s) \/ Recover(s)) /\ UNCHANGED <<peer, server>>

ExchangeNext == Peer \/ Poll \/ ServerStep \/ SourceStep

ExchangeSpec == ExchangeInit /\ [][ExchangeNext]_vars

\* The server's thread runs, and poll returns when this connection is ready.
FairExchange ==
    /\ ExchangeSpec
    /\ WF_vars(ServerStep)
    /\ WF_vars(Poll /\ reported' # "nothing")

----------------------------------------------------------------------------
(* Properties *)

\* The terminator of the received text is written inside _recvBuffer, however
\* the request is cut into segments (MetricClient.cpp 155-178, 208).
BufferInBounds == total <= Room

\* A connection is kept for a Connection value that "keep-alive" begins with,
\* whatever an earlier request has left behind it on the stack, and it is kept
\* for "keep-alive" (MetricHttpRequest.cpp 29, 91).
KeptAsAsked ==
    pc = "sent" =>
        /\ answer.keep => /\ request.copied > 0
                          /\ request.agree = 1 .. request.copied
        /\ request.agree = Positions => answer.keep

\* The metrics in an answer were read after the first byte of the request had
\* arrived, but for the sources that did not answer at some time since then
\* (MetricServerHandler.cpp 340, 469, 513).
Fresh ==
    answer.body # NoBody =>
        \A s \in Source \ broken : answer.body[s] = "new"

\* A request that is there, and leaves room in the buffer, when its connection's
\* turn comes is read whole and accepted by the parser, even if the peer has
\* finished sending; only a reset undoes that (MetricClient.cpp 163-207).
WholeRequestsAnswered ==
    [][/\ pc \in {"receive", "parse"} /\ whole
       /\ request.size < Room /\ link # "rst"
       => open']_vars

\* The most steps the server takes before it polls again: one for each source it
\* still has to ask, one for each unit that the buffer or the answer has room for,
\* and one from place to place.
StepsLeft ==
    CASE pc = "update"  -> Len(Sources) + 1 - next + Room + BodySize + 7
      [] pc = "serve"   -> Room + BodySize + 6
      [] pc = "receive" -> Room - total + BodySize + 5
      [] pc = "parse"   -> BodySize + 4
      [] pc = "send"    -> left + 2
      [] pc = "sent"    -> 1
      [] OTHER          -> 0

\* No peer holds the only thread that serves the others: whatever it sends while
\* it is read, and however slowly it reads, the server is back at poll() after a
\* number of its own steps that the sizes of buffer and answer bound
\* (MetricClient.cpp 163-207 and 230-263).
TurnsRunOut ==
    [][pc # "poll" =>
          IF ServerStep THEN StepsLeft' < StepsLeft /\ StepsLeft' >= 0
                        ELSE StepsLeft' = StepsLeft]_vars

\* Nobody who has sent all of a request waits for ever: the answer comes, or
\* the connection is closed.  A reset ends the wait on the peer's side.
RequestsSettled ==
    (request # NoRequest /\ unsent = 0) ~> (request = NoRequest \/ link = "rst")

\* What src/README.md 27 says, "the body includes all the metrics": every
\* answer is sent to its end before the connection is kept or closed.  The code
\* takes EAGAIN after a part of the answer for success (MetricClient.cpp 241).
AnswersSentWhole == [][pc = "send" /\ pc' = "sent" => left = 0]_vars
=============================================================================
