----------------------------- MODULE HttpRequest -----------------------------
(***************************************************************************)
(* HttpRequest::parse and httpErrorCheck: what the server makes of the     *)
(* bytes in its receive buffer.  A request is what tells its answers       *)
(* apart: its method, where its path names an endpoint, what it writes     *)
(* into the 16 bytes of _connection, and its size in units of the buffer.  *)
(*                                                                         *)
(* The parser copies a Connection value without a terminator, so that the  *)
(* bytes behind it are those the last HttpRequest left on the stack (an    *)
(* HttpRequest lives in the body of the serving loop).  _connection is the *)
(* set of the positions that hold the letter "keep-alive" has there.       *)
(***************************************************************************)
EXTENDS Integers, FiniteSets

CONSTANT Letters   \* strlen("keep-alive")

ASSUME LettersAssumption == Letters \in Nat \ {0}

Positions == 1 .. Letters

Endpoint == {"metrics", "liveness", "neither"}

\* "cut": the path names an endpoint that ends behind the 15 bytes _metric keeps.
\* copied is the number of letters the Connection header puts into
\* _connection, 0 without that header; agree are those that are keep-alive's.
\* A value without a single letter is an unsigned -1 bytes long: 15 bytes of
\* the next line, the first of which is its newline.
Request ==
    [method : {"GET", "other"},
     path   : Endpoint \cup {"cut"},
     copied : 0 .. Letters,
     agree  : SUBSET Positions,
     size   : Nat \ {0}]

WellFormed(req) == req.agree \subseteq 1 .. req.copied

\* Mutant: the constructor leaves _connection alone.
ConnectionOfDirty(left, req) == (left \ (1 .. req.copied)) \cup req.agree

\* _connection after HttpRequest() and parse(), where `left` was before: the
\* constructor ends the string at its first byte, the header overwrites as
\* many letters as its value has.
ConnectionOf(left, req) == ((left \ {1}) \ (1 .. req.copied)) \cup req.agree

\* strcmp(connection, "keep-alive") == 0
KeepAlive(connection) == connection = Positions

\* What find() can see of the path in _metric: byte 15 is never written, and
\* behind it the string goes on with _connection.
Endpoints(req) ==
    IF req.path = "cut" THEN Endpoint ELSE {req.path}

\* httpErrorCheck: the Host header is not looked at.
Status(req, endpoint) ==
    IF req.method # "GET" THEN 400
    ELSE IF endpoint = "neither" THEN 404
    ELSE 200
=============================================================================
