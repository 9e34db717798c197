---------------------------- MODULE MetricClient ----------------------------
(***************************************************************************)
(* class Client: one accepted connection, as MetricClient.cpp keeps it,    *)
(* and what its methods may answer and leave behind.  A method is a guard  *)
(* (Can...: when the method may take this way out) and the record it       *)
(* leaves (After...); Close(c.sockfd), next to it in the caller's action,  *)
(* is its effect on the descriptor table.                                  *)
(***************************************************************************)
EXTENDS Sockets

\* _bio is "freed" when the memory it points to is gone and _bio is not NULL.
Client == [sockfd : FD \cup {NoFd},
           bio    : {"null", "live", "freed"},
           useSSL : BOOLEAN]

\* Client::Client()
NewClient == [sockfd |-> NoFd, bio |-> "null", useSSL |-> FALSE]

----------------------------------------------------------------------------
(* clientAccept *)

\* accept() finds nobody waiting any more or no free descriptor, or fails.
CanFailAccept(l) ==
    \/ backlog[l] = 0
    \/ \A f \in FD : sock[f].owner # "free"
    \/ "accept" \in Faults

\* accept() returns descriptor f.
CanAccept(l, f) == backlog[l] > 0 /\ sock[f].owner = "free"

\* accept() stores the descriptor; _bio and _useSSL still come from Client().
AfterAccept(f) == [NewClient EXCEPT !.sockfd = f]

\* The table once the two timeouts are set, or one of them is not: then the
\* descriptor is closed, the record keeps its number, and clientAccept does not
\* look at the answer.
AfterTimeouts(f, set) == IF set THEN [sock EXCEPT ![f] = Opened] ELSE sock

TimeoutOutcomes == {TRUE} \cup (IF "sockopt" \in Faults THEN {FALSE} ELSE {})

\* acceptOpenSSLConnection: SSL_accept needs a descriptor that still is this
\* connection; it may always give up, its timeout is one microsecond.
CanHandshake(c) == Owned(c.sockfd) /\ sock[c.sockfd].link = "up"

AfterHandshake(c) == [c EXCEPT !.bio = "live", !.useSSL = TRUE]

\* handleOpenSSLConnectionError closes the descriptor and frees the bio; bio
\* is a reference to _bio and is set to NULL, connfd is a copy of _sockfd.
AfterFailedHandshake(c) == c

----------------------------------------------------------------------------
(* clientReceive *)

\* A read ends with an error that is not EAGAIN: the connection was reset, the
\* number is not a connection of ours, or no error was set at all - after 4095
\* bytes, or after a bad TLS record, errno is what an earlier call left.
CanFailReceive(c) ==
    \/ ~Owned(c.sockfd)
    \/ /\ Owned(c.sockfd)
       /\ \/ sock[c.sockfd].link = "rst"
          \/ sock[c.sockfd].inbox = "big"
          \/ sock[c.sockfd].inbox = "part" /\ c.useSSL
          \/ "recv" \in Faults

\* close() and, with SSL, BIO_free_all(); the record keeps both values.
AfterFailedReceive(c) == IF c.useSSL THEN [c EXCEPT !.bio = "freed"] ELSE c

\* Not a byte of data: the peer has closed, or the wait timed out (over SSL
\* the bytes that woke poll need not be a whole record).
CanReceiveNothing(c) ==
    /\ Owned(c.sockfd)
    /\ sock[c.sockfd].link # "rst"
    /\ sock[c.sockfd].inbox = "none" \/ (c.useSSL /\ sock[c.sockfd].inbox = "part")

\* Mutant: 0 instead of -1 for "no descriptor".
AfterCloseToZero(c) == [c EXCEPT !.sockfd = 0, !.bio = "null"]

\* Mutant: only the bio is reset.
AfterCloseKeepingFd(c) == [c EXCEPT !.bio = "null"]

AfterClose(c) == [c EXCEPT !.sockfd = NoFd, !.bio = "null"]

CanReceive(c) ==
    /\ Owned(c.sockfd)
    /\ sock[c.sockfd].link # "rst"
    /\ sock[c.sockfd].inbox # "none"

\* What HttpRequest::parse makes of the buffer, "part" standing for a negative
\* answer.  Of a request that fills the buffer only the first part is there.
Parsed(c) ==
    IF sock[c.sockfd].inbox = "big" THEN {"part", "close", "keep"}
                                    ELSE {sock[c.sockfd].inbox}

\* What stays in the connection: nothing, or the rest of the long request.
Unread(c) == IF sock[c.sockfd].inbox = "big" THEN {"none", "part"} ELSE {"none"}

----------------------------------------------------------------------------
(* clientSend: an answer cut short by EAGAIN counts as sent *)

CanSend(c) == Owned(c.sockfd) /\ sock[c.sockfd].link # "rst"

CanFailSend(c) ==
    \/ ~Owned(c.sockfd)
    \/ Owned(c.sockfd) /\ (sock[c.sockfd].link = "rst" \/ "send" \in Faults)

----------------------------------------------------------------------------
(* clientClear *)

\* clientClose when there is a descriptor, and a record as good as new.
AfterClear == NewClient

\* BIO_free_all on memory that is already free: the process may be aborted.
FreesTwice(c) == c.sockfd # NoFd /\ c.bio = "freed"
=============================================================================
