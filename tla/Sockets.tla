------------------------------ MODULE Sockets ------------------------------
(***************************************************************************)
(* The operating system as the metric server meets it: the descriptor      *)
(* table it shares with every other thread of the JVM, the connections     *)
(* behind the descriptors, the backlog of each listening socket, and the   *)
(* peers and threads that act on them at any time.  None of this is code   *)
(* of the repository; it is what accept, recv, send, close and poll do for *)
(* the calls in src/server.                                                *)
(***************************************************************************)
EXTENDS Integers, Sequences, FiniteSets

CONSTANTS
    FD,          \* descriptors the process can open besides its listeners
    NoFd,        \* the code's -1 (and the 0 that newfd starts from)
    ListenFds,   \* listening descriptors: <<http>> or <<http, https>>
    Requests,    \* what a peer may send, see Inbox
    HangUp,      \* revents that poll reports for a reset connection
    Faults,      \* system calls that may fail for reasons of their own
    MaxBacklog,  \* bound: connections waiting on one listener
    MaxForeign   \* bound: descriptors held by the rest of the JVM

Events == {"IN", "ERR", "HUP", "NVAL"}

\* What waits to be read on a connection: nothing, bytes that do not make a
\* request, a request that ends the connection, one that keeps it alive, or
\* one that fills the whole receive buffer.
Inbox == {"none", "part", "close", "keep", "big"}

\* Number of listeners: 2 exactly when the server has an SSL context.
L == Len(ListenFds)

ASSUME SocketsAssumption ==
    /\ ListenFds \in Seq(Nat \ FD) /\ L \in 1 .. 2
    /\ NoFd \notin FD
    /\ \A l \in 1 .. L : ListenFds[l] # NoFd
    /\ Requests \subseteq Inbox \ {"none"}
    /\ HangUp \subseteq Events /\ HangUp # {}
    /\ MaxBacklog \in Nat /\ MaxForeign \in Nat

VARIABLES
    sock,      \* sock[f]: who holds descriptor f, and its connection
    backlog,   \* backlog[l]: connections waiting to be accepted
    listening  \* listeners whose descriptor is open

kernel == <<sock, backlog, listening>>

FreeSock == [owner |-> "free", inbox |-> "none", link |-> "up"]
Opened   == [FreeSock EXCEPT !.owner = "server"]

SocketsTypeOK ==
    /\ sock \in [FD -> [owner : {"free", "server", "foreign"},
                        inbox : Inbox,
                        link  : {"up", "fin", "rst"}]]
    /\ backlog \in [1 .. L -> 0 .. MaxBacklog]
    /\ listening \subseteq 1 .. L

SocketsInit ==
    /\ sock = [f \in FD |-> FreeSock]
    /\ backlog = [l \in 1 .. L |-> 0]
    /\ listening = {}

----------------------------------------------------------------------------
(* System calls *)

\* close(2): gives up whatever the number stands for NOW, whoever opened it;
\* on a number that is not open it only fails with EBADF.
Close(f) == IF f = NoFd THEN sock ELSE [sock EXCEPT ![f] = FreeSock]

Owned(f) == f \in FD /\ sock[f].owner = "server"

\* What poll(2) reports for a connection and for a listener.  A descriptor
\* of another thread is taken to be quiet.
Readiness(f) ==
    CASE sock[f].owner = "free"    -> {"NVAL"}
      [] sock[f].owner = "foreign" -> {}
      [] sock[f].owner = "server"  ->
            IF sock[f].link = "rst" THEN HangUp
            ELSE IF sock[f].inbox # "none" \/ sock[f].link = "fin" THEN {"IN"}
            ELSE {}

ListenerReadiness(l) == IF backlog[l] > 0 THEN {"IN"} ELSE {}

\* The end of the process: the system takes every descriptor back.
ProcessDies ==
    /\ sock' = [f \in FD |-> FreeSock]
    /\ backlog' = [l \in 1 .. L |-> 0]
    /\ listening' = {}

----------------------------------------------------------------------------
(* Peers *)

Connect(l) ==
    /\ l \in listening /\ backlog[l] < MaxBacklog
    /\ backlog' = [backlog EXCEPT ![l] = @ + 1]
    /\ UNCHANGED <<sock, listening>>

\* A peer gives up before it is accepted.
Abort(l) ==
    /\ backlog[l] > 0
    /\ backlog' = [backlog EXCEPT ![l] = @ - 1]
    /\ UNCHANGED <<sock, listening>>

PeerSend(f, r) ==
    /\ Owned(f) /\ sock[f].link = "up"
    /\ sock[f].inbox = "none" \/ (sock[f].inbox = "part" /\ r # "part")
    /\ sock' = [sock EXCEPT ![f].inbox = r]
    /\ UNCHANGED <<backlog, listening>>

PeerFin(f) ==
    /\ Owned(f) /\ sock[f].link = "up"
    /\ sock' = [sock EXCEPT ![f].link = "fin"]
    /\ UNCHANGED <<backlog, listening>>

PeerReset(f) ==
    /\ Owned(f) /\ sock[f].link # "rst"
    /\ sock' = [sock EXCEPT ![f].link = "rst", ![f].inbox = "none"]
    /\ UNCHANGED <<backlog, listening>>

----------------------------------------------------------------------------
(* The other threads of the JVM, which close only what they opened *)

ForeignOpen(f) ==
    /\ sock[f].owner = "free"
    /\ Cardinality({g \in FD : sock[g].owner = "foreign"}) < MaxForeign
    /\ sock' = [sock EXCEPT ![f].owner = "foreign"]
    /\ UNCHANGED <<backlog, listening>>

ForeignClose(f) ==
    /\ sock[f].owner = "foreign"
    /\ sock' = Close(f)
    /\ UNCHANGED <<backlog, listening>>

Environment ==
    \/ \E l \in 1 .. L : Connect(l) \/ Abort(l)
    \/ \E f \in FD : \/ \E r \in Requests : PeerSend(f, r)
                     \/ PeerFin(f)
                     \/ PeerReset(f)
                     \/ ForeignOpen(f)
                     \/ ForeignClose(f)
=============================================================================
