------------------------ MODULE MetricServerHandler ------------------------
(***************************************************************************)
(* TR_MetricServerHandlerStart: the poll loop that accepts HTTP and HTTPS  *)
(* connections, serves one request of each ready connection, closes the    *)
(* others, and shuts down when stop() has set the exit flag.  One thread   *)
(* runs it; between any two of its system calls the peers and the other    *)
(* threads of the JVM act (Environment of module Sockets).                 *)
(*                                                                         *)
(* Positions in fds count from 1: the code's fds[0] and fds[1] are fds[1]  *)
(* and, with SSL, fds[2]; fds[i] belongs to clients[i - L].                *)
(***************************************************************************)
EXTENDS MetricClient, SequencesExt

CONSTANTS MaxConnections   \* metricMaxConnections

ASSUME MaxConnectionsAssumption == MaxConnections \in Nat \ {0}

VARIABLES
    pc,        \* where the thread is
    idx,       \* the listener or the entry of fds it is busy with
    fds,       \* std::vector<pollfd> fds
    clients,   \* std::vector<Client> clients
    client,    \* the Client being accepted
    newfd,     \* newfd and newfd_https: accepted in this iteration
    rc,        \* why the connection at idx is being cleared
    keepAlive, \* getConnection() of the request just parsed is keep-alive
    exitFlag,  \* _metricServerExitFlag
    npolled,   \* history: number of entries in the last poll
    refused,   \* history: the descriptor of the Client that was refused
    tainted    \* history: numbers a failed setsockopt has closed, while some
               \* Client has them

\* What the loop has forgotten, for the properties: no guard reads it.
history == <<npolled, refused, tainted>>

handler == <<pc, idx, fds, clients, client, newfd, rc, keepAlive, history>>
vars == <<kernel, handler, exitFlag>>

Ended == pc \in {"done", "exit"}

PollFd == [fd : Nat \cup FD \cup {NoFd}, revents : SUBSET Events]

TypeOK ==
    /\ SocketsTypeOK
    /\ pc \in {"start", "poll", "accept", "sendTimeout", "handshake",
               "clearFailed", "admit", "serve", "reply", "clear", "prune",
               "drain", "draining", "done", "exit"}
    /\ idx \in Nat
    /\ fds \in Seq(PollFd)
    /\ clients \in Seq(Client)
    /\ client \in Client
    /\ newfd \in [1 .. L -> FD \cup {NoFd}]
    /\ rc \in {"success", "acceptFailed", "receiveFailed", "sendFailed"}
    /\ keepAlive \in BOOLEAN
    /\ exitFlag \in BOOLEAN
    /\ npolled \in Nat
    /\ refused \in FD \cup {NoFd} /\ tainted \subseteq FD

Entry(f) == [fd |-> f, revents |-> {}]

Init ==
    /\ SocketsInit
    /\ pc = "start" /\ idx = 1
    /\ fds = <<>> /\ clients = <<>>
    /\ client = NewClient
    /\ newfd = [l \in 1 .. L |-> NoFd]
    /\ rc = "success" /\ keepAlive = FALSE
    /\ exitFlag = FALSE
    /\ npolled = 0 /\ refused = NoFd /\ tainted = {}

\* What the process leaves when it ends by exit(1) or by an abort.
Dies ==
    /\ ProcessDies
    /\ pc' = "exit" /\ idx' = 1
    /\ fds' = <<>> /\ clients' = <<>> /\ client' = NewClient
    /\ newfd' = [l \in 1 .. L |-> NoFd]
    /\ rc' = "success" /\ keepAlive' = FALSE
    /\ npolled' = 0 /\ refused' = NoFd /\ tainted' = {}
    /\ UNCHANGED exitFlag

----------------------------------------------------------------------------
(* Starting the listeners *)

\* serverStart() of listener idx; its entry goes to the end of fds.
StartServer ==
    /\ pc = "start"
    /\ listening' = listening \cup {idx}
    /\ fds' = Append(fds, Entry(ListenFds[idx]))
    /\ IF idx < L THEN idx' = idx + 1 /\ UNCHANGED pc
                  ELSE idx' = 1 /\ pc' = "poll"
    /\ UNCHANGED <<sock, backlog, clients, client, newfd, rc, keepAlive,
                   exitFlag, history>>

\* serverStart() < 0: everything is cleared and the JVM ends.
StartServerFails == pc = "start" /\ "bind" \in Faults /\ Dies

----------------------------------------------------------------------------
(* Poll *)

\* fds with the revents poll() writes.
Polled ==
    [i \in 1 .. Len(fds) |->
        [fds[i] EXCEPT !.revents =
            IF i <= L THEN ListenerReadiness(i) ELSE Readiness(fds[i].fd)]]

Ready == \E i \in 1 .. Len(fds) : Polled[i].revents # {}

\* The exit flag, read by the loop and once more when poll() returns.
PollStop ==
    /\ pc = "poll" /\ exitFlag
    /\ pc' = "drain"
    /\ UNCHANGED <<kernel, idx, fds, clients, client, newfd, rc, keepAlive,
                   exitFlag, history>>

PollTimeout ==
    /\ pc = "poll" /\ ~exitFlag /\ ~Ready
    /\ fds' = Polled
    /\ UNCHANGED <<kernel, pc, idx, clients, client, newfd, rc, keepAlive,
                   exitFlag, history>>

\* Mutant: the flag is not read again when poll() returns.
PollReadyRegardless ==
    /\ pc = "poll" /\ Ready
    /\ fds' = Polled
    /\ npolled' = Len(fds)
    /\ newfd' = [l \in 1 .. L |-> NoFd]
    /\ pc' = "accept" /\ idx' = 1
    /\ UNCHANGED <<kernel, clients, client, rc, keepAlive, exitFlag, refused,
                   tainted>>

PollReady ==
    /\ pc = "poll" /\ ~exitFlag /\ Ready
    /\ fds' = Polled
    /\ npolled' = Len(fds)
    /\ newfd' = [l \in 1 .. L |-> NoFd]
    /\ pc' = "accept" /\ idx' = 1
    /\ UNCHANGED <<kernel, clients, client, rc, keepAlive, exitFlag, refused,
                   tainted>>

\* poll() fails, or reports anything but POLLIN for a listener: exit(1).
PollFails ==
    /\ pc = "poll" /\ ~exitFlag
    /\ Faults \cap {"poll", "listener"} # {}
    /\ Dies

----------------------------------------------------------------------------
(* Accepting, first HTTP, then HTTPS *)

NextListener ==
    IF idx < L THEN idx' = idx + 1 /\ pc' = "accept"
               ELSE idx' = L + 1 /\ pc' = "serve"

\* Mutant: at the limit a connection may be left in the backlog.
SkipAcceptAtLimit ==
    /\ pc = "accept"
    /\ fds[idx].revents # {"IN"} \/ Len(clients) > MaxConnections
    /\ NextListener
    /\ UNCHANGED <<kernel, fds, clients, client, newfd, rc, keepAlive,
                   exitFlag, history>>

SkipAccept ==
    /\ pc = "accept" /\ fds[idx].revents # {"IN"}
    /\ NextListener
    /\ UNCHANGED <<kernel, fds, clients, client, newfd, rc, keepAlive,
                   exitFlag, history>>

\* accept() fails: clientClear() finds no descriptor.  For HTTPS, too, it is
\* the HTTP entry whose revents are reset.
AcceptFails ==
    /\ pc = "accept" /\ fds[idx].revents = {"IN"}
    /\ CanFailAccept(idx)
    /\ fds' = [fds EXCEPT ![1].revents = {}]
    /\ NextListener
    /\ UNCHANGED <<kernel, clients, client, newfd, rc, keepAlive, exitFlag,
                   history>>

\* Where clientAccept goes on with the timeouts behind it: HTTPS shakes hands.
Accepted == IF idx = 2 THEN "handshake" ELSE "admit"

Accept(f) ==
    /\ pc = "accept" /\ fds[idx].revents = {"IN"}
    /\ CanAccept(idx, f)
    /\ backlog' = [backlog EXCEPT ![idx] = @ - 1]
    /\ \E set \in TimeoutOutcomes :
          /\ sock' = AfterTimeouts(f, set)
          /\ tainted' = IF set THEN tainted ELSE tainted \cup {f}
          /\ pc' = IF set THEN Accepted ELSE "sendTimeout"
    /\ client' = AfterAccept(f)
    /\ UNCHANGED <<listening, idx, fds, clients, newfd, rc, keepAlive,
                   exitFlag, npolled, refused>>

\* clientAccept goes on after a failed setsockopt.  The next one is made on the
\* closed number: another thread may hold it by now, and if it fails again
\* that thread's descriptor is closed.
SetSendTimeout ==
    /\ pc = "sendTimeout"
    /\ sock' \in {sock, Close(client.sockfd)}
    /\ pc' = Accepted
    /\ UNCHANGED <<backlog, listening, idx, fds, clients, client, newfd, rc,
                   keepAlive, exitFlag, history>>

Handshake ==
    /\ pc = "handshake" /\ CanHandshake(client)
    /\ client' = AfterHandshake(client)
    /\ pc' = "admit"
    /\ UNCHANGED <<kernel, idx, fds, clients, newfd, rc, keepAlive, exitFlag,
                   history>>

HandshakeFails ==
    /\ pc = "handshake"
    /\ sock' = Close(client.sockfd)
    /\ client' = AfterFailedHandshake(client)
    /\ rc' = "acceptFailed"
    /\ pc' = "clearFailed"
    /\ UNCHANGED <<backlog, listening, idx, fds, clients, newfd, keepAlive,
                   exitFlag, history>>

\* clientAccept() < 0 after the handshake: clientClear() of what it left.
ClearFailed ==
    /\ pc = "clearFailed"
    /\ sock' = Close(client.sockfd)
    /\ client' = AfterClear
    /\ rc' = "success"
    /\ fds' = [fds EXCEPT ![1].revents = {}]
    /\ NextListener
    /\ UNCHANGED <<backlog, listening, clients, newfd, keepAlive, exitFlag,
                   history>>

\* Mutant: the limit counts the connection being admitted.
AtLimit == Len(clients) >= MaxConnections

AboveLimit == Len(clients) > MaxConnections

Admit ==
    /\ pc = "admit" /\ ~AboveLimit
    /\ fds' = [Append(fds, Entry(client.sockfd)) EXCEPT ![idx].revents = {}]
    /\ clients' = Append(clients, client)
    /\ newfd' = [newfd EXCEPT ![idx] = client.sockfd]
    /\ client' = NewClient
    /\ NextListener
    /\ UNCHANGED <<kernel, rc, keepAlive, exitFlag, history>>

\* Mutant: the refused Client is forgotten and the loop goes on.
RefuseAndForget ==
    /\ pc = "admit" /\ AboveLimit
    /\ client' = NewClient
    /\ NextListener
    /\ UNCHANGED <<kernel, fds, clients, newfd, rc, keepAlive, exitFlag, history>>

\* Above the limit `break` leaves the poll loop itself, and the scope of the
\* Client just accepted: there is no Client any more that has its socket, which
\* stays open.
Refuse ==
    /\ pc = "admit" /\ AboveLimit
    /\ pc' = "drain"
    /\ client' = NewClient
    /\ refused' = client.sockfd
    /\ UNCHANGED <<kernel, idx, fds, clients, newfd, rc, keepAlive, exitFlag,
                   npolled, tainted>>

----------------------------------------------------------------------------
(* Serving the accepted connections, entry by entry *)

Current == clients[idx - L]

\* i++
NextEntry == idx' = idx + 1 /\ pc' = "serve"

\* The entry at hand has data to read (first branch of the loop's body).
Readable ==
    /\ pc = "serve" /\ idx <= Len(fds)
    /\ fds[idx].fd # NoFd /\ fds[idx].revents = {"IN"}

ReceiveFails ==
    /\ Readable /\ CanFailReceive(Current)
    /\ sock' = Close(Current.sockfd)
    /\ clients' = [clients EXCEPT ![idx - L] = AfterFailedReceive(@)]
    /\ rc' = "receiveFailed"
    /\ pc' = "clear"
    /\ UNCHANGED <<backlog, listening, idx, fds, client, newfd, keepAlive,
                   exitFlag, history>>

\* Mutant: a read without a byte is taken for a wait that timed out.
ReceiveNothingYet ==
    /\ Readable /\ CanReceiveNothing(Current)
    /\ fds' = [fds EXCEPT ![idx].revents = {}]
    /\ NextEntry
    /\ UNCHANGED <<kernel, clients, client, newfd, rc, keepAlive, exitFlag, history>>

ReceiveNothing ==
    /\ Readable /\ CanReceiveNothing(Current)
    /\ sock' = Close(Current.sockfd)
    /\ clients' = [clients EXCEPT ![idx - L] = AfterClose(@)]
    /\ rc' = "receiveFailed"
    /\ pc' = "clear"
    /\ UNCHANGED <<backlog, listening, idx, fds, client, newfd, keepAlive,
                   exitFlag, history>>

\* clientReceive() succeeds; what parse() rejects is cleared unanswered.
Receive(req, rest) ==
    /\ Readable /\ CanReceive(Current)
    /\ req \in Parsed(Current) /\ rest \in Unread(Current)
    /\ sock' = [sock EXCEPT ![Current.sockfd].inbox = rest]
    /\ pc' = IF req = "part" THEN "clear" ELSE "reply"
    /\ keepAlive' = (req = "keep")
    /\ UNCHANGED <<backlog, listening, idx, fds, clients, client, newfd, rc,
                   exitFlag, history>>

\* Mutant: a connection that is kept is served again before the others.
ReplyAgain ==
    /\ pc = "reply" /\ CanSend(Current)
    /\ pc' = IF keepAlive THEN "serve" ELSE "clear"
    /\ keepAlive' = FALSE
    /\ UNCHANGED <<kernel, idx, fds, clients, client, newfd, rc, exitFlag, history>>

\* clientSend() succeeds: the request's Connection header decides.
Reply ==
    /\ pc = "reply" /\ CanSend(Current)
    /\ IF keepAlive THEN fds' = [fds EXCEPT ![idx].revents = {}] /\ NextEntry
                    ELSE pc' = "clear" /\ UNCHANGED <<fds, idx>>
    /\ keepAlive' = FALSE
    /\ UNCHANGED <<kernel, clients, client, newfd, rc, exitFlag, history>>

ReplyFails ==
    /\ pc = "reply" /\ CanFailSend(Current)
    /\ sock' = Close(Current.sockfd)
    /\ clients' = [clients EXCEPT ![idx - L] = AfterClose(@)]
    /\ rc' = "sendFailed"
    /\ keepAlive' = FALSE
    /\ pc' = "clear"
    /\ UNCHANGED <<backlog, listening, idx, fds, client, newfd, exitFlag,
                   history>>

\* Mutant: one newfd for both listeners.
ClosableByOneNewfd ==
    \/ fds[idx].revents = {"HUP"}
    \/ fds[idx].revents = {} /\ fds[idx].fd # newfd[L]

\* "They closed the connection on us": a hang-up, or no event at all on a
\* connection that was not accepted in this very iteration.
Closable ==
    \/ fds[idx].revents = {"HUP"}
    \/ fds[idx].revents = {} /\ ~Current.useSSL /\ fds[idx].fd # newfd[1]
    \/ /\ L = 2
       /\ fds[idx].revents = {} /\ Current.useSSL /\ fds[idx].fd # newfd[L]

Kill ==
    /\ pc = "serve" /\ idx <= Len(fds) /\ ~Readable
    /\ fds[idx].fd # NoFd /\ Closable
    /\ pc' = "clear"
    /\ UNCHANGED <<kernel, idx, fds, clients, client, newfd, rc, keepAlive,
                   exitFlag, history>>

PassOver ==
    /\ pc = "serve" /\ idx <= Len(fds) /\ ~Readable
    /\ ~(fds[idx].fd # NoFd /\ Closable)
    /\ NextEntry
    /\ UNCHANGED <<kernel, fds, clients, client, newfd, rc, keepAlive,
                   exitFlag, history>>

\* clientClear(), and fds[i].fd = -1: the entry waits for its removal.
Clear ==
    /\ pc = "clear"
    /\ sock' = Close(Current.sockfd)
    /\ clients' = [clients EXCEPT ![idx - L] = AfterClear]
    /\ fds' = [fds EXCEPT ![idx] = Entry(NoFd)]
    /\ rc' = "success" /\ keepAlive' = FALSE
    /\ NextEntry
    /\ UNCHANGED <<backlog, listening, client, newfd, exitFlag, history>>

ClearAborts == pc = "clear" /\ FreesTwice(Current) /\ Dies

\* Mutant: the loop over fds ends one entry early.
ServeDoneEarly ==
    /\ pc = "serve" /\ idx >= Len(fds)
    /\ pc' = "prune" /\ idx' = 1
    /\ UNCHANGED <<kernel, fds, clients, client, newfd, rc, keepAlive,
                   exitFlag, history>>

ServeDone ==
    /\ pc = "serve" /\ idx > Len(fds)
    /\ pc' = "prune" /\ idx' = 1
    /\ UNCHANGED <<kernel, fds, clients, client, newfd, rc, keepAlive,
                   exitFlag, history>>

----------------------------------------------------------------------------
(* Removing the cleared entries from both vectors *)

\* Mutant: both vectors are erased at the same position.
PruneSamePosition ==
    /\ pc = "prune" /\ idx <= Len(fds)
    /\ IF fds[idx].fd = NoFd
          THEN /\ fds' = RemoveAt(fds, idx)
               /\ clients' = RemoveAt(clients, Min({idx, Len(clients)}))
               /\ UNCHANGED idx
          ELSE idx' = idx + 1 /\ UNCHANGED <<fds, clients>>
    /\ UNCHANGED <<kernel, pc, client, newfd, rc, keepAlive, exitFlag, history>>

Prune ==
    /\ pc = "prune" /\ idx <= Len(fds)
    /\ IF fds[idx].fd = NoFd
          THEN /\ fds' = RemoveAt(fds, idx)
               /\ clients' = RemoveAt(clients, idx - L)
               /\ UNCHANGED idx
          ELSE idx' = idx + 1 /\ UNCHANGED <<fds, clients>>
    /\ UNCHANGED <<kernel, pc, client, newfd, rc, keepAlive, exitFlag, history>>

\* The iteration, and with it the scope of newfd, ends.  A tainted number that no
\* Client has any more is like any other.
PruneDone ==
    /\ pc = "prune" /\ idx > Len(fds)
    /\ pc' = "poll" /\ idx' = 1
    /\ newfd' = [l \in 1 .. L |-> NoFd]
    /\ npolled' = 0
    /\ tainted' = {f \in tainted : \E i \in 1 .. Len(clients) : clients[i].sockfd = f}
    /\ UNCHANGED <<kernel, fds, clients, client, rc, keepAlive, exitFlag, refused>>

----------------------------------------------------------------------------
(* After the loop: the clients from the last to the first, the listeners *)

DropListeners ==
    /\ pc = "drain"
    /\ fds' = SubSeq(fds, L + 1, Len(fds))
    /\ pc' = "draining"
    /\ UNCHANGED <<kernel, idx, clients, client, newfd, rc, keepAlive,
                   exitFlag, history>>

DrainClient ==
    /\ pc = "draining" /\ fds # <<>>
    /\ sock' = Close(clients[Len(fds)].sockfd)
    /\ clients' = RemoveAt(clients, Len(fds))
    /\ fds' = SubSeq(fds, 1, Len(fds) - 1)
    /\ UNCHANGED <<backlog, listening, pc, idx, client, newfd, rc, keepAlive,
                   exitFlag, history>>

\* Mutant: the loop over the clients stops before the first one.
DrainDoneEarly ==
    /\ pc = "draining" /\ Len(fds) <= 1
    /\ listening' = {}
    /\ backlog' = [l \in 1 .. L |-> 0]
    /\ pc' = "done"
    /\ UNCHANGED <<sock, idx, fds, clients, client, newfd, rc, keepAlive,
                   exitFlag, history>>

\* serverClear(): who waited in a backlog is reset by the system.
DrainDone ==
    /\ pc = "draining" /\ fds = <<>>
    /\ listening' = {}
    /\ backlog' = [l \in 1 .. L |-> 0]
    /\ pc' = "done"
    /\ UNCHANGED <<sock, idx, fds, clients, client, newfd, rc, keepAlive,
                   exitFlag, history>>

----------------------------------------------------------------------------

\* TR_MetricServer::stop() sets the flag, from another thread.
RequestExit ==
    /\ ~exitFlag
    /\ exitFlag' = TRUE
    /\ UNCHANGED <<kernel, handler>>

HandlerStep ==
    \/ StartServer \/ StartServerFails
    \/ PollStop \/ PollTimeout \/ PollReady \/ PollFails
    \/ SkipAccept \/ AcceptFails \/ (\E f \in FD : Accept(f)) \/ SetSendTimeout
    \/ Handshake \/ HandshakeFails \/ ClearFailed
    \/ Admit \/ Refuse
    \/ ReceiveFails \/ ReceiveNothing
    \/ \E req \in Inbox, rest \in {"none", "part"} : Receive(req, rest)
    \/ Reply \/ ReplyFails
    \/ Kill \/ PassOver \/ Clear \/ ClearAborts \/ ServeDone
    \/ Prune \/ PruneDone
    \/ DropListeners \/ DrainClient \/ DrainDone

Finished == Ended /\ UNCHANGED vars

Next ==
    \/ HandlerStep
    \/ RequestExit
    \/ Environment /\ UNCHANGED <<handler, exitFlag>>
    \/ Finished

Spec == Init /\ [][Next]_vars

\* The operating system runs the handler's thread; no peer, no other thread
\* and no caller of stop() is ever obliged to act.
FairSpec == Spec /\ WF_vars(HandlerStep)

----------------------------------------------------------------------------
(* Safety *)

\* Entries that precede the clients' in fds.
Offset == IF pc \in {"draining", "done"} THEN 0 ELSE L

\* The two vectors stay in lockstep through admission, removal and shutdown
\* (MetricServerHandler.cpp 424-435, 564-577, 579-588): entry L + i polls the
\* descriptor of client i, and every poll starts without cleared entries.
VectorsAligned ==
    pc \notin {"start", "exit"} =>
        /\ Len(fds) = Offset + Len(clients)
        /\ \A l \in 1 .. Offset : fds[l].fd = ListenFds[l]
        /\ \A i \in 1 .. Len(clients) :
              \/ fds[Offset + i].fd = clients[i].sockfd
              \/ pc = "clear" /\ Offset + i = idx /\ clients[i].sockfd = NoFd
        /\ pc = "poll" => \A i \in 1 .. Len(clients) : clients[i].sockfd # NoFd

\* The limit the code enforces (lines 420 and 451), over both listeners together:
\* one connection more than MaxConnections, and one more than
\* src/server/README.md 15 says the server handles at once.
ConnectionLimit == Len(clients) <= MaxConnections + 1

\* Where the thread's index points: at a listener while it starts or accepts,
\* at a client's entry while it serves one, behind the entries that remain
\* while it removes the cleared ones.
IndexInv ==
    /\ pc = "start" =>
          /\ idx \in 1 .. L /\ Len(fds) = idx - 1 /\ clients = <<>>
          /\ \A l \in 1 .. idx - 1 : fds[l].fd = ListenFds[l]
    /\ pc \in {"accept", "sendTimeout", "handshake", "clearFailed", "admit"} =>
          idx \in 1 .. L
    /\ pc = "serve" => idx > L
    /\ pc \in {"reply", "clear"} => idx > L /\ idx <= Len(fds)
    /\ pc = "prune" =>
          idx >= 1 /\ \A j \in 1 .. Len(fds) : j < idx => fds[j].fd # NoFd

\* The inductive invariant behind TypeOK, VectorsAligned and ConnectionLimit.
IInv == TypeOK /\ IndexInv /\ VectorsAligned /\ ConnectionLimit

\* A record whose descriptor was given up by a failed call that did not reset
\* _sockfd (MetricClient.cpp 68-81 and 180-196), until clientClear.
Dangling(c) ==
    \/ pc = "clearFailed" /\ c = client
    \/ pc = "clear" /\ rc = "receiveFailed" /\ c = Current

\* Every socket the server has open is in a Client, so that it will be closed,
\* save one: that of the refused Client is lost, and no other is, whatever calls
\* fail (422, 453).
NothingElseLeaks ==
    \A f \in FD : Owned(f) =>
        \/ f = refused \/ client.sockfd = f
        \/ \E i \in 1 .. Len(clients) : clients[i].sockfd = f

\* No socket but the refused one is lost, and none is shared: a Client's number is
\* its own open socket, save the dangling one's.  A number whose setsockopt has
\* failed (MetricClient.cpp 35, 51, 126-127) is outside this, as a Client keeps it
\* while the next accept, or another thread, may get it; nothing spreads from it
\* to other numbers, and it is sound again once no Client has it.
HeldOnce ==
    /\ NothingElseLeaks
    /\ \A i, j \in 1 .. Len(clients) :
          i # j /\ clients[i].sockfd \notin tainted \cup {NoFd} =>
              clients[i].sockfd # clients[j].sockfd
    /\ \A i \in 1 .. Len(clients) :
          clients[i].sockfd \notin tainted \cup {NoFd} =>
              /\ clients[i].sockfd \notin {client.sockfd, refused}
              /\ Owned(clients[i].sockfd) \/ Dangling(clients[i])
    /\ client.sockfd \notin tainted \cup {NoFd} =>
          Owned(client.sockfd) \/ Dangling(client)

\* A connection accepted in this iteration, which poll() has not yet reported
\* on, is not cleared in this iteration, whatever the other listener accepted
\* meanwhile (the newfd conditions of line 552).
NewcomersSurvive == pc = "clear" => idx <= npolled

\* The most steps of its own the handler takes from a place, with index i and n
\* entries in fds, until it polls again, and on until it has returned if the exit
\* flag is set: up to four for each listener's turn, three for each entry served, one
\* for each entry looked at for removal, and those of the shutdown, where every
\* connection that is admitted adds to all of them.
StepsFrom(place, i, n) ==
    LET turns  == 9 * (L + 1 - i) + 5 * n - 3 * L
        serves == 3 * (n + 1 - i) + 2 * n
    IN  CASE place = "start"       -> 2 * (L + 1 - i) + n + 3
          [] place = "poll"        -> n + 3
          [] place = "accept"      -> turns + 6
          [] place = "sendTimeout" -> turns + 5
          [] place = "handshake"   -> turns + 4
          [] place = "clearFailed" -> turns + 3
          [] place = "admit"       -> turns + 3
          [] place = "serve"       -> serves + 5
          [] place = "reply"       -> serves + 4
          [] place = "clear"       -> serves + 3
          [] place = "prune"       -> (n + 1 - i) + n + 4
          [] place = "drain"       -> n + 2
          [] place = "draining"    -> n + 1
          [] OTHER                 -> 0

StepsLeft == StepsFrom(pc, idx, Len(fds))

\* No peer holds the loop up, and none can keep it from the exit flag: an
\* iteration ends after a number of the handler's own steps that is known from
\* its beginning, whatever the peers send and whichever calls fail, and with the
\* flag set so does the handler (MetricServerHandler.cpp 336-604).
StepsRunOut ==
    [][HandlerStep /\ (exitFlag \/ pc # "poll") =>
          StepsLeft' < StepsLeft /\ StepsLeft' >= 0]_vars

\* Once the handler has returned, every connection it had admitted is closed
\* and so are its listeners.  Only the refused connection is left open, for as
\* long as the process lives (422, 453: no destructor closes it).
DrainedOnExit ==
    pc = "done" =>
        /\ clients = <<>> /\ listening = {}
        /\ \A f \in FD : Owned(f) => f = refused

\* The handler closes a descriptor of another thread on three paths and no other:
\* in the second close of a failed handshake, in that of a failed receive, and
\* through a number that a failed setsockopt has closed and a Client kept
\* (MetricClient.cpp 35, 51, 126-127).  A failed send, an empty receive, a killed
\* connection or the shutdown never does so by itself.
StrayCloseOnlyAfterFailure ==
    [][\A f \in FD :
          sock[f].owner = "foreign" /\ sock'[f].owner = "free" /\ handler' # handler
          /\ pc' # "exit"
          => \/ pc = "clearFailed"
             \/ pc = "clear" /\ rc = "receiveFailed" /\ Current.sockfd = f
             \/ f \in tainted]_vars

----------------------------------------------------------------------------
(* The abstract specification this module implements *)

Phase ==
    CASE pc = "start"                -> "opening"
      [] pc \in {"drain", "draining"} -> "closing"
      [] pc = "done"                 -> "closed"
      [] pc = "exit"                 -> "dead"
      [] OTHER                       -> "serving"

Conns == {f \in FD : Owned(f)}

\* Read by clientReceive and not yet answered by clientSend.
Asking == IF pc = "reply" THEN Current.sockfd ELSE NoFd

Service == INSTANCE MetricService WITH
    Conn <- FD, NoConn <- NoFd, Ports <- 1 .. L, Limit <- MaxConnections + 1,
    phase <- Phase, ports <- listening, conns <- Conns, asking <- Asking,
    spared <- refused, lapsed <- tainted # {}, stopFlag <- exitFlag

\* The loop does what MetricService promises: it takes nobody once it is above
\* its limit, turns to no other connection between a request and its answer,
\* ends only when told to or above the limit, and has everything but the
\* refused connection closed when it returns (336-604).  A number that a failed
\* setsockopt has tainted is a lapse of the service.
ImplementsService == Service!ServiceSpec

----------------------------------------------------------------------------
(* What the documentation and the comments say, and the code does not do *)

\* "Stop it with the stop() function" (MetricServer.hpp 34): the handler
\* returns only when the flag that stop() sets is set.
ReturnsOnlyWhenStopped == pc = "done" => exitFlag

\* "They closed the connection on us, so kill the connection"
\* (MetricServerHandler.cpp 551), of the step that decides to kill it.
KillsOnlyClosedConnections ==
    [][\A f \in FD :
          pc = "serve" /\ pc' = "clear" /\ fds[idx].fd = f /\ kernel' = kernel
          => fds[idx].revents = {"IN"} \/ sock[f].link # "up"]_vars

\* "Clears the structure for reuse and closes the socket"
\* (MetricServerHandler.cpp 487): the socket, not somebody else's descriptor.
ClearClosesOwnSocket ==
    [][\A f \in FD :
          sock[f].owner = "foreign" /\ sock'[f].owner = "free" /\ handler' # handler
          => pc' = "exit"]_vars

----------------------------------------------------------------------------
(* Liveness *)

\* After stop() has set the flag the handler comes back to its thread's entry
\* point, however the peers behave.
ShutdownCompletes == exitFlag ~> Ended

\* A request that has arrived on an open connection does not wait for ever:
\* it is read, or the connection goes, or the server ends.
RequestsConsumed ==
    \A f \in FD : Owned(f) /\ sock[f].inbox # "none" ~>
                    ~Owned(f) \/ sock[f].inbox = "none" \/ Ended

\* Nobody waits for ever in a backlog while the server runs.
BacklogServed ==
    \A l \in 1 .. L : backlog[l] = MaxBacklog ~> backlog[l] < MaxBacklog \/ Ended

\* A connection its peer has finished does not keep its slot for ever: what it
\* has sent is read first, then the end of its input closes it.
FinishedCloses ==
    \A f \in FD : Owned(f) /\ sock[f].link = "fin" ~>
                    ~Owned(f) \/ sock[f].link = "rst" \/ Ended

\* A connection reset by its peer does not keep its slot for ever.
ResetsCleared ==
    \A f \in FD : Owned(f) /\ sock[f].link = "rst" ~> ~Owned(f) \/ Ended
=============================================================================
