--------------------------- MODULE Ownership_proofs ---------------------------
(***************************************************************************)
(* Who holds which descriptor, for every set of descriptors, every limit,  *)
(* one listener or two, and every choice of failing system calls.  Two     *)
(* things the code does are named and never hidden: the socket of the      *)
(* refused Client stays open with nobody to close it (refused), and a      *)
(* number that a failed setsockopt has closed stays in its Client while    *)
(* the next accept, or another thread, may get it (tainted).               *)
(***************************************************************************)
EXTENDS MetricServerHandler_proofs

\* Between two accepts there is no Client outside the vector.  A Client is
\* refused only when the loop is left.  When the first setsockopt has failed, the
\* number it closed is not an open socket of the server before the second one.
\* Nothing is left in the vector when the handler has returned.
Scope ==
    /\ pc \notin {"sendTimeout", "handshake", "clearFailed", "admit"} =>
          client.sockfd = NoFd
    /\ pc \notin {"drain", "draining", "done"} => refused = NoFd
    /\ pc = "sendTimeout" => client.sockfd \in tainted /\ ~Owned(client.sockfd)
    /\ pc = "done" => clients = <<>> /\ listening = {}

\* Where every open socket is.
LeakInv == IInv /\ NothingElseLeaks /\ Scope

\* Client i has given its number up in a receive that failed, and waits for
\* clientClear.
Loose(i) == pc = "clear" /\ rc = "receiveFailed" /\ i = idx - L

\* A number no failed setsockopt has closed.
Sound(f) == f \notin tainted \cup {NoFd}

\* No two records share a sound number, and every sound number in a record is an
\* open socket, the loose ones aside.
Held ==
    /\ \A i, j \in 1 .. Len(clients) :
          i # j /\ Sound(clients[i].sockfd) =>
              clients[i].sockfd # clients[j].sockfd
    /\ \A i \in 1 .. Len(clients) :
          Sound(clients[i].sockfd) =>
              /\ clients[i].sockfd \notin {client.sockfd, refused}
              /\ Owned(clients[i].sockfd) \/ Loose(i)
    /\ Sound(client.sockfd) => Owned(client.sockfd) \/ pc = "clearFailed"

HInv == IInv /\ NothingElseLeaks /\ Scope /\ Held

----------------------------------------------------------------------------

\* What the types say of the table and of the records.
LEMMA Types ==
    ASSUME IInv
    PROVE  /\ Len(clients) \in Nat /\ clients \in Seq(Client) /\ NoFd \notin FD
           /\ client \in Client /\ client.sockfd \in FD \cup {NoFd}
           /\ refused \in FD \cup {NoFd} /\ tainted \subseteq FD
           /\ \A i \in 1 .. Len(clients) :
                 clients[i] \in Client /\ clients[i].sockfd \in FD \cup {NoFd}
<1>1. /\ clients \in Seq(Client) /\ client \in Client
      /\ refused \in FD \cup {NoFd} /\ tainted \subseteq FD
  BY DEF IInv, TypeOK
<1>2. \A c \in Client : c.sockfd \in FD \cup {NoFd}
  BY DEF Client
<1>3. \A i \in 1 .. Len(clients) : clients[i] \in Client
  BY <1>1, ElementOfSeq
<1> QED
  BY <1>1, <1>2, <1>3, ListenerFacts

\* close() takes one number away from whoever holds it, and no other.
LEMMA CloseFacts ==
    ASSUME IInv, NEW g \in FD \cup {NoFd}, sock' = Close(g)
    PROVE  \A f \in FD : /\ f # g => sock'[f] = sock[f]
                         /\ f = g => sock'[f] = FreeSock
                         /\ Owned(f)' <=> Owned(f) /\ f # g
<1>1. sock \in [FD -> [owner : {"free", "server", "foreign"},
                       inbox : Inbox, link : {"up", "fin", "rst"}]]
  BY DEF IInv, TypeOK, SocketsTypeOK
<1> QED
  BY <1>1, ListenerFacts DEF Close, Owned, FreeSock

\* What peers, other threads and the caller of stop() do opens and closes no
\* socket of the server.
LEMMA EnvironmentOwned ==
    ASSUME IInv,
           (Environment /\ UNCHANGED <<handler, exitFlag>>) \/ RequestExit
               \/ UNCHANGED vars
    PROVE  \A f \in FD : Owned(f)' <=> Owned(f)
<1>1. sock \in [FD -> [owner : {"free", "server", "foreign"},
                       inbox : Inbox, link : {"up", "fin", "rst"}]]
  BY DEF IInv, TypeOK, SocketsTypeOK
<1>2. CASE \E l \in 1 .. L : Connect(l) \/ Abort(l)
  BY <1>2 DEF Connect, Abort, Owned
<1>3. ASSUME NEW f \in FD, NEW r \in Requests, PeerSend(f, r)
      PROVE  \A g \in FD : Owned(g)' <=> Owned(g)
  BY <1>1, <1>3 DEF PeerSend, Owned
<1>4. ASSUME NEW f \in FD, PeerFin(f) \/ PeerReset(f)
      PROVE  \A g \in FD : Owned(g)' <=> Owned(g)
  BY <1>1, <1>4 DEF PeerFin, PeerReset, Owned
<1>5. ASSUME NEW f \in FD, ForeignOpen(f) \/ ForeignClose(f)
      PROVE  \A g \in FD : Owned(g)' <=> Owned(g)
  BY <1>1, <1>5, ListenerFacts DEF ForeignOpen, ForeignClose, Close, FreeSock, Owned
<1>6. CASE RequestExit \/ UNCHANGED vars
  BY <1>6 DEF RequestExit, vars, kernel, Owned
<1> QED
  BY <1>2, <1>3, <1>4, <1>5, <1>6 DEF Environment

----------------------------------------------------------------------------
(* Nothing leaks but the refused socket *)

LEMMA NextScope == IInv /\ Scope /\ [Next]_vars => Scope'
<1> SUFFICES ASSUME IInv, Scope, [Next]_vars PROVE Scope'
  OBVIOUS
<1> DEFINE accepting == {"sendTimeout", "handshake", "clearFailed", "admit"}
           ending    == {"drain", "draining", "done"}
<1>1. CASE DrainDone
  <2>1. Len(clients) = 0
    BY <1>1, Types, EmptySeq DEF DrainDone, IInv, TypeOK, VectorsAligned, Offset
  <2>2. clients = <<>>
    BY <2>1, Types, EmptySeq
  <2> QED
    BY <1>1, <2>2 DEF DrainDone, Scope, history
<1>2. CASE StartServerFails \/ PollFails \/ ClearAborts
  BY <1>2 DEF StartServerFails, PollFails, ClearAborts, Dies, NewClient, Scope
<1>3. ASSUME NEW f \in FD, Accept(f) PROVE Scope'
  <2>1. /\ pc = "accept" /\ pc' \in {"sendTimeout", "handshake", "admit"}
        /\ refused' = refused /\ client'.sockfd = f
    BY <1>3 DEF Accept, Accepted, AfterAccept, NewClient
  <2>2. pc' = "sendTimeout" => f \in tainted' /\ sock' = sock
    BY <1>3 DEF Accept, Accepted, AfterTimeouts
  <2>3. sock[f].owner = "free"
    BY <1>3 DEF Accept, CanAccept
  <2> QED
    BY <2>1, <2>2, <2>3 DEF Scope, Owned
<1>4. CASE SetSendTimeout \/ Handshake \/ HandshakeFails
  <2>1. pc' \in accepting \ {"sendTimeout"} /\ refused' = refused /\ pc \in accepting
    BY <1>4 DEF SetSendTimeout, Accepted, Handshake, HandshakeFails, history
  <2> QED
    BY <2>1 DEF Scope
<1>5. CASE ClearFailed \/ Admit \/ Refuse
  <2>1. /\ client'.sockfd = NoFd /\ pc \in accepting
        /\ \/ pc' \in {"accept", "serve"} /\ refused' = refused
           \/ pc' = "drain"
    BY <1>5 DEF ClearFailed, Admit, Refuse, AfterClear, NewClient, NextListener,
       history
  <2> QED
    BY <2>1 DEF Scope
<1>6. CASE \/ StartServer \/ PollStop \/ PollTimeout \/ PollReady
           \/ SkipAccept \/ AcceptFails
           \/ ReceiveFails \/ ReceiveNothing
           \/ \E req \in Inbox, rest \in {"none", "part"} : Receive(req, rest)
           \/ Reply \/ ReplyFails \/ Kill \/ PassOver \/ Clear \/ ServeDone
           \/ Prune \/ PruneDone \/ DropListeners \/ DrainClient
  <2>1. /\ UNCHANGED <<client, refused>> /\ pc' # "done"
        /\ pc \notin accepting /\ pc' \notin accepting
        /\ pc \in ending => pc' \in ending
    BY <1>6 DEF StartServer, PollStop, PollTimeout, PollReady, SkipAccept,
       AcceptFails, ReceiveFails, ReceiveNothing, Receive, Reply, ReplyFails,
       Kill, PassOver, Clear, ServeDone, Prune, PruneDone, DropListeners,
       DrainClient, Readable, NextListener, NextEntry, history
  <2> QED
    BY <2>1 DEF Scope
<1>7. CASE (Environment /\ UNCHANGED <<handler, exitFlag>>) \/ RequestExit
              \/ UNCHANGED vars
  <2>1. UNCHANGED <<pc, clients, client, refused, tainted>>
    BY <1>7 DEF RequestExit, vars, handler, history
  <2>2. listening' = listening
    BY <1>7 DEF RequestExit, vars, kernel, Environment, Connect, Abort, PeerSend,
       PeerFin, PeerReset, ForeignOpen, ForeignClose
  <2>3. \A f : Owned(f)' <=> Owned(f)
    BY <1>7, EnvironmentOwned DEF Owned
  <2> QED
    BY <2>1, <2>2, <2>3 DEF Scope
<1> QED
  BY <1>1, <1>2, <1>3, <1>4, <1>5, <1>6, <1>7 DEF Next, HandlerStep, Finished

\* No socket is opened and no number is given up.
LEMMA KeptLeaksNothing ==
    ASSUME IInv, NothingElseLeaks, UNCHANGED <<clients, refused>>,
           client'.sockfd = client.sockfd,
           \A f \in FD : Owned(f)' => Owned(f)
    PROVE  NothingElseLeaks'
  BY DEF NothingElseLeaks

\* The number in record k is closed, and another record takes its place.
LEMMA ReplacedLeaksNothing ==
    ASSUME IInv, NothingElseLeaks, NEW k \in 1 .. Len(clients), NEW d,
           clients' = [clients EXCEPT ![k] = d], UNCHANGED <<client, refused>>,
           sock' = Close(clients[k].sockfd)
    PROVE  NothingElseLeaks'
<1> USE Types
<1>1. /\ Len(clients') = Len(clients)
      /\ \A i \in 1 .. Len(clients) : i # k => clients'[i] = clients[i]
  OBVIOUS
<1>2. \A f \in FD : Owned(f)' <=> Owned(f) /\ f # clients[k].sockfd
  BY CloseFacts
<1> QED
  BY <1>1, <1>2 DEF NothingElseLeaks

\* The number in record k is closed, and the record leaves the vector.
LEMMA RemovedLeaksNothing ==
    ASSUME IInv, NothingElseLeaks, NEW k \in 1 .. Len(clients),
           clients' = RemoveAt(clients, k), UNCHANGED <<client, refused>>,
           sock' = Close(clients[k].sockfd)
    PROVE  NothingElseLeaks'
<1> USE Types
<1>1. /\ Len(clients') = Len(clients) - 1
      /\ \A i \in 1 .. Len(clients) - 1 :
            clients'[i] = IF i < k THEN clients[i] ELSE clients[i + 1]
  BY RemoveAtFacts
<1>2. \A f \in FD : Owned(f)' <=> Owned(f) /\ f # clients[k].sockfd
  BY CloseFacts
<1>3. ASSUME NEW h \in 1 .. Len(clients), h # k
      PROVE  \E i \in 1 .. Len(clients') : clients'[i] = clients[h]
  <2>1. CASE h < k
    <3>1. h \in 1 .. Len(clients') /\ clients'[h] = clients[h]
      BY <1>1, <2>1
    <3> QED
      BY <3>1
  <2>2. CASE h > k
    <3>1. h - 1 \in 1 .. Len(clients') /\ clients'[h - 1] = clients[h]
      BY <1>1, <2>2
    <3> QED
      BY <3>1
  <2> QED
    BY <1>3, <2>1, <2>2
<1>4. ASSUME NEW f \in FD, Owned(f)', client'.sockfd # f, f # refused'
      PROVE  \E i \in 1 .. Len(clients') : clients'[i].sockfd = f
  <2>1. PICK h \in 1 .. Len(clients) : clients[h].sockfd = f
    BY <1>2, <1>4 DEF NothingElseLeaks
  <2>2. h # k
    BY <1>2, <1>4, <2>1
  <2> QED
    BY <1>3, <2>1, <2>2
<1> QED
  BY <1>4 DEF NothingElseLeaks

\* A connection comes, or it does not come about, or it gets its record, or it is
\* refused and has none.
LEMMA AcceptLeaksNothing ==
    ASSUME LeakInv,
           \/ \E f \in FD : Accept(f)
           \/ SetSendTimeout \/ Handshake \/ HandshakeFails \/ ClearFailed
           \/ Admit \/ Refuse
    PROVE  NothingElseLeaks'
<1> USE Types DEF LeakInv
<1>1. ASSUME NEW f \in FD, Accept(f) PROVE NothingElseLeaks'
  <2>1. /\ client.sockfd = NoFd /\ client'.sockfd = f
        /\ UNCHANGED <<clients, refused>>
    BY <1>1 DEF Accept, AfterAccept, NewClient, Scope
  <2>2. \A g \in FD : g # f => sock'[g] = sock[g]
    BY <1>1 DEF Accept, AfterTimeouts, IInv, TypeOK, SocketsTypeOK
  <2> QED
    BY <2>1, <2>2 DEF NothingElseLeaks, Owned
<1>2. CASE Handshake
  <2>1. /\ sock' = sock /\ UNCHANGED <<clients, refused>>
        /\ client'.sockfd = client.sockfd
    BY <1>2 DEF Handshake, AfterHandshake, kernel, Client, history
  <2> QED
    BY <2>1, KeptLeaksNothing DEF Owned
<1>3. CASE SetSendTimeout \/ HandshakeFails
  <2>1. /\ sock' = sock \/ sock' = Close(client.sockfd)
        /\ UNCHANGED <<clients, refused>> /\ client'.sockfd = client.sockfd
    BY <1>3 DEF SetSendTimeout, HandshakeFails, AfterFailedHandshake, history
  <2>2. \A f \in FD : Owned(f)' => Owned(f)
    BY <2>1, CloseFacts DEF Owned
  <2> QED
    BY <2>1, <2>2, KeptLeaksNothing
<1>4. CASE ClearFailed
  <2>1. sock' = Close(client.sockfd) /\ UNCHANGED <<clients, refused>>
    BY <1>4 DEF ClearFailed, history
  <2>2. \A f \in FD : Owned(f)' => Owned(f) /\ f # client.sockfd
    BY <2>1, CloseFacts
  <2> QED
    BY <2>1, <2>2 DEF NothingElseLeaks
<1>5. CASE Admit
  <2>1. sock' = sock /\ clients' = Append(clients, client) /\ refused' = refused
    BY <1>5 DEF Admit, kernel, history
  <2>2. /\ Len(clients') = Len(clients) + 1
        /\ \A i \in 1 .. Len(clients) : clients'[i] = clients[i]
        /\ clients'[Len(clients) + 1] = client
    BY <2>1, AppendProperties
  <2>3. \A f \in FD : Owned(f)' => Owned(f)
    BY <2>1 DEF Owned
  <2>4. /\ Len(clients) + 1 \in 1 .. Len(clients')
        /\ \A i \in 1 .. Len(clients) : i \in 1 .. Len(clients')
    BY <2>2
  <2>5. ASSUME NEW f \in FD, Owned(f)', f # refused
        PROVE  \E i \in 1 .. Len(clients') : clients'[i].sockfd = f
    <3>1. CASE client.sockfd = f
      BY <2>2, <2>4, <3>1
    <3>2. CASE client.sockfd # f
      <4>1. PICK i \in 1 .. Len(clients) : clients[i].sockfd = f
        BY <2>3, <2>5, <3>2 DEF NothingElseLeaks
      <4> QED
        BY <2>2, <2>4, <4>1
    <3> QED
      BY <3>1, <3>2
  <2> QED
    BY <2>1, <2>5 DEF NothingElseLeaks
<1>6. CASE Refuse
  <2>1. /\ sock' = sock /\ clients' = clients
        /\ refused = NoFd /\ refused' = client.sockfd
    BY <1>6 DEF Refuse, kernel, Scope
  <2>2. \A f \in FD : Owned(f)' <=> Owned(f)
    BY <2>1 DEF Owned
  <2>3. \A f \in FD : f # refused
    BY <2>1
  <2> QED
    BY <2>1, <2>2, <2>3 DEF NothingElseLeaks
<1> QED
  BY <1>1, <1>2, <1>3, <1>4, <1>5, <1>6

\* A connection is served, and closed when it has to be.
LEMMA ServeLeaksNothing ==
    ASSUME LeakInv,
           \/ ReceiveFails \/ ReceiveNothing \/ ReplyFails \/ Clear
           \/ \E req \in Inbox, rest \in {"none", "part"} : Receive(req, rest)
    PROVE  NothingElseLeaks'
<1> USE Types DEF LeakInv
<1>1. CASE ReceiveFails \/ ReceiveNothing \/ ReplyFails \/ Clear
  <2>1. pc \in {"serve", "reply", "clear"} /\ idx <= Len(fds)
    BY <1>1 DEF IInv, ReceiveFails, ReceiveNothing, ReplyFails, Clear, Readable,
       IndexInv
  <2>2. idx - L \in 1 .. Len(clients)
    BY <2>1, CurrentFacts
  <2>3. /\ sock' = Close(clients[idx - L].sockfd) /\ UNCHANGED <<client, refused>>
        /\ \E d : clients' = [clients EXCEPT ![idx - L] = d]
    BY <1>1 DEF ReceiveFails, ReceiveNothing, ReplyFails, Clear, Current, history
  <2> QED
    BY <2>2, <2>3, ReplacedLeaksNothing
<1>2. ASSUME NEW req \in Inbox, NEW rest \in {"none", "part"}, Receive(req, rest)
      PROVE  NothingElseLeaks'
  <2>1. /\ UNCHANGED <<clients, client, refused>>
        /\ sock' = [sock EXCEPT ![Current.sockfd].inbox = rest]
    BY <1>2 DEF Receive, history
  <2>2. \A f \in FD : Owned(f)' => Owned(f)
    BY <2>1 DEF Owned, IInv, TypeOK, SocketsTypeOK
  <2> QED
    BY <2>1, <2>2, KeptLeaksNothing
<1> QED
  BY <1>1, <1>2

\* A record leaves the vector: without a number by Prune, closed by the shutdown.
LEMMA RemoveLeaksNothing ==
    ASSUME LeakInv, Prune \/ DrainClient
    PROVE  NothingElseLeaks'
<1> USE Types, ListenerFacts DEF LeakInv
<1>1. CASE Prune
  <2>1. UNCHANGED <<client, refused>> /\ sock' = sock /\ pc = "prune"
    BY <1>1 DEF Prune, kernel, history
  <2>2. CASE fds[idx].fd # NoFd
    BY <1>1, <2>1, <2>2, KeptLeaksNothing DEF Prune, Owned
  <2>3. CASE fds[idx].fd = NoFd
    <3>1. idx \in 1 .. Len(fds) /\ Len(fds) = L + Len(clients)
      BY <1>1 DEF Prune, IInv, TypeOK, IndexInv, VectorsAligned, Offset
    <3>2. idx - L \in 1 .. Len(clients) /\ L + (idx - L) = idx
      BY <2>1, <2>3, <3>1 DEF IInv, VectorsAligned, Offset
    <3>3. clients[idx - L].sockfd = NoFd
      BY <2>1, <2>3, <3>2 DEF IInv, VectorsAligned, Offset
    <3>4. /\ clients' = RemoveAt(clients, idx - L)
          /\ sock' = Close(clients[idx - L].sockfd)
      BY <1>1, <2>1, <2>3, <3>3 DEF Prune, Close
    <3> QED
      BY <2>1, <3>2, <3>4, RemovedLeaksNothing
  <2> QED
    BY <2>2, <2>3
<1>2. CASE DrainClient
  <2>1. fds # <<>> /\ fds \in Seq(PollFd) /\ Len(fds) = Len(clients)
    BY <1>2 DEF DrainClient, IInv, TypeOK, VectorsAligned, Offset
  <2>2. Len(fds) \in 1 .. Len(clients)
    BY <2>1, EmptySeq
  <2> QED
    BY <1>2, <2>2, RemovedLeaksNothing DEF DrainClient, history
<1> QED
  BY <1>1, <1>2

LEMMA NextLeakInv == LeakInv /\ [Next]_vars => LeakInv'
<1> SUFFICES ASSUME LeakInv, [Next]_vars PROVE NothingElseLeaks'
  BY NextIInv, NextScope DEF LeakInv
<1> USE DEF LeakInv
<1>1. CASE StartServerFails \/ PollFails \/ ClearAborts
  BY <1>1 DEF StartServerFails, PollFails, ClearAborts, Dies, ProcessDies, FreeSock,
     NothingElseLeaks, Owned
<1>2. CASE \/ \E f \in FD : Accept(f)
           \/ SetSendTimeout \/ Handshake \/ HandshakeFails \/ ClearFailed
           \/ Admit \/ Refuse
  BY <1>2, AcceptLeaksNothing
<1>3. CASE \/ ReceiveFails \/ ReceiveNothing \/ ReplyFails \/ Clear
           \/ \E req \in Inbox, rest \in {"none", "part"} : Receive(req, rest)
  BY <1>3, ServeLeaksNothing
<1>4. CASE Prune \/ DrainClient
  BY <1>4, RemoveLeaksNothing
<1>5. CASE \/ StartServer \/ PollStop \/ PollTimeout \/ PollReady
           \/ SkipAccept \/ AcceptFails \/ Reply
           \/ Kill \/ PassOver \/ ServeDone \/ PruneDone
           \/ DropListeners \/ DrainDone
  <2>1. UNCHANGED <<clients, client, sock, refused>>
    BY <1>5 DEF StartServer, PollStop, PollTimeout, PollReady, SkipAccept,
       AcceptFails, Reply, Kill, PassOver, ServeDone, PruneDone,
       DropListeners, DrainDone, kernel, history
  <2> QED
    BY <2>1, KeptLeaksNothing DEF Owned
<1>6. CASE (Environment /\ UNCHANGED <<handler, exitFlag>>) \/ RequestExit
              \/ UNCHANGED vars
  <2>1. UNCHANGED <<clients, client, refused>>
    BY <1>6 DEF RequestExit, vars, handler, history
  <2>2. \A f \in FD : Owned(f)' <=> Owned(f)
    BY <1>6, EnvironmentOwned
  <2> QED
    BY <2>1, <2>2, KeptLeaksNothing
<1> QED
  BY <1>1, <1>2, <1>3, <1>4, <1>5, <1>6 DEF Next, HandlerStep, Finished

LEMMA InitLeakInv == Init => LeakInv
<1> SUFFICES ASSUME Init PROVE LeakInv
  OBVIOUS
<1>1. \A f \in FD : ~Owned(f)
  BY DEF Init, SocketsInit, FreeSock, Owned
<1> QED
  BY <1>1, InitIInv DEF Init, NewClient, LeakInv, NothingElseLeaks, Scope

THEOREM LeakInvariance == Spec => []LeakInv
  BY InitLeakInv, NextLeakInv, PTL DEF Spec

\* When the handler returns it has closed every connection it had admitted and
\* its listeners, whatever calls have failed (MetricServerHandler.cpp 579-603).
\* The socket of the Client refused at 422 or 453 stays open: it is the only one.
THEOREM Drained == Spec => []DrainedOnExit
<1>1. LeakInv => DrainedOnExit
  <2> SUFFICES ASSUME LeakInv, pc = "done"
               PROVE  /\ clients = <<>> /\ listening = {}
                      /\ \A f \in FD : Owned(f) => f = refused
    BY DEF DrainedOnExit
  <2>1. clients = <<>> /\ listening = {} /\ Len(clients) = 0 /\ client.sockfd = NoFd
    BY DEF LeakInv, Scope
  <2> QED
    BY <2>1, Types DEF LeakInv, NothingElseLeaks
<1> QED
  BY <1>1, LeakInvariance, PTL

----------------------------------------------------------------------------
(* Nothing is shared *)

\* A step that leaves the records and the ownership of descriptors alone.
LEMMA SameHeld ==
    ASSUME IInv, Held,
           UNCHANGED <<clients, client, refused, tainted>>,
           \A f \in FD : Owned(f)' <=> Owned(f),
           \/ UNCHANGED <<pc, rc, idx>>
           \/ pc \notin {"clear", "clearFailed"}
    PROVE  Held'
<1> USE Types DEF Held, Sound
<1>1. \A f : Owned(f)' <=> Owned(f)
  BY DEF Owned
<1>2. ASSUME NEW i \in 1 .. Len(clients), Loose(i) PROVE Loose(i)'
  BY <1>2 DEF Loose
<1>3. pc = "clearFailed" => pc' = "clearFailed"
  OBVIOUS
<1> QED
  BY <1>1, <1>2, <1>3

\* The steps that neither open nor close a connection.
LEMMA QuietHeld ==
    ASSUME HInv,
           \/ StartServer \/ PollStop \/ PollTimeout \/ PollReady
           \/ SkipAccept \/ AcceptFails \/ Reply
           \/ Kill \/ PassOver \/ ServeDone
           \/ DropListeners \/ DrainDone
    PROVE  Held'
<1> USE DEF HInv
<1>1. /\ UNCHANGED <<clients, client, refused, tainted>> /\ UNCHANGED sock
      /\ pc \notin {"clear", "clearFailed"}
  BY DEF StartServer, PollStop, PollTimeout, PollReady, SkipAccept, AcceptFails,
         Reply, Kill, PassOver, ServeDone, DropListeners, DrainDone, Readable,
         kernel, history
<1>2. \A f \in FD : Owned(f)' <=> Owned(f)
  BY <1>1 DEF Owned
<1> QED
  BY <1>1, <1>2, SameHeld

\* The numbers that stop being tainted are in no record.
LEMMA PruneDoneHeld ==
    ASSUME HInv, PruneDone
    PROVE  Held'
<1> USE Types DEF HInv
<1>1. /\ UNCHANGED <<sock, clients, client, refused>>
      /\ pc = "prune" /\ pc' = "poll" /\ client.sockfd = NoFd
      /\ tainted' = {f \in tainted :
                        \E i \in 1 .. Len(clients) : clients[i].sockfd = f}
  BY DEF PruneDone, kernel, Scope
<1>2. \A i \in 1 .. Len(clients) :
         Sound(clients[i].sockfd)' => Sound(clients[i].sockfd)
  BY <1>1 DEF Sound
<1>3. \A f : Owned(f)' <=> Owned(f)
  BY <1>1 DEF Owned
<1>4. ~Sound(client.sockfd)'
  BY <1>1 DEF Sound
<1>5. \A i \in 1 .. Len(clients) : ~Loose(i)
  BY <1>1 DEF Loose
<1> QED
  BY <1>1, <1>2, <1>3, <1>4, <1>5 DEF Held

LEMMA EnvironmentHeld ==
    ASSUME HInv,
           (Environment /\ UNCHANGED <<handler, exitFlag>>) \/ RequestExit
               \/ UNCHANGED vars
    PROVE  Held'
<1>1. UNCHANGED <<clients, client, refused, tainted>> /\ UNCHANGED <<pc, rc, idx>>
  BY DEF RequestExit, vars, handler, history
<1> QED
  BY <1>1, EnvironmentOwned, SameHeld DEF HInv

----------------------------------------------------------------------------
(* Connections that come, and connections that do not come about *)

\* The number comes free: no record has it, unless it is tainted.  When its
\* setsockopt fails it is tainted from here on.
LEMMA AcceptHeld ==
    ASSUME HInv, NEW f \in FD, Accept(f)
    PROVE  Held'
<1> USE Types DEF HInv
<1>1. /\ sock[f].owner = "free" /\ UNCHANGED <<clients, refused>>
      /\ client' = AfterAccept(f)
      /\ pc = "accept" /\ pc' \in {"sendTimeout", "handshake", "admit"}
      /\ \/ sock' = [sock EXCEPT ![f] = Opened] /\ tainted' = tainted
         \/ sock' = sock /\ tainted' = tainted \cup {f}
  BY DEF Accept, CanAccept, AfterTimeouts, Accepted
<1>2. sock \in [FD -> [owner : {"free", "server", "foreign"},
                       inbox : Inbox, link : {"up", "fin", "rst"}]]
  BY DEF IInv, TypeOK, SocketsTypeOK
<1>3. client'.sockfd = f /\ client.sockfd = NoFd /\ refused = NoFd
  BY <1>1 DEF AfterAccept, NewClient, Scope
<1>4. /\ \A g \in FD : Owned(g) => Owned(g)'
      /\ Sound(f)' => Owned(f)'
      /\ \A g : Sound(g)' => Sound(g)
  BY <1>1, <1>2 DEF Owned, Opened, FreeSock, Sound
<1>5. \A i \in 1 .. Len(clients) :
         Sound(clients[i].sockfd) =>
             Owned(clients[i].sockfd) /\ clients[i].sockfd # f
  BY <1>1 DEF Held, Loose, Owned
<1>6. ASSUME NEW i \in 1 .. Len(clients), Sound(clients[i].sockfd)'
      PROVE  /\ clients[i].sockfd \notin {f, NoFd}
             /\ Owned(clients[i].sockfd)'
  BY <1>1, <1>4, <1>5, <1>6 DEF Owned, Sound
<1>7. \A i, j \in 1 .. Len(clients) :
         i # j /\ Sound(clients[i].sockfd)' => clients[i].sockfd # clients[j].sockfd
  BY <1>1, <1>4 DEF Held
<1> QED
  BY <1>1, <1>3, <1>4, <1>6, <1>7 DEF Held

\* The number being accepted is closed, or it is not: no other sound number is.
LEMMA AcceptingHeld ==
    ASSUME HInv, NEW f \in FD \cup {NoFd},
           sock' = sock \/ sock' = Close(client.sockfd),
           UNCHANGED <<clients, refused, tainted>>,
           client'.sockfd = f,
           pc \in {"sendTimeout", "handshake", "clearFailed", "admit"},
           Sound(f) => f = client.sockfd /\ (Owned(f)' \/ pc' = "clearFailed")
    PROVE  Held'
<1> USE Types DEF HInv
<1>1. \A g \in FD : Owned(g) /\ g # client.sockfd => Owned(g)'
  BY CloseFacts DEF Owned
<1>2. \A g : Sound(g)' <=> Sound(g)
  BY DEF Sound
<1>3. refused = NoFd
  BY DEF Scope
<1>4. ASSUME NEW i \in 1 .. Len(clients), Sound(clients[i].sockfd)
      PROVE  /\ clients[i].sockfd \notin {f, refused}
             /\ Owned(clients[i].sockfd)'
  <2>1. clients[i].sockfd # client.sockfd /\ Owned(clients[i].sockfd)
    BY <1>4 DEF Held, Loose
  <2> QED
    BY <1>1, <1>3, <1>4, <2>1 DEF Owned, Sound
<1> QED
  BY <1>2, <1>4 DEF Held

LEMMA HandshakeHeld ==
    ASSUME HInv, SetSendTimeout \/ Handshake \/ HandshakeFails
    PROVE  Held'
<1> USE Types DEF HInv
<1>1. UNCHANGED <<clients, refused, tainted>> /\ client'.sockfd = client.sockfd
  BY DEF SetSendTimeout, Handshake, AfterHandshake, HandshakeFails,
     AfterFailedHandshake, Client, history
<1>2. CASE SetSendTimeout
  <2>1. /\ sock' = sock \/ sock' = Close(client.sockfd)
        /\ pc = "sendTimeout" /\ ~Sound(client.sockfd)
    BY <1>2 DEF SetSendTimeout, Scope, Sound
  <2> QED
    BY <1>1, <2>1, AcceptingHeld
<1>3. CASE Handshake
  <2>1. sock' = sock /\ pc = "handshake"
    BY <1>3 DEF Handshake, kernel
  <2>2. Sound(client.sockfd) =>
            client.sockfd \in FD /\ sock'[client.sockfd].owner = "server"
    BY <2>1 DEF Held, Owned
  <2> QED
    BY <1>1, <2>1, <2>2, AcceptingHeld DEF Owned
<1>4. CASE HandshakeFails
  <2>1. sock' = Close(client.sockfd) /\ pc = "handshake" /\ pc' = "clearFailed"
    BY <1>4 DEF HandshakeFails
  <2> QED
    BY <1>1, <2>1, AcceptingHeld
<1> QED
  BY <1>2, <1>3, <1>4

\* clientClear closes the number again.
LEMMA ClearFailedHeld ==
    ASSUME HInv, ClearFailed
    PROVE  Held'
<1>1. /\ sock' = Close(client.sockfd) /\ UNCHANGED <<clients, refused, tainted>>
      /\ client'.sockfd = NoFd /\ pc = "clearFailed"
  BY DEF ClearFailed, AfterClear, NewClient, history
<1>2. ~Sound(NoFd)
  BY DEF Sound
<1> QED
  BY <1>1, <1>2, AcceptingHeld

\* The refused Client takes its number with it.
LEMMA RefuseHeld ==
    ASSUME HInv, Refuse
    PROVE  Held'
<1> USE Types DEF HInv
<1>1. /\ UNCHANGED <<sock, clients, tainted>> /\ client'.sockfd = NoFd
      /\ refused' = client.sockfd /\ pc = "admit"
  BY DEF Refuse, NewClient, kernel
<1>2. \A f : (Owned(f)' <=> Owned(f)) /\ (Sound(f)' <=> Sound(f))
  BY <1>1 DEF Owned, Sound
<1>3. ~Sound(NoFd)
  BY DEF Sound
<1>4. \A i \in 1 .. Len(clients) : ~Loose(i)
  BY <1>1 DEF Loose
<1>5. ASSUME NEW i \in 1 .. Len(clients), Sound(clients[i].sockfd)
      PROVE  /\ clients[i].sockfd \notin {client'.sockfd, refused'}
             /\ Owned(clients[i].sockfd)
  BY <1>1, <1>3, <1>4, <1>5 DEF Held
<1> QED
  BY <1>1, <1>2, <1>3, <1>5 DEF Held

\* The Client moves to the end of the vector.
LEMMA AdmitHeld ==
    ASSUME HInv, Admit
    PROVE  Held'
<1> USE Types DEF HInv
<1>1. /\ UNCHANGED <<sock, refused, tainted>> /\ clients' = Append(clients, client)
      /\ client'.sockfd = NoFd /\ refused = NoFd
      /\ pc = "admit" /\ pc' \in {"accept", "serve"}
  BY DEF Admit, NewClient, NextListener, kernel, history, Scope
<1>2. /\ Len(clients') = Len(clients) + 1
      /\ \A i \in 1 .. Len(clients) : clients'[i] = clients[i]
      /\ clients'[Len(clients) + 1] = client
  BY <1>1, AppendProperties
<1>3. \A f : (Owned(f)' <=> Owned(f)) /\ (Sound(f)' <=> Sound(f))
  BY <1>1 DEF Owned, Sound
<1>4. \A i \in 1 .. Len(clients') : i \in 1 .. Len(clients) \/ i = Len(clients) + 1
  BY <1>2
<1>5. ASSUME NEW i \in 1 .. Len(clients'), NEW j \in 1 .. Len(clients'),
             i # j, Sound(clients'[i].sockfd)
      PROVE  clients'[i].sockfd # clients'[j].sockfd
  <2>1. CASE i \in 1 .. Len(clients) /\ j \in 1 .. Len(clients)
    BY <1>2, <1>5, <2>1 DEF Held
  <2>2. CASE i \in 1 .. Len(clients) /\ j = Len(clients) + 1
    BY <1>2, <1>5, <2>2 DEF Held
  <2>3. CASE i = Len(clients) + 1 /\ j \in 1 .. Len(clients)
    BY <1>2, <1>5, <2>3 DEF Held
  <2> QED
    BY <1>4, <1>5, <2>1, <2>2, <2>3
<1>6. ASSUME NEW i \in 1 .. Len(clients'), Sound(clients'[i].sockfd)
      PROVE  Owned(clients'[i].sockfd) /\ clients'[i].sockfd # NoFd
  <2>1. CASE i \in 1 .. Len(clients)
    BY <1>1, <1>2, <1>6, <2>1 DEF Held, Loose, Sound
  <2>2. CASE i = Len(clients) + 1
    BY <1>1, <1>2, <1>6, <2>2 DEF Held, Sound
  <2> QED
    BY <1>4, <2>1, <2>2
<1>7. ~Sound(NoFd)
  BY DEF Sound
<1> QED
  BY <1>1, <1>3, <1>5, <1>6, <1>7 DEF Held

----------------------------------------------------------------------------
(* The connection at idx is served and cleared *)

\* Its number is closed, and the record gives it up or is loose.
LEMMA EntryHeld ==
    ASSUME HInv, NEW d \in Client,
           pc \in {"serve", "reply", "clear"}, idx <= Len(fds),
           pc' \in {"serve", "clear"},
           sock' = Close(Current.sockfd), UNCHANGED <<client, refused, tainted>>,
           clients' = [clients EXCEPT ![idx - L] = d],
           \/ d.sockfd = NoFd
           \/ /\ d.sockfd = Current.sockfd
              /\ pc' = "clear" /\ rc' = "receiveFailed" /\ idx' = idx
    PROVE  Held'
<1> USE Types DEF HInv
<1> DEFINE k == idx - L
           g == Current.sockfd
<1>1. k \in 1 .. Len(clients) /\ g = clients[k].sockfd /\ g \in FD \cup {NoFd}
  BY CurrentFacts DEF Current
<1>2. /\ Len(clients') = Len(clients)
      /\ clients'[k] = d
      /\ \A i \in 1 .. Len(clients) : i # k => clients'[i] = clients[i]
  BY <1>1
<1>3. \A f \in FD : Owned(f)' <=> Owned(f) /\ f # g
  BY <1>1, CloseFacts
<1>4. client.sockfd = NoFd /\ refused = NoFd /\ ~Sound(NoFd)
  BY DEF Scope, Sound
<1>5. \A i \in 1 .. Len(clients) :
         i # k /\ Sound(clients[i].sockfd) =>
             Owned(clients[i].sockfd) /\ clients[i].sockfd # g
  BY <1>1 DEF Held, Loose
<1>6. \A f : Sound(f)' <=> Sound(f)
  BY DEF Sound
<1>7. /\ d.sockfd = NoFd \/ d.sockfd = g
      /\ \/ d.sockfd = NoFd
         \/ pc' = "clear" /\ rc' = "receiveFailed" /\ k = idx' - L
  BY DEF g, k
<1> HIDE DEF g, k
<1>8. ASSUME NEW i \in 1 .. Len(clients'), NEW j \in 1 .. Len(clients'),
             i # j, Sound(clients'[i].sockfd)
      PROVE  clients'[i].sockfd # clients'[j].sockfd
  <2>1. CASE i # k /\ j # k
    BY <1>2, <1>8, <2>1 DEF Held
  <2>2. CASE i = k
    <3>1. d.sockfd = g /\ Sound(g)
      BY <1>1, <1>2, <1>4, <1>7, <1>8, <2>2
    <3> QED
      BY <1>1, <1>2, <1>5, <1>8, <2>2, <3>1
  <2>3. CASE j = k /\ i # k
    <3>1. Owned(clients[i].sockfd) /\ clients[i].sockfd # g
      BY <1>2, <1>5, <1>8, <2>3
    <3>2. clients[i].sockfd # NoFd
      BY <3>1 DEF Owned
    <3> QED
      BY <1>1, <1>2, <1>7, <2>3, <3>1, <3>2
  <2> QED
    BY <2>1, <2>2, <2>3
<1>9. ASSUME NEW i \in 1 .. Len(clients'), Sound(clients'[i].sockfd)
      PROVE  /\ clients'[i].sockfd # NoFd
             /\ \/ /\ clients'[i].sockfd \in FD
                   /\ sock'[clients'[i].sockfd].owner = "server"
                \/ Loose(i)'
  <2>1. CASE i # k
    <3>1. /\ clients[i].sockfd \in FD /\ Owned(clients[i].sockfd)
          /\ clients[i].sockfd # g
      BY <1>2, <1>5, <1>9, <2>1 DEF Owned
    <3>2. sock'[clients[i].sockfd].owner = "server" /\ clients[i].sockfd # NoFd
      BY <1>3, <3>1 DEF Owned
    <3> QED
      BY <1>2, <2>1, <3>1, <3>2
  <2>2. CASE i = k
    BY <1>1, <1>2, <1>4, <1>7, <1>9, <2>2 DEF Loose
  <2> QED
    BY <2>1, <2>2
<1> QED
  BY <1>4, <1>6, <1>8, <1>9 DEF Held, Owned

LEMMA FailedCallHeld ==
    ASSUME HInv, ReceiveFails \/ ReceiveNothing \/ ReplyFails
    PROVE  Held'
<1> USE DEF HInv
<1>1. pc \in {"serve", "reply"} /\ idx <= Len(fds)
  BY DEF IInv, ReceiveFails, ReceiveNothing, ReplyFails, Readable, IndexInv
<1>2. Current \in Client
  BY <1>1, CurrentFacts
<1>3. CASE ReceiveFails
  <2>1. /\ AfterFailedReceive(Current) \in Client
        /\ AfterFailedReceive(Current).sockfd = Current.sockfd
    BY <1>2 DEF AfterFailedReceive, Client
  <2>2. /\ clients' = [clients EXCEPT ![idx - L] = AfterFailedReceive(Current)]
        /\ pc' = "clear" /\ rc' = "receiveFailed" /\ idx' = idx
        /\ sock' = Close(Current.sockfd) /\ UNCHANGED <<client, refused, tainted>>
    BY <1>3 DEF ReceiveFails, Current, history
  <2> QED
    BY <1>1, <2>1, <2>2, EntryHeld
<1>4. CASE ReceiveNothing \/ ReplyFails
  <2>1. /\ AfterClose(Current) \in Client
        /\ AfterClose(Current).sockfd = NoFd
    BY <1>2 DEF AfterClose, Client
  <2>2. /\ clients' = [clients EXCEPT ![idx - L] = AfterClose(Current)]
        /\ pc' = "clear"
        /\ sock' = Close(Current.sockfd) /\ UNCHANGED <<client, refused, tainted>>
    BY <1>4 DEF ReceiveNothing, ReplyFails, Current, history
  <2> QED
    BY <1>1, <2>1, <2>2, EntryHeld
<1> QED
  BY <1>3, <1>4

LEMMA ClearHeld ==
    ASSUME HInv, Clear
    PROVE  Held'
<1> USE DEF HInv
<1>1. /\ pc = "clear" /\ idx <= Len(fds) /\ pc' = "serve"
      /\ sock' = Close(Current.sockfd) /\ UNCHANGED <<client, refused, tainted>>
      /\ clients' = [clients EXCEPT ![idx - L] = NewClient]
  BY DEF Clear, IInv, IndexInv, AfterClear, NextEntry, history
<1>2. NewClient \in Client /\ NewClient.sockfd = NoFd
  BY DEF NewClient, Client
<1> QED
  BY <1>1, <1>2, EntryHeld

\* A request is read: the number stays with its record.
LEMMA ReceiveHeld ==
    ASSUME HInv, NEW req \in Inbox, NEW rest \in {"none", "part"}, Receive(req, rest)
    PROVE  Held'
<1> USE DEF HInv
<1>1. /\ UNCHANGED <<clients, client, refused, tainted>>
      /\ pc = "serve" /\ pc' \in {"reply", "clear"}
      /\ sock' = [sock EXCEPT ![Current.sockfd].inbox = rest]
  BY DEF Receive, Readable, history
<1>2. \A f \in FD : Owned(f)' <=> Owned(f)
  <2>1. sock \in [FD -> [owner : {"free", "server", "foreign"},
                         inbox : Inbox, link : {"up", "fin", "rst"}]]
    BY DEF IInv, TypeOK, SocketsTypeOK
  <2> QED
    BY <1>1, <2>1 DEF Owned
<1> QED
  BY <1>1, <1>2, SameHeld

----------------------------------------------------------------------------
(* Records leave the vector *)

\* A record leaves, and its number, if it had one, is closed.
LEMMA RemoveHeld ==
    ASSUME HInv, NEW k \in 1 .. Len(clients),
           pc \in {"prune", "draining"}, UNCHANGED <<pc, client, refused, tainted>>,
           clients' = RemoveAt(clients, k),
           sock' = Close(clients[k].sockfd)
    PROVE  Held'
<1> USE Types DEF HInv
<1>1. /\ Len(clients') = Len(clients) - 1
      /\ \A i \in 1 .. Len(clients) - 1 :
            clients'[i] = IF i < k THEN clients[i] ELSE clients[i + 1]
  BY RemoveAtFacts
<1>2. \A f \in FD : Owned(f)' <=> Owned(f) /\ f # clients[k].sockfd
  BY CloseFacts
<1> DEFINE From(i) == IF i < k THEN i ELSE i + 1
<1>3. \A i \in 1 .. Len(clients') :
         From(i) \in 1 .. Len(clients) /\ From(i) # k /\ clients'[i] = clients[From(i)]
  BY <1>1
<1>4. \A i, j \in 1 .. Len(clients') : i # j => From(i) # From(j)
  BY <1>1
<1> HIDE DEF From
<1>5. \A f : Sound(f)' <=> Sound(f)
  BY DEF Sound
<1>6. \A i, j \in 1 .. Len(clients') :
         i # j /\ Sound(clients'[i].sockfd) =>
             clients'[i].sockfd # clients'[j].sockfd
  BY <1>3, <1>4 DEF Held
<1>7. ASSUME NEW i \in 1 .. Len(clients'), Sound(clients'[i].sockfd)
      PROVE  /\ clients'[i].sockfd \notin {client.sockfd, refused}
             /\ clients'[i].sockfd \in FD
             /\ sock'[clients'[i].sockfd].owner = "server"
  <2>1. clients'[i] = clients[From(i)] /\ From(i) \in 1 .. Len(clients) /\ From(i) # k
    BY <1>3
  <2>2. /\ clients[From(i)].sockfd \notin {client.sockfd, refused}
        /\ Owned(clients[From(i)].sockfd)
        /\ clients[From(i)].sockfd # clients[k].sockfd
    BY <1>7, <2>1 DEF Held, Loose
  <2>3. /\ clients[From(i)].sockfd \in FD
        /\ sock'[clients[From(i)].sockfd].owner = "server"
    BY <1>2, <2>2 DEF Owned
  <2> QED
    BY <2>1, <2>2, <2>3
<1>8. ~Sound(client.sockfd)
  BY DEF Scope, Sound
<1> QED
  BY <1>5, <1>6, <1>7, <1>8 DEF Held, Owned

\* The record Prune removes has no number any more: the two vectors agree.
LEMMA PruneHeld ==
    ASSUME HInv, Prune
    PROVE  Held'
<1> USE Types, ListenerFacts DEF HInv
<1>1. /\ pc = "prune" /\ idx \in Nat /\ idx <= Len(fds)
      /\ Len(fds) = L + Len(clients)
      /\ UNCHANGED <<pc, rc, client, sock, refused, tainted>>
  BY DEF Prune, IInv, TypeOK, VectorsAligned, Offset, kernel, history
<1>2. CASE fds[idx].fd # NoFd
  <2>1. clients' = clients
    BY <1>2 DEF Prune
  <2> QED
    BY <1>1, <2>1, SameHeld DEF Owned
<1>3. CASE fds[idx].fd = NoFd
  <2>1. idx \in 1 .. Len(fds)
    BY <1>1, <1>3 DEF IInv, IndexInv
  <2>2. idx - L \in 1 .. Len(clients) /\ L + (idx - L) = idx
    BY <1>1, <1>3, <2>1 DEF IInv, VectorsAligned, Offset
  <2>3. clients[idx - L].sockfd = NoFd
    BY <1>1, <1>3, <2>2 DEF IInv, VectorsAligned, Offset
  <2>4. clients' = RemoveAt(clients, idx - L) /\ sock' = Close(clients[idx - L].sockfd)
    BY <1>1, <1>3, <2>3 DEF Prune, Close
  <2> QED
    BY <1>1, <2>2, <2>4, RemoveHeld
<1> QED
  BY <1>2, <1>3

LEMMA DrainClientHeld ==
    ASSUME HInv, DrainClient
    PROVE  Held'
<1> USE Types DEF HInv
<1>1. /\ pc = "draining" /\ fds # <<>> /\ fds \in Seq(PollFd)
      /\ Len(fds) = Len(clients)
  BY DEF DrainClient, IInv, TypeOK, VectorsAligned, Offset
<1>2. Len(fds) \in 1 .. Len(clients)
  BY <1>1, EmptySeq
<1>3. /\ clients' = RemoveAt(clients, Len(fds))
      /\ UNCHANGED <<pc, client, refused, tainted>>
      /\ sock' = Close(clients[Len(fds)].sockfd)
  BY DEF DrainClient, history
<1> QED
  BY <1>1, <1>2, <1>3, RemoveHeld

\* The end of the process leaves no descriptor and no record.
LEMMA DiesHeld == ASSUME Dies PROVE Held'
<1>1. /\ clients' = <<>> /\ client'.sockfd = NoFd /\ pc' = "exit"
      /\ Len(clients') = 0
  BY DEF Dies, NewClient
<1>2. \A f \in FD : sock'[f].owner # "server"
  BY DEF Dies, ProcessDies, FreeSock
<1> QED
  BY <1>1, <1>2 DEF Held, Owned, Sound

LEMMA InitHInv == Init => HInv
<1> SUFFICES ASSUME Init PROVE HInv
  OBVIOUS
<1>1. clients = <<>> /\ client.sockfd = NoFd /\ pc = "start" /\ Len(clients) = 0
  BY DEF Init, NewClient
<1>2. \A f \in FD : ~Owned(f)
  BY DEF Init, SocketsInit, FreeSock, Owned
<1>3. Held
  BY <1>1, <1>2 DEF Held, Sound
<1> QED
  BY <1>3, InitLeakInv DEF HInv, LeakInv

LEMMA NextHInv == HInv /\ [Next]_vars => HInv'
<1> SUFFICES ASSUME HInv, [Next]_vars PROVE HInv'
  OBVIOUS
<1>1. IInv' /\ NothingElseLeaks' /\ Scope'
  BY NextLeakInv DEF HInv, LeakInv
<1>2. CASE HandlerStep
  <2>1. CASE \/ StartServer \/ PollStop \/ PollTimeout \/ PollReady
             \/ SkipAccept \/ AcceptFails \/ Reply
             \/ Kill \/ PassOver \/ ServeDone
             \/ DropListeners \/ DrainDone
    BY <1>1, <2>1, QuietHeld DEF HInv
  <2>2. CASE StartServerFails \/ PollFails \/ ClearAborts
    BY <1>1, <2>2, DiesHeld DEF HInv, StartServerFails, PollFails, ClearAborts
  <2>3. CASE \E f \in FD : Accept(f)
    BY <1>1, <2>3, AcceptHeld DEF HInv
  <2>4. CASE SetSendTimeout \/ Handshake \/ HandshakeFails
    BY <1>1, <2>4, HandshakeHeld DEF HInv
  <2>5. CASE PruneDone
    BY <1>1, <2>5, PruneDoneHeld DEF HInv
  <2>6. CASE ClearFailed
    BY <1>1, <2>6, ClearFailedHeld DEF HInv
  <2>7. CASE Admit \/ Refuse
    BY <1>1, <2>7, AdmitHeld, RefuseHeld DEF HInv
  <2>8. CASE ReceiveFails \/ ReceiveNothing \/ ReplyFails
    BY <1>1, <2>8, FailedCallHeld DEF HInv
  <2>9. CASE \E req \in Inbox, rest \in {"none", "part"} : Receive(req, rest)
    BY <1>1, <2>9, ReceiveHeld DEF HInv
  <2>10. CASE Clear
    BY <1>1, <2>10, ClearHeld DEF HInv
  <2>11. CASE Prune
    BY <1>1, <2>11, PruneHeld DEF HInv
  <2>12. CASE DrainClient
    BY <1>1, <2>12, DrainClientHeld DEF HInv
  <2> QED
    BY <1>2, <2>1, <2>2, <2>3, <2>4, <2>5, <2>6, <2>7, <2>8, <2>9, <2>10, <2>11,
       <2>12 DEF HandlerStep
<1>3. CASE (Environment /\ UNCHANGED <<handler, exitFlag>>) \/ RequestExit
              \/ UNCHANGED vars
  BY <1>1, <1>3, EnvironmentHeld DEF HInv
<1> QED
  BY <1>2, <1>3 DEF Next, Finished

----------------------------------------------------------------------------

\* HInv holds in every reachable state, whatever fails and whoever interferes.
THEOREM OwnershipInvariance == Spec => []HInv
<1>1. Init => HInv
  BY InitHInv
<1>2. HInv /\ [Next]_vars => HInv'
  BY NextHInv
<1> QED
  BY <1>1, <1>2, PTL DEF Spec

\* No socket is lost but that of the refused Client, which nobody closes any more
\* (MetricServerHandler.cpp 422, 453), and none is shared: a Client's number is
\* its own open socket until a failed handshake or receive (MetricClient.cpp
\* 68-81, 180-196) has closed it.  The numbers a failed setsockopt has closed
\* (MetricClient.cpp 35, 51) are excepted, as long as a Client has them, and no
\* others.
THEOREM Ownership == Spec => []HeldOnce
<1>1. HInv => HeldOnce
  BY DEF HInv, Held, Sound, Loose, HeldOnce, Dangling, Current
<1> QED
  BY <1>1, OwnershipInvariance, PTL

\* The handler closes a descriptor of another thread only in the second close
\* after a failed handshake or receive, or through a tainted number.
LEMMA CloseStep ==
    ASSUME HInv, NEW f \in FD, HandlerStep,
           sock[f].owner = "foreign", sock'[f].owner = "free", pc' # "exit"
    PROVE  \/ pc = "clearFailed"
           \/ pc = "clear" /\ rc = "receiveFailed" /\ Current.sockfd = f
           \/ f \in tainted
<1> USE Types DEF HInv
<1>1. sock \in [FD -> [owner : {"free", "server", "foreign"},
                       inbox : Inbox, link : {"up", "fin", "rst"}]]
  BY DEF IInv, TypeOK, SocketsTypeOK
<1>2. CASE sock' = sock
  BY <1>2
<1>3. ASSUME NEW i \in 1 .. Len(clients), sock' = Close(clients[i].sockfd)
      PROVE  (Loose(i) /\ clients[i].sockfd = f) \/ f \in tainted
  <2>1. clients[i].sockfd = f
    BY <1>1, <1>3, CloseFacts
  <2> QED
    BY <2>1 DEF Held, Owned, Sound
<1>4. CASE ReceiveFails \/ ReceiveNothing \/ ReplyFails \/ Clear
  <2>1. pc \in {"serve", "reply", "clear"} /\ idx <= Len(fds)
    BY <1>4 DEF IInv, ReceiveFails, ReceiveNothing, ReplyFails, Clear, Readable,
       IndexInv
  <2>2. /\ idx - L \in 1 .. Len(clients) /\ Current = clients[idx - L]
        /\ sock' = Close(Current.sockfd)
    BY <1>4, <2>1, CurrentFacts
       DEF ReceiveFails, ReceiveNothing, ReplyFails, Clear, Current
  <2> QED
    BY <1>3, <2>2 DEF Loose
<1>5. CASE (SetSendTimeout /\ sock' # sock) \/ HandshakeFails
  <2>1. sock' = Close(client.sockfd) /\ pc \in {"sendTimeout", "handshake"}
    BY <1>5 DEF SetSendTimeout, HandshakeFails
  <2>2. client.sockfd = f
    BY <1>1, <2>1, CloseFacts
  <2> QED
    BY <2>1, <2>2 DEF Held, Owned, Sound
<1>6. CASE ClearFailed
  BY <1>6 DEF ClearFailed
<1>7. CASE \E g \in FD : Accept(g)
  BY <1>1, <1>7 DEF Accept, CanAccept, AfterTimeouts, Opened, FreeSock
<1>8. CASE \E req \in Inbox, rest \in {"none", "part"} : Receive(req, rest)
  BY <1>1, <1>8 DEF Receive
<1>9. CASE DrainClient
  <2>1. /\ pc = "draining" /\ fds # <<>> /\ fds \in Seq(PollFd)
        /\ Len(fds) = Len(clients)
    BY <1>9 DEF DrainClient, IInv, TypeOK, VectorsAligned, Offset
  <2>2. Len(fds) \in 1 .. Len(clients) /\ sock' = Close(clients[Len(fds)].sockfd)
    BY <1>9, <2>1, EmptySeq DEF DrainClient
  <2> QED
    BY <1>3, <2>1, <2>2 DEF Loose
<1>10. CASE StartServerFails \/ PollFails \/ ClearAborts
  BY <1>10 DEF StartServerFails, PollFails, ClearAborts, Dies
<1>11. CASE \/ StartServer \/ PollStop \/ PollTimeout \/ PollReady
            \/ SkipAccept \/ AcceptFails \/ Handshake \/ Admit \/ Refuse \/ Reply
            \/ Kill \/ PassOver \/ ServeDone \/ Prune \/ PruneDone
            \/ DropListeners \/ DrainDone
  BY <1>2, <1>11 DEF StartServer, PollStop, PollTimeout, PollReady, SkipAccept,
     AcceptFails, Handshake, Admit, Refuse, Reply, Kill, PassOver, ServeDone,
     Prune, PruneDone, DropListeners, DrainDone, kernel
<1> QED
  BY <1>2, <1>4, <1>5, <1>6, <1>7, <1>8, <1>9, <1>10, <1>11 DEF HandlerStep

\* The action property of the https run, for every value of the constants and
\* every choice of failing calls: the handler closes a descriptor of another
\* thread by the second close after a failed handshake or receive
\* (MetricClient.cpp 68-81, 180-196), or by a number a failed setsockopt has
\* closed before (35, 51), and in no other way.
THEOREM StrayCloses == Spec => StrayCloseOnlyAfterFailure
<1>1. HInv /\ [Next]_vars => [\A f \in FD :
          sock[f].owner = "foreign" /\ sock'[f].owner = "free" /\ handler' # handler
          /\ pc' # "exit"
          => \/ pc = "clearFailed"
             \/ pc = "clear" /\ rc = "receiveFailed" /\ Current.sockfd = f
             \/ f \in tainted]_vars
  BY CloseStep DEF Next, RequestExit, Finished
<1> QED
  BY <1>1, OwnershipInvariance, PTL DEF Spec, StrayCloseOnlyAfterFailure
=============================================================================
