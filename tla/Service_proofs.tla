---------------------------- MODULE Service_proofs ----------------------------
(***************************************************************************)
(* The poll loop implements MetricService, for every set of descriptors,   *)
(* every limit, one listener or two and every choice of failing system     *)
(* calls: initial states map to initial states, and every step maps to a   *)
(* step of the service or leaves it as it was.                             *)
(***************************************************************************)
EXTENDS Ownership_proofs, FiniteSetTheorems

\* Who has a number: every client while the loop polls and accepts, and the Client
\* being accepted.  The one that waits for its answer has a connection.
Numbered ==
    /\ pc \in {"poll", "accept", "sendTimeout", "handshake", "clearFailed", "admit"} =>
          \A i \in 1 .. Len(clients) : clients[i].sockfd # NoFd
    /\ pc \in {"sendTimeout", "handshake", "clearFailed", "admit"} =>
          client.sockfd # NoFd
    /\ pc = "reply" => Owned(Current.sockfd)

\* The listeners that are open while the others are still to be opened.
Opening == pc = "start" => listening = 1 .. idx - 1

SInv == HInv /\ Numbered /\ Opening

----------------------------------------------------------------------------
(* Counting connections *)

\* The clients' numbers are at most as many as the clients, and as many when none
\* is tainted and every client has one.
LEMMA CountClients ==
    ASSUME IInv, Held
    PROVE  LET S == {clients[i].sockfd : i \in 1 .. Len(clients)}
           IN  /\ IsFiniteSet(S) /\ Cardinality(S) \in Nat
               /\ Cardinality(S) <= Len(clients)
               /\ tainted = {} /\ (\A i \in 1 .. Len(clients) : clients[i].sockfd # NoFd)
                     => Cardinality(S) = Len(clients)
<1> DEFINE S == {clients[i].sockfd : i \in 1 .. Len(clients)}
           g == [i \in 1 .. Len(clients) |-> clients[i].sockfd]
<1>1. Len(clients) \in Nat
  BY Types
<1>2. IsFiniteSet(1 .. Len(clients)) /\ Cardinality(1 .. Len(clients)) = Len(clients)
  BY <1>1, FS_Interval
<1>3. g \in Surjection(1 .. Len(clients), S)
  <2>1. g \in [1 .. Len(clients) -> S]
    OBVIOUS
  <2>2. \A s \in S : \E i \in 1 .. Len(clients) : g[i] = s
    OBVIOUS
  <2> QED
    BY <2>1, <2>2 DEF Surjection
<1>4. /\ IsFiniteSet(S) /\ Cardinality(S) <= Len(clients)
      /\ Cardinality(S) = Len(clients) <=> g \in Injection(1 .. Len(clients), S)
  BY <1>2, <1>3, FS_Surjection
<1>5. ASSUME tainted = {}, \A i \in 1 .. Len(clients) : clients[i].sockfd # NoFd
      PROVE  g \in Injection(1 .. Len(clients), S)
  <2>1. g \in [1 .. Len(clients) -> S]
    OBVIOUS
  <2>2. \A i, j \in 1 .. Len(clients) : g[i] = g[j] => i = j
    BY <1>5 DEF Held, Sound
  <2> QED
    BY <2>1, <2>2 DEF Injection, IsInjective
<1> QED
  BY <1>4, <1>5, FS_CardinalityType

\* An accept finds at most as many connections as there are clients.
LEMMA ConnsAtAccept ==
    ASSUME SInv, pc = "accept"
    PROVE  ~(Cardinality(Conns) > MaxConnections + 1)
<1> DEFINE S == {clients[i].sockfd : i \in 1 .. Len(clients)}
<1>1. /\ IsFiniteSet(S) /\ Cardinality(S) \in Nat
      /\ Cardinality(S) <= Len(clients)
  BY CountClients DEF SInv, HInv
<1>2. client.sockfd = NoFd /\ refused = NoFd
  BY DEF SInv, HInv, Scope
<1>3. Conns \subseteq S
  BY <1>2, ListenerFacts DEF SInv, HInv, NothingElseLeaks, Conns
<1>4. IsFiniteSet(Conns) /\ Cardinality(Conns) <= Cardinality(S)
  BY <1>1, <1>3, FS_Subset
<1>5. Len(clients) <= MaxConnections + 1 /\ Len(clients) \in Nat
  BY Types DEF SInv, HInv, IInv, ConnectionLimit
<1>6. Cardinality(Conns) \in Nat
  BY <1>4, FS_CardinalityType
<1> QED
  BY <1>1, <1>4, <1>5, <1>6, MaxConnectionsAssumption

\* The connection that is refused is one more than there are clients, unless one
\* of them is lost.
LEMMA ConnsAtRefusal ==
    ASSUME SInv, pc = "admit", AboveLimit, tainted = {}
    PROVE  Cardinality(Conns) > MaxConnections + 1 /\ client.sockfd \in Conns
<1> DEFINE S == {clients[i].sockfd : i \in 1 .. Len(clients)}
<1> USE Types DEF SInv, HInv
<1>1. IsFiniteSet(S) /\ Cardinality(S) = Len(clients)
  BY CountClients DEF Numbered
<1>2. Owned(client.sockfd)
  BY DEF Held, Numbered, Sound
<1>3. \A i \in 1 .. Len(clients) :
         Owned(clients[i].sockfd) /\ clients[i].sockfd # client.sockfd
  BY DEF Held, Numbered, Loose, Sound
<1>4. client.sockfd \notin S
  BY <1>3
<1>5. Conns = S \cup {client.sockfd}
  <2>1. Conns \subseteq S \cup {client.sockfd}
    <3>1. refused = NoFd
      BY DEF Scope
    <3> QED
      BY <3>1 DEF NothingElseLeaks, Conns
  <2>2. S \cup {client.sockfd} \subseteq Conns
    BY <1>2, <1>3 DEF Conns, Owned
  <2> QED
    BY <2>1, <2>2
<1>6. Cardinality(Conns) = Len(clients) + 1
  BY <1>1, <1>4, <1>5, FS_AddElement
<1>7. Len(clients) \in Nat /\ Len(clients) > MaxConnections
  BY DEF AboveLimit
<1> QED
  BY <1>2, <1>6, <1>7, MaxConnectionsAssumption DEF Conns, Owned

----------------------------------------------------------------------------
(* The invariant *)

\* Peers, other threads and the caller of stop() open and close no connection
\* of the server, nor a listener.
LEMMA EnvironmentConns ==
    ASSUME IInv,
           (Environment /\ UNCHANGED <<handler, exitFlag>>) \/ RequestExit
               \/ UNCHANGED vars
    PROVE  /\ Conns' = Conns /\ listening' = listening
           /\ UNCHANGED handler
<1>1. sock \in [FD -> [owner : {"free", "server", "foreign"},
                       inbox : Inbox, link : {"up", "fin", "rst"}]]
  BY DEF IInv, TypeOK, SocketsTypeOK
<1>2. CASE RequestExit \/ UNCHANGED vars
  BY <1>2 DEF RequestExit, vars, kernel, Conns, Owned
<1>3. CASE Environment /\ UNCHANGED <<handler, exitFlag>>
  <2>1. (\A f \in FD : Owned(f)' <=> Owned(f)) /\ listening' = listening
    <3>1. CASE \E l \in 1 .. L : Connect(l) \/ Abort(l)
      BY <3>1 DEF Connect, Abort, Owned
    <3>2. ASSUME NEW f \in FD, NEW r \in Requests, PeerSend(f, r)
          PROVE  (\A g \in FD : Owned(g)' <=> Owned(g)) /\ listening' = listening
      BY <1>1, <3>2 DEF PeerSend, Owned
    <3>3. ASSUME NEW f \in FD, PeerFin(f) \/ PeerReset(f)
          PROVE  (\A g \in FD : Owned(g)' <=> Owned(g)) /\ listening' = listening
      BY <1>1, <3>3 DEF PeerFin, PeerReset, Owned
    <3>4. ASSUME NEW f \in FD, ForeignOpen(f) \/ ForeignClose(f)
          PROVE  (\A g \in FD : Owned(g)' <=> Owned(g)) /\ listening' = listening
      BY <1>1, <3>4, ListenerFacts DEF ForeignOpen, ForeignClose, Close, FreeSock, Owned
    <3> QED
      BY <1>3, <3>1, <3>2, <3>3, <3>4 DEF Environment
  <2> QED
    BY <1>3, <2>1 DEF Conns
<1> QED
  BY <1>2, <1>3

LEMMA InitSInv == Init => SInv
<1> SUFFICES ASSUME Init PROVE SInv
  OBVIOUS
<1>1. HInv
  BY InitHInv
<1>2. pc = "start" /\ idx = 1 /\ listening = {}
  BY DEF Init, SocketsInit
<1> QED
  BY <1>1, <1>2 DEF SInv, Numbered, Opening

\* The steps of the loop that change neither the vector nor the Client: the
\* places at which every client has a number are entered with a fresh poll
\* (VectorsAligned) or from each other.
LEMMA NumberedStep ==
    ASSUME SInv, HInv', [Next]_vars
    PROVE  Numbered' /\ Opening'
<1> USE Types DEF SInv, HInv
<1>1. CASE (Environment /\ UNCHANGED <<handler, exitFlag>>) \/ RequestExit
              \/ UNCHANGED vars
  <2>1. /\ UNCHANGED <<pc, idx, clients, client>> /\ Conns' = Conns
        /\ listening' = listening /\ Current' = Current
    BY <1>1, EnvironmentConns DEF handler, Current
  <2>2. \A f \in FD : Owned(f)' <=> Owned(f)
    BY <2>1 DEF Conns
  <2>3. pc = "reply" => Owned(Current.sockfd)'
    BY <2>1, <2>2 DEF Numbered, Owned
  <2> QED
    BY <2>1, <2>3 DEF Numbered, Opening
<1>2. CASE \/ PollStop \/ PollTimeout \/ PollReady \/ SkipAccept \/ AcceptFails
           \/ SetSendTimeout \/ Handshake \/ HandshakeFails \/ Refuse
           \/ ReceiveFails \/ ReceiveNothing \/ Reply \/ ReplyFails
           \/ Kill \/ PassOver \/ Clear \/ ServeDone \/ Prune
           \/ DropListeners \/ DrainClient \/ DrainDone
  <2>1. pc # "start" /\ pc' \notin {"start", "reply"}
    BY <1>2 DEF PollStop, PollTimeout, PollReady, SkipAccept, AcceptFails,
       SetSendTimeout, Accepted, Handshake, HandshakeFails, Refuse, ReceiveFails, ReceiveNothing, Reply, ReplyFails, Kill,
       PassOver, Clear, ServeDone, Prune, DropListeners, DrainClient, DrainDone,
       Readable, NextListener, NextEntry
  <2>2. CASE PollStop \/ PollTimeout \/ PollReady \/ SkipAccept \/ AcceptFails \/ Refuse
    BY <2>1, <2>2 DEF PollStop, PollTimeout, PollReady, SkipAccept, AcceptFails, Refuse,
       NextListener, Numbered, Opening
  <2>3. CASE SetSendTimeout \/ Handshake \/ HandshakeFails
    <3>1. /\ client'.sockfd = client.sockfd /\ clients' = clients
          /\ pc \in {"sendTimeout", "handshake"}
      BY <2>3 DEF SetSendTimeout, Handshake, HandshakeFails, AfterHandshake,
         AfterFailedHandshake, Client
    <3> QED
      BY <2>1, <3>1 DEF Numbered, Opening
  <2>4. CASE \/ ReceiveFails \/ ReceiveNothing \/ Reply \/ ReplyFails \/ Kill \/ PassOver
             \/ Clear \/ ServeDone \/ Prune \/ DropListeners \/ DrainClient \/ DrainDone
    <3>1. pc' \in {"serve", "clear", "prune", "drain", "draining", "done"}
      BY <2>4 DEF ReceiveFails, ReceiveNothing, Reply, ReplyFails, Kill, PassOver, Clear,
         ServeDone, Prune, DropListeners, DrainClient, DrainDone, Readable, NextEntry
    <3> QED
      BY <3>1 DEF Numbered, Opening
  <2> QED
    BY <1>2, <2>2, <2>3, <2>4
<1>3. CASE StartServer
  <2>1. pc' \in {"start", "poll"} /\ (pc' = "poll" => \A i \in 1 .. Len(clients') :
           clients'[i].sockfd # NoFd)
    BY <1>3 DEF StartServer, IInv, VectorsAligned
  <2>2. Opening'
    <3>1. idx \in Nat /\ idx \in 1 .. L /\ listening = 1 .. idx - 1
          /\ listening' = listening \cup {idx} /\ (pc' = "start" => idx' = idx + 1)
      BY <1>3, ListenerFacts DEF StartServer, Opening, IInv, IndexInv
    <3>2. pc' = "start" => listening' = 1 .. idx' - 1
      BY <3>1
    <3> QED
      BY <3>2 DEF Opening
  <2> QED
    BY <2>1, <2>2 DEF Numbered
<1>4. CASE PruneDone
  <2>1. pc' = "poll" /\ \A i \in 1 .. Len(clients') : clients'[i].sockfd # NoFd
    BY <1>4 DEF PruneDone, IInv, VectorsAligned
  <2> QED
    BY <2>1 DEF Numbered, Opening
<1>5. ASSUME NEW f \in FD, Accept(f) PROVE Numbered' /\ Opening'
  <2>1. /\ client'.sockfd = f /\ clients' = clients
        /\ pc = "accept" /\ pc' \in {"sendTimeout", "handshake", "admit"}
    BY <1>5 DEF Accept, Accepted, AfterAccept, NewClient
  <2> QED
    BY <2>1 DEF Numbered, Opening
<1>6. CASE ClearFailed
  <2>1. pc = "clearFailed" /\ pc' \in {"accept", "serve"} /\ clients' = clients
    BY <1>6 DEF ClearFailed, NextListener
  <2> QED
    BY <2>1 DEF Numbered, Opening
<1>7. CASE Admit
  <2>1. pc = "admit" /\ pc' \in {"accept", "serve"} /\ clients' = Append(clients, client)
    BY <1>7 DEF Admit, NextListener
  <2>2. \A i \in 1 .. Len(clients') : clients'[i].sockfd # NoFd
    <3>1. /\ Len(clients') = Len(clients) + 1
          /\ \A i \in 1 .. Len(clients) : clients'[i] = clients[i]
          /\ clients'[Len(clients) + 1] = client
      BY <2>1, AppendProperties
    <3>2. \A i \in 1 .. Len(clients') : i \in 1 .. Len(clients) \/ i = Len(clients) + 1
      BY <3>1
    <3> QED
      BY <2>1, <3>1, <3>2 DEF Numbered
  <2> QED
    BY <2>1, <2>2 DEF Numbered, Opening
<1>8. ASSUME NEW req \in Inbox, NEW rest \in {"none", "part"}, Receive(req, rest)
      PROVE  Numbered' /\ Opening'
  <2>1. /\ Owned(Current.sockfd) /\ Current' = Current
        /\ pc' \in {"clear", "reply"}
        /\ sock' = [sock EXCEPT ![Current.sockfd].inbox = rest]
    BY <1>8 DEF Receive, CanReceive, Current
  <2>2. sock \in [FD -> [owner : {"free", "server", "foreign"},
                         inbox : Inbox, link : {"up", "fin", "rst"}]]
    BY DEF IInv, TypeOK, SocketsTypeOK
  <2>3. Owned(Current.sockfd)'
    BY <2>1, <2>2 DEF Owned
  <2> QED
    BY <2>1, <2>3 DEF Numbered, Opening
<1>9. CASE StartServerFails \/ PollFails \/ ClearAborts
  BY <1>9 DEF StartServerFails, PollFails, ClearAborts, Dies, Numbered, Opening
<1> QED
  BY <1>1, <1>2, <1>3, <1>4, <1>5, <1>6, <1>7, <1>8, <1>9
     DEF Next, HandlerStep, Finished

\* SInv holds in every reachable state.
LEMMA ServiceInvariance == Spec => []SInv
<1>1. SInv /\ [Next]_vars => SInv'
  BY NextHInv, NumberedStep DEF SInv
<1> QED
  BY <1>1, InitSInv, PTL DEF Spec

----------------------------------------------------------------------------
(* The steps of the loop as steps of the service *)

\* The service counts as we do: FiniteSets is instantiated along with it.
LEMMA SameCardinality == \A S : Service!Cardinality(S) = Cardinality(S)
  BY Zenon DEF Service!Cardinality, Cardinality, Service!IsFiniteSet, IsFiniteSet

LEMMA InitSimulation == Init => Service!ServiceInit
  BY DEF Init, SocketsInit, FreeSock, Service!ServiceInit, Phase, Asking,
     Conns, Owned

\* Closing a number takes it from the server's connections, if it was one.
LEMMA CloseConns ==
    ASSUME IInv, NEW g \in FD \cup {NoFd}, sock' = Close(g)
    PROVE  Conns' = Conns \ {g}
  BY CloseFacts DEF Conns

\* What is neither to be seen from outside nor a change of phase.  The second
\* setsockopt, when it fails, closes no connection of the server.
LEMMA StutterSteps ==
    ASSUME SInv,
           \/ PollTimeout \/ PollReady \/ SkipAccept \/ AcceptFails
           \/ SetSendTimeout \/ Handshake
           \/ Admit \/ Kill \/ PassOver \/ ServeDone \/ Prune
           \/ DropListeners
    PROVE  UNCHANGED Service!svars
<1> USE DEF SInv, HInv
<1>1. /\ UNCHANGED <<listening, exitFlag, refused, tainted>>
      /\ pc # "reply" /\ pc' # "reply"
      /\ Phase' = Phase
  BY DEF PollTimeout, PollReady, SkipAccept, AcceptFails, SetSendTimeout, Accepted,
     Handshake, Admit, Kill, PassOver, ServeDone, Prune, DropListeners, Readable,
     kernel, history, NextListener, NextEntry, Phase
<1>2. Conns' = Conns
  <2>1. CASE sock' = sock
    BY <2>1 DEF Conns, Owned
  <2>2. CASE sock' = Close(client.sockfd) /\ SetSendTimeout
    <3>1. ~Owned(client.sockfd) /\ client.sockfd \in FD \cup {NoFd}
      BY <2>2, Types DEF SetSendTimeout, Scope
    <3>2. Conns' = Conns \ {client.sockfd}
      BY <2>2, <3>1, CloseConns
    <3> QED
      BY <3>1, <3>2 DEF Conns
  <2>3. SetSendTimeout \/ sock' = sock
    BY DEF PollTimeout, PollReady, SkipAccept, AcceptFails, Handshake, Admit, Kill,
       PassOver, ServeDone, Prune, DropListeners, kernel
  <2> QED
    BY <2>1, <2>2, <2>3 DEF SetSendTimeout
<1>3. Asking' = Asking
  BY <1>1 DEF Asking
<1> QED
  BY <1>1, <1>2, <1>3 DEF Service!svars, Service!state

\* The end of an iteration: the numbers no Client has any more are forgotten, and
\* with the last of them the service has recovered.
LEMMA PruneDoneStep ==
    ASSUME SInv, PruneDone
    PROVE  Service!ServiceNext \/ UNCHANGED Service!svars
<1>1. /\ UNCHANGED <<sock, listening, exitFlag, refused>>
      /\ pc = "prune" /\ pc' = "poll" /\ tainted' \subseteq tainted
  BY DEF PruneDone, kernel
<1>2. /\ Phase = "serving" /\ Phase' = "serving" /\ Asking = NoFd /\ Asking' = NoFd
      /\ Conns' = Conns
  BY <1>1 DEF Phase, Asking, Conns, Owned
<1>3. CASE tainted # {} /\ tainted' = {}
  <2>1. Service!Recover
    BY <1>1, <1>2, <1>3 DEF Service!Recover
  <2> QED
    BY <2>1 DEF Service!ServiceNext, Service!Serve
<1>4. CASE (tainted # {}) = (tainted' # {})
  BY <1>1, <1>2, <1>4 DEF Service!svars, Service!state
<1> QED
  BY <1>1, <1>3, <1>4

\* Connections and listeners that come.
LEMMA OpeningSteps ==
    ASSUME SInv,
           StartServer \/ \E f \in FD : Accept(f)
    PROVE  Service!ServiceNext \/ UNCHANGED Service!svars
<1> USE DEF SInv, HInv
<1>1. CASE StartServer
  <2>1. /\ pc = "start" /\ idx \in 1 .. L /\ idx \in Nat
        /\ listening = 1 .. idx - 1 /\ listening' = listening \cup {idx}
        /\ UNCHANGED <<sock, refused, tainted, exitFlag>>
        /\ pc' = IF idx < L THEN "start" ELSE "poll"
    BY <1>1, ListenerFacts DEF StartServer, Opening, IInv, IndexInv, history
  <2>2. idx \notin listening /\ (listening' = 1 .. L <=> ~(idx < L))
    <3>1. CASE idx < L
      <4>1. L \in 1 .. L /\ L \notin listening'
        BY <2>1, <3>1, ListenerFacts
      <4> QED
        BY <2>1, <3>1, <4>1
    <3>2. CASE ~(idx < L)
      <4>1. idx = L /\ L \in Nat \ {0}
        BY <2>1, <3>2, ListenerFacts
      <4>2. listening' = 1 .. L
        BY <2>1, <4>1
      <4> QED
        BY <2>1, <3>2, <4>2
    <3> QED
      BY <3>1, <3>2
  <2>3. Phase = "opening" /\ Phase' = IF listening' = 1 .. L THEN "serving" ELSE "opening"
    BY <2>1, <2>2 DEF Phase
  <2>4. Conns' = Conns /\ Asking' = Asking
    BY <2>1 DEF Conns, Owned, Asking
  <2>5. Service!Open(idx)
    BY <2>1, <2>2, <2>3, <2>4 DEF Service!Open
  <2> QED
    BY <2>1, <2>5 DEF Service!ServiceNext, Service!Serve
<1>2. ASSUME NEW f \in FD, Accept(f)
      PROVE  Service!ServiceNext \/ UNCHANGED Service!svars
  <2>1. /\ sock[f].owner = "free"
        /\ UNCHANGED <<listening, exitFlag, refused>>
        /\ pc = "accept" /\ pc' \in {"sendTimeout", "handshake", "admit"}
        /\ \/ sock' = [sock EXCEPT ![f] = Opened] /\ tainted' = tainted
           \/ sock' = sock /\ tainted' = tainted \cup {f}
    BY <1>2 DEF Accept, Accepted, CanAccept, AfterTimeouts
  <2>2. sock \in [FD -> [owner : {"free", "server", "foreign"},
                         inbox : Inbox, link : {"up", "fin", "rst"}]]
    BY DEF IInv, TypeOK, SocketsTypeOK
  <2>3. /\ Phase = "serving" /\ Phase' = "serving"
        /\ Asking = NoFd /\ Asking' = NoFd
    BY <2>1 DEF Phase, Asking
  <2>4. CASE sock' = [sock EXCEPT ![f] = Opened] /\ tainted' = tainted
    <3>1. f \notin Conns /\ Conns' = Conns \cup {f}
      BY <2>1, <2>2, <2>4 DEF Conns, Owned, Opened, FreeSock
    <3>2. Service!Take(f)
      BY <2>1, <2>3, <2>4, <3>1, ConnsAtAccept, SameCardinality
         DEF Service!Take, Service!Overfull
    <3> QED
      BY <3>2 DEF Service!ServiceNext, Service!Serve
  <2>5. CASE sock' = sock /\ tainted' = tainted \cup {f}
    <3>1. Conns' = Conns /\ tainted' # {}
      BY <2>5 DEF Conns, Owned
    <3>2. CASE tainted = {}
      <4>1. Service!Lapse
        BY <2>1, <2>3, <3>1, <3>2 DEF Service!Lapse
      <4> QED
        BY <4>1 DEF Service!ServiceNext, Service!Serve
    <3>3. CASE tainted # {}
      BY <2>1, <2>3, <3>1, <3>3 DEF Service!svars, Service!state
    <3> QED
      BY <3>2, <3>3
  <2> QED
    BY <2>1, <2>4, <2>5
<1> QED
  BY <1>1, <1>2

\* A close in the loop drops a connection, unless the number was already given
\* up; nobody else's answer is outstanding then.
LEMMA DropSteps ==
    ASSUME SInv,
           \/ HandshakeFails \/ ClearFailed
           \/ ReceiveFails \/ ReceiveNothing \/ ReplyFails \/ Clear
    PROVE  Service!ServiceNext \/ UNCHANGED Service!svars
<1> DEFINE g == IF pc \in {"handshake", "clearFailed"} THEN client.sockfd ELSE Current.sockfd
<1> USE DEF SInv, HInv
<1>1. /\ sock' = Close(g) /\ UNCHANGED <<listening, exitFlag, refused, tainted>>
      /\ pc \in {"handshake", "clearFailed", "serve", "reply", "clear"}
      /\ pc' \in {"accept", "clearFailed", "serve", "clear"}
  BY DEF HandshakeFails, ClearFailed, ReceiveFails, ReceiveNothing, ReplyFails, Clear,
     Readable, NextListener, NextEntry, history
<1>2. g \in FD \cup {NoFd} /\ NoFd \notin FD
  <2>1. CASE pc \in {"handshake", "clearFailed"}
    BY <2>1, Types
  <2>2. CASE pc \in {"serve", "reply", "clear"}
    <3>1. pc \in {"reply", "clear"} \/ Readable
      BY <2>2 DEF HandshakeFails, ClearFailed, ReceiveFails, ReceiveNothing, ReplyFails,
         Clear
    <3>2. Current \in Client
      BY <2>2, <3>1, CurrentFacts DEF Readable, IInv, IndexInv
    <3> QED
      BY <2>2, <3>2, Types DEF Client
  <2> QED
    BY <1>1, <2>1, <2>2
<1>3. Conns' = Conns \ {g}
  BY <1>1, <1>2, CloseConns
<1>4. /\ Phase = "serving" /\ Phase' = "serving"
      /\ Asking' = NoFd
      /\ Asking = IF pc = "reply" THEN g ELSE NoFd
  BY <1>1 DEF Phase, Asking
<1>5. CASE g \in Conns
  <2>1. Service!Drop(g)
    BY <1>1, <1>3, <1>4, <1>5 DEF Service!Drop
  <2> QED
    BY <1>5, <2>1 DEF Service!ServiceNext, Service!Serve, Conns
<1>6. CASE g \notin Conns
  <2>1. pc # "reply"
    BY <1>1, <1>6 DEF Numbered, Conns, Owned
  <2> QED
    BY <1>1, <1>3, <1>4, <1>6, <2>1 DEF Service!svars, Service!state
<1> QED
  BY <1>5, <1>6

\* A request, and its answer.
LEMMA TalkSteps ==
    ASSUME SInv,
           \/ \E req \in Inbox, rest \in {"none", "part"} : Receive(req, rest)
           \/ Reply
    PROVE  Service!ServiceNext \/ UNCHANGED Service!svars
<1> USE DEF SInv, HInv
<1>1. ASSUME NEW req \in Inbox, NEW rest \in {"none", "part"}, Receive(req, rest)
      PROVE  Service!ServiceNext \/ UNCHANGED Service!svars
  <2>1. /\ Owned(Current.sockfd) /\ Current' = Current
        /\ sock' = [sock EXCEPT ![Current.sockfd].inbox = rest]
        /\ UNCHANGED <<listening, exitFlag, refused, tainted>>
        /\ pc = "serve" /\ pc' \in {"clear", "reply"}
    BY <1>1 DEF Receive, Readable, CanReceive, Current, history
  <2>2. sock \in [FD -> [owner : {"free", "server", "foreign"},
                         inbox : Inbox, link : {"up", "fin", "rst"}]]
    BY DEF IInv, TypeOK, SocketsTypeOK
  <2>3. Conns' = Conns /\ Current.sockfd \in Conns
    BY <2>1, <2>2 DEF Conns, Owned
  <2>4. /\ Phase = "serving" /\ Phase' = "serving" /\ Asking = NoFd
        /\ Asking' = IF pc' = "reply" THEN Current.sockfd ELSE NoFd
    BY <2>1 DEF Phase, Asking
  <2>5. CASE pc' = "reply"
    <3>1. Service!Read(Current.sockfd)
      BY <2>1, <2>3, <2>4, <2>5 DEF Service!Read
    <3> QED
      BY <2>3, <3>1 DEF Service!ServiceNext, Service!Serve, Conns
  <2>6. CASE pc' # "reply"
    BY <2>1, <2>3, <2>4, <2>6 DEF Service!svars, Service!state
  <2> QED
    BY <2>5, <2>6
<1>2. CASE Reply
  <2>1. /\ UNCHANGED <<sock, listening, exitFlag, refused, tainted>>
        /\ pc = "reply" /\ pc' \in {"serve", "clear"}
        /\ Current.sockfd # NoFd
    BY <1>2, ListenerFacts DEF Reply, NextEntry, kernel, history, Numbered, Owned
  <2>2. /\ Phase = "serving" /\ Phase' = "serving"
        /\ Asking # NoFd /\ Asking' = NoFd /\ Conns' = Conns
    BY <2>1 DEF Phase, Asking, Conns, Owned
  <2>3. Service!Answer
    BY <2>1, <2>2 DEF Service!Answer
  <2> QED
    BY <2>3 DEF Service!ServiceNext, Service!Serve
<1> QED
  BY <1>1, <1>2

\* The end of the service, from the flag or the refusal to the return, and
\* that of the process.
LEMMA ClosingSteps ==
    ASSUME SInv,
           \/ PollStop \/ Refuse \/ DrainClient \/ DrainDone
           \/ StartServerFails \/ PollFails \/ ClearAborts
    PROVE  Service!ServiceNext \/ UNCHANGED Service!svars
<1> USE DEF SInv, HInv
<1>1. CASE PollStop
  <2>1. /\ pc = "poll" /\ pc' = "drain" /\ exitFlag
        /\ UNCHANGED <<sock, listening, exitFlag, refused, tainted>>
    BY <1>1 DEF PollStop, kernel, history
  <2>2. Service!Obey
    BY <2>1 DEF Service!Obey, Phase, Asking, Conns, Owned
  <2> QED
    BY <2>2 DEF Service!ServiceNext, Service!Close
<1>2. CASE Refuse
  <2>1. /\ pc = "admit" /\ pc' = "drain" /\ AboveLimit
        /\ UNCHANGED <<sock, listening, exitFlag, tainted>>
        /\ refused' = client.sockfd /\ client.sockfd \in FD
    BY <1>2, Types DEF Refuse, kernel, Numbered
  <2>2. tainted = {} =>
            Cardinality(Conns) > MaxConnections + 1 /\ client.sockfd \in Conns
    BY <2>1, ConnsAtRefusal
  <2>3. /\ Phase = "serving" /\ Phase' = "closing" /\ Asking = NoFd /\ Asking' = NoFd
        /\ Conns' = Conns
    BY <2>1 DEF Phase, Asking, Conns, Owned
  <2>4. Service!GiveUp
    <3>1. Service!Overfull \/ tainted # {}
      BY <2>2, SameCardinality DEF Service!Overfull
    <3>2. \E c \in IF tainted # {} THEN FD ELSE Conns : refused' = c
      BY <2>1, <2>2
    <3> QED
      BY <2>1, <2>3, <3>1, <3>2 DEF Service!GiveUp
  <2> QED
    BY <2>4 DEF Service!ServiceNext, Service!Serve
<1>3. CASE DrainClient
  <2>1. /\ pc = "draining" /\ pc' = "draining" /\ fds # <<>> /\ fds \in Seq(PollFd)
        /\ Len(fds) = Len(clients) /\ sock' = Close(clients[Len(fds)].sockfd)
        /\ UNCHANGED <<listening, exitFlag, refused, tainted>>
    BY <1>3 DEF DrainClient, IInv, TypeOK, VectorsAligned, Offset, history
  <2> DEFINE g == clients[Len(fds)].sockfd
  <2>2. Len(fds) \in 1 .. Len(clients) /\ g \in FD \cup {NoFd} /\ NoFd \notin FD
    BY <2>1, EmptySeq, Types
  <2>3. Conns' = Conns \ {g}
    BY <2>1, <2>2, CloseConns
  <2>4. Phase = "closing" /\ Phase' = "closing" /\ Asking' = Asking
    BY <2>1 DEF Phase, Asking
  <2>5. CASE g \in Conns
    <3>1. g # refused \/ tainted # {}
      BY <2>2, <2>5 DEF Held, Sound, Conns
    <3>2. Service!Shed(g)
      BY <2>1, <2>3, <2>4, <2>5, <3>1 DEF Service!Shed
    <3> QED
      BY <2>5, <3>2 DEF Service!ServiceNext, Service!Close, Conns
  <2>6. CASE g \notin Conns
    BY <2>1, <2>3, <2>4, <2>6 DEF Service!svars, Service!state
  <2> QED
    BY <2>5, <2>6
<1>4. CASE DrainDone
  <2>1. /\ pc = "draining" /\ pc' = "done" /\ fds = <<>> /\ listening' = {}
        /\ UNCHANGED <<sock, exitFlag, refused, tainted>> /\ client.sockfd = NoFd
    BY <1>4 DEF DrainDone, history, Scope
  <2>2. Len(clients) = 0
    BY <2>1, Types, EmptySeq DEF IInv, VectorsAligned, Offset
  <2>3. Conns \subseteq {refused}
    BY <2>1, <2>2, ListenerFacts DEF NothingElseLeaks, Conns
  <2>4. Service!Shut
    BY <2>1, <2>3 DEF Service!Shut, Phase, Asking, Conns, Owned
  <2> QED
    BY <2>4 DEF Service!ServiceNext, Service!Close
<1>5. CASE StartServerFails \/ PollFails \/ ClearAborts
  <2>1. Dies /\ pc \in {"start", "poll", "clear"}
    BY <1>5 DEF StartServerFails, PollFails, ClearAborts
  <2>2. /\ pc' = "exit" /\ listening' = {} /\ exitFlag' = exitFlag
        /\ refused' = NoFd /\ tainted' = {}
        /\ \A f \in FD : sock'[f].owner = "free"
    BY <2>1 DEF Dies, ProcessDies, FreeSock
  <2>3. Service!Die
    BY <2>1, <2>2 DEF Service!Die, Phase, Asking, Conns, Owned
  <2> QED
    BY <2>3 DEF Service!ServiceNext
<1> QED
  BY <1>1, <1>2, <1>3, <1>4, <1>5

\* Every step of the loop and of its environment is a step of the service or
\* leaves it as it was.
LEMMA StepSimulation ==
    ASSUME SInv, [Next]_vars
    PROVE  Service!ServiceNext \/ UNCHANGED Service!svars
<1>1. CASE HandlerStep
  BY <1>1, StutterSteps, PruneDoneStep, OpeningSteps, DropSteps, TalkSteps, ClosingSteps
     DEF HandlerStep
<1>2. CASE (Environment /\ UNCHANGED <<handler, exitFlag>>) \/ RequestExit
              \/ UNCHANGED vars
  <2>1. /\ Conns' = Conns /\ listening' = listening
        /\ Phase' = Phase /\ Asking' = Asking /\ UNCHANGED <<refused, tainted>>
    BY <1>2, EnvironmentConns DEF SInv, HInv, handler, history, Phase, Asking, Current
  <2>2. CASE RequestExit
    <3>1. Service!RequestStop
      BY <2>1, <2>2 DEF RequestExit, Service!RequestStop, Service!state
    <3> QED
      BY <3>1 DEF Service!ServiceNext
  <2>3. CASE ~RequestExit
    BY <1>2, <2>1, <2>3 DEF vars, Service!svars, Service!state
  <2> QED
    BY <2>2, <2>3
<1> QED
  BY <1>1, <1>2 DEF Next, Finished

\* The poll loop, whatever its peers and the other threads do and whatever fails,
\* keeps what MetricService promises: this is the refinement the https run checks
\* on a small instance.  The refused Client's socket is the spared connection, and
\* a failed setsockopt (MetricClient.cpp 35, 51, 126-127) is a lapse.
THEOREM Implementation == Spec => ImplementsService
<1>1. SInv /\ [Next]_vars => [Service!ServiceNext]_Service!svars
  BY StepSimulation
<1> QED
  BY <1>1, ServiceInvariance, InitSimulation, PTL
     DEF Spec, ImplementsService, Service!ServiceSpec
=============================================================================
