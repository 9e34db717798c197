--------------------- MODULE MetricServerHandler_proofs ---------------------
(***************************************************************************)
(* Proofs about MetricServerHandler, for every set of descriptors, every   *)
(* limit, one listener or two, and every choice of failing system calls.   *)
(***************************************************************************)
EXTENDS MetricServerHandler, SequenceTheorems, TLAPS

\* What erase() at position i leaves of a vector: the other elements, in order.
LEMMA RemoveAtFacts ==
    ASSUME NEW S, NEW s \in Seq(S), NEW i \in 1 .. Len(s)
    PROVE  /\ RemoveAt(s, i) \in Seq(S)
           /\ Len(RemoveAt(s, i)) = Len(s) - 1
           /\ \A j \in 1 .. Len(s) - 1 :
                 RemoveAt(s, i)[j] = IF j < i THEN s[j] ELSE s[j + 1]
<1> DEFINE a == SubSeq(s, 1, i - 1)
           b == SubSeq(s, i + 1, Len(s))
<1>1. /\ a \in Seq(S) /\ Len(a) = i - 1
      /\ \A j \in 1 .. i - 1 : a[j] = s[j]
  BY SubSeqProperties
<1>2. /\ b \in Seq(S) /\ Len(b) = Len(s) - i
      /\ \A j \in 1 .. Len(s) - i : b[j] = s[i + j]
  BY SubSeqProperties
<1> HIDE DEF a, b
<1>3. /\ a \o b \in Seq(S)
      /\ Len(a \o b) = Len(a) + Len(b)
      /\ \A j \in 1 .. Len(a) + Len(b) :
            (a \o b)[j] = IF j <= Len(a) THEN a[j] ELSE b[j - Len(a)]
  <2>1. a \in Seq(S) /\ b \in Seq(S)
    BY <1>1, <1>2
  <2> QED
    BY <2>1, ConcatProperties
<1>4. Len(a) + Len(b) = Len(s) - 1
  BY <1>1, <1>2
<1>5. ASSUME NEW j \in 1 .. Len(s) - 1
      PROVE  (a \o b)[j] = IF j < i THEN s[j] ELSE s[j + 1]
  <2>1. CASE j < i
    <3>1. j \in 1 .. i - 1 /\ j <= Len(a) /\ j \in 1 .. Len(a) + Len(b)
      BY <2>1, <1>1, <1>4
    <3> QED
      BY <2>1, <3>1, <1>1, <1>3
  <2>2. CASE ~(j < i)
    <3>1. /\ ~(j <= Len(a)) /\ j \in 1 .. Len(a) + Len(b)
          /\ j - Len(a) = j - i + 1 /\ j - i + 1 \in 1 .. Len(s) - i
          /\ i + (j - i + 1) = j + 1
      BY <2>2, <1>1, <1>4
    <3> QED
      BY <2>2, <3>1, <1>2, <1>3
  <2> QED
    BY <2>1, <2>2
<1> QED
  BY <1>3, <1>4, <1>5 DEF RemoveAt, a, b

----------------------------------------------------------------------------

\* The facts about the constants and the derived constant L that every step
\* below uses.
LEMMA ListenerFacts ==
    /\ L \in Nat /\ (L = 1 \/ L = 2)
    /\ \A l \in 1 .. L : ListenFds[l] \in Nat \ FD /\ ListenFds[l] # NoFd
    /\ NoFd \notin FD
  BY SocketsAssumption DEF L

LEMMA CloseType ==
    ASSUME SocketsTypeOK, NEW f
    PROVE  Close(f) \in [FD -> [owner : {"free", "server", "foreign"},
                                inbox : Inbox, link : {"up", "fin", "rst"}]]
  BY DEF SocketsTypeOK, Close, FreeSock, Inbox

LEMMA InitIInv == Init => IInv
<1> SUFFICES ASSUME Init PROVE IInv
  OBVIOUS
<1> USE ListenerFacts
<1>1. SocketsTypeOK
  BY SocketsAssumption DEF Init, SocketsInit, SocketsTypeOK, FreeSock, Inbox
<1>2. TypeOK
  <2>1. fds \in Seq(PollFd) /\ clients \in Seq(Client)
    BY DEF Init
  <2>2. client \in Client
    BY DEF Init, NewClient, Client
  <2>3. newfd \in [1 .. L -> FD \cup {NoFd}]
    BY DEF Init
  <2> QED
    BY <1>1, <2>1, <2>2, <2>3 DEF Init, TypeOK
<1>3. IndexInv
  BY DEF Init, IndexInv
<1>4. VectorsAligned /\ ConnectionLimit
  BY MaxConnectionsAssumption DEF Init, VectorsAligned, ConnectionLimit
<1> QED
  BY <1>2, <1>3, <1>4 DEF IInv

\* What the peers and the other threads do leaves the handler's variables
\* alone, and the descriptor table well formed.
LEMMA EnvironmentStep ==
    ASSUME IInv, Environment, UNCHANGED <<handler, exitFlag>>
    PROVE  IInv'
<1>1. SocketsTypeOK /\ SocketsTypeOK'
  <2>0. SocketsTypeOK
    BY DEF IInv, TypeOK
  <2>1. ASSUME NEW l \in 1 .. L, Connect(l) \/ Abort(l) PROVE SocketsTypeOK'
    <3>1. backlog[l] \in 0 .. MaxBacklog /\ MaxBacklog \in Nat
      BY <2>0, SocketsAssumption DEF SocketsTypeOK
    <3>2. CASE Connect(l)
      <4>1. backlog[l] + 1 \in 0 .. MaxBacklog
        BY <3>1, <3>2 DEF Connect
      <4> QED
        BY <2>0, <3>2, <4>1 DEF SocketsTypeOK, Connect
    <3>3. CASE Abort(l)
      <4>1. backlog[l] - 1 \in 0 .. MaxBacklog
        BY <3>1, <3>3 DEF Abort
      <4> QED
        BY <2>0, <3>3, <4>1 DEF SocketsTypeOK, Abort
    <3> QED
      BY <2>1, <3>2, <3>3
  <2>2. ASSUME NEW f \in FD, NEW r \in Requests, PeerSend(f, r)
        PROVE  SocketsTypeOK'
    BY <2>0, <2>2, SocketsAssumption DEF SocketsTypeOK, PeerSend
  <2>3. ASSUME NEW f \in FD, PeerFin(f) \/ PeerReset(f) \/ ForeignOpen(f)
        PROVE  SocketsTypeOK'
    BY <2>0, <2>3 DEF SocketsTypeOK, PeerFin, PeerReset, ForeignOpen, Inbox
  <2>4. ASSUME NEW f \in FD, ForeignClose(f) PROVE SocketsTypeOK'
    BY <2>0, <2>4, CloseType DEF SocketsTypeOK, ForeignClose
  <2> QED
    BY <2>0, <2>1, <2>2, <2>3, <2>4 DEF Environment
<1>2. TypeOK'
  BY <1>1 DEF IInv, TypeOK, handler, history
<1>3. IndexInv' /\ VectorsAligned' /\ ConnectionLimit'
  BY DEF IInv, IndexInv, VectorsAligned, ConnectionLimit, Offset, handler
<1> QED
  BY <1>2, <1>3 DEF IInv

\* exit(1) and abort() leave a process without descriptors or vectors.
LEMMA DiesStep == ASSUME IInv, Dies PROVE IInv'
<1>1. SocketsTypeOK'
  BY SocketsAssumption, ListenerFacts
     DEF Dies, ProcessDies, SocketsTypeOK, FreeSock, Inbox
<1>2. TypeOK'
  <2>1. fds' \in Seq(PollFd) /\ clients' \in Seq(Client)
    BY DEF Dies
  <2>2. client' \in Client
    BY DEF Dies, NewClient, Client
  <2>3. newfd' \in [1 .. L -> FD \cup {NoFd}]
    BY DEF Dies
  <2> QED
    BY <1>1, <2>1, <2>2, <2>3 DEF IInv, Dies, TypeOK
<1>3. IndexInv' /\ VectorsAligned' /\ ConnectionLimit'
  BY MaxConnectionsAssumption
     DEF Dies, IndexInv, VectorsAligned, ConnectionLimit
<1> QED
  BY <1>2, <1>3 DEF IInv

\* Steps that touch neither vector nor the descriptor table.
LEMMA QuietStep ==
    ASSUME IInv,
           \/ PollStop \/ SkipAccept \/ Handshake \/ Refuse
           \/ Kill \/ PassOver \/ ServeDone \/ PruneDone
    PROVE  IInv'
<1> USE ListenerFacts DEF IInv
<1>1. SocketsTypeOK'
  BY DEF TypeOK, SocketsTypeOK, kernel, PollStop, SkipAccept, Handshake, Refuse,
         Kill, PassOver, ServeDone, PruneDone
<1>2. CASE PollStop \/ Refuse
  <2>1. TypeOK'
    <3>1. client.sockfd \in FD \cup {NoFd} /\ NewClient \in Client
      BY DEF TypeOK, NewClient, Client
    <3>2. client' \in {client, NewClient} /\ refused' \in {client.sockfd, refused}
          /\ UNCHANGED <<npolled, tainted>>
      BY <1>2 DEF PollStop, Refuse, history
    <3> QED
      BY <1>1, <1>2, <3>1, <3>2 DEF TypeOK, PollStop, Refuse
  <2>2. IndexInv' /\ VectorsAligned' /\ ConnectionLimit'
    BY <1>2 DEF TypeOK, IndexInv, VectorsAligned, ConnectionLimit, Offset,
       PollStop, Refuse
  <2> QED
    BY <2>1, <2>2
<1>3. CASE SkipAccept
  BY <1>1, <1>3 DEF TypeOK, IndexInv, VectorsAligned, ConnectionLimit, Offset,
     SkipAccept, NextListener, history
<1>4. CASE Handshake
  BY <1>1, <1>4 DEF TypeOK, IndexInv, VectorsAligned, ConnectionLimit, Offset,
     Handshake, AfterHandshake, Client, history
<1>5. CASE Kill \/ PassOver \/ ServeDone
  <2>1. TypeOK'
    BY <1>1, <1>5 DEF TypeOK, Kill, PassOver, ServeDone, NextEntry, history
  <2>2. IndexInv'
    BY <1>5 DEF TypeOK, IndexInv, Kill, PassOver, ServeDone, NextEntry
  <2>3. VectorsAligned' /\ ConnectionLimit'
    BY <1>5 DEF VectorsAligned, ConnectionLimit, Offset,
       Kill, PassOver, ServeDone, NextEntry
  <2> QED
    BY <2>1, <2>2, <2>3
<1>6. CASE PruneDone
  <2>1. TypeOK'
    BY <1>1, <1>6 DEF TypeOK, PruneDone
  <2>2. IndexInv' /\ ConnectionLimit'
    BY <1>6 DEF PruneDone, IndexInv, ConnectionLimit
  <2>3. VectorsAligned'
    <3>1. /\ pc = "prune" /\ idx > Len(fds) /\ idx \in Nat /\ Len(clients) \in Nat
          /\ Len(fds) = L + Len(clients) /\ pc' = "poll"
          /\ fds' = fds /\ clients' = clients
      BY <1>6 DEF PruneDone, TypeOK, VectorsAligned, Offset
    <3>2. \A j \in 1 .. Len(fds) : fds[j].fd # NoFd
      BY <3>1 DEF IndexInv
    <3>3. \A i \in 1 .. Len(clients) : fds[L + i].fd = clients[i].sockfd
      BY <3>1 DEF VectorsAligned, Offset
    <3>4. \A i \in 1 .. Len(clients) : L + i \in 1 .. Len(fds)
      BY <3>1
    <3>5. \A l \in 1 .. L : fds[l].fd = ListenFds[l]
      BY <3>1 DEF VectorsAligned, Offset
    <3> QED
      BY <3>1, <3>2, <3>3, <3>4, <3>5 DEF VectorsAligned, Offset
  <2> QED
    BY <2>1, <2>2, <2>3
<1> QED
  BY <1>2, <1>3, <1>4, <1>5, <1>6

LEMMA StartServerStep == ASSUME IInv, StartServer PROVE IInv'
<1> USE ListenerFacts DEF IInv
<1>1. Entry(ListenFds[idx]) \in PollFd
  BY DEF StartServer, IndexInv, Entry, PollFd
<1>2. /\ fds' \in Seq(PollFd) /\ Len(fds') = Len(fds) + 1
      /\ fds'[Len(fds) + 1] = Entry(ListenFds[idx])
      /\ \A j \in 1 .. Len(fds) : fds'[j] = fds[j]
  BY <1>1 DEF StartServer, TypeOK
<1>3. SocketsTypeOK'
  BY DEF StartServer, TypeOK, IndexInv, SocketsTypeOK
<1>4. TypeOK'
  BY <1>2, <1>3 DEF StartServer, TypeOK, history
<1>5. IndexInv' /\ ConnectionLimit'
  BY <1>2 DEF StartServer, TypeOK, IndexInv, ConnectionLimit, Entry
<1>6. VectorsAligned'
  BY <1>2 DEF StartServer, TypeOK, IndexInv, VectorsAligned, Offset, Entry
<1> QED
  BY <1>4, <1>5, <1>6

\* poll() writes revents and nothing else.
LEMMA PolledFacts ==
    ASSUME IInv, pc = "poll"
    PROVE  /\ Polled \in Seq(PollFd) /\ Len(Polled) = Len(fds)
           /\ \A i \in 1 .. Len(fds) : Polled[i].fd = fds[i].fd
<1> USE ListenerFacts DEF IInv
<1>1. Len(fds) \in Nat /\ \A i \in 1 .. Len(fds) : fds[i] \in PollFd
  BY DEF TypeOK
<1>2. ASSUME NEW i \in 1 .. Len(fds), i > L PROVE fds[i].fd \in FD
  <2>1. i - L \in 1 .. Len(clients) /\ L + (i - L) = i
    BY <1>2 DEF VectorsAligned, Offset, TypeOK
  <2>2. fds[L + (i - L)].fd = clients[i - L].sockfd /\ clients[i - L].sockfd # NoFd
    BY <2>1 DEF VectorsAligned, Offset
  <2>3. clients[i - L] \in Client
    BY <2>1 DEF TypeOK
  <2> QED
    BY <2>1, <2>2, <2>3 DEF Client
<1>3. ASSUME NEW f \in FD PROVE Readiness(f) \subseteq Events
  BY SocketsAssumption DEF TypeOK, SocketsTypeOK, Readiness, Events
<1>4. ASSUME NEW i \in 1 .. Len(fds)
      PROVE  (IF i <= L THEN ListenerReadiness(i) ELSE Readiness(fds[i].fd))
                \subseteq Events
  <2>1. CASE i <= L
    BY <2>1 DEF ListenerReadiness, Events
  <2>2. CASE ~(i <= L)
    <3>1. fds[i].fd \in FD
      BY <1>1, <1>2, <2>2
    <3> QED
      BY <1>3, <2>2, <3>1
  <2> QED
    BY <2>1, <2>2
<1>5. ASSUME NEW i \in 1 .. Len(fds)
      PROVE  Polled[i] \in PollFd /\ Polled[i].fd = fds[i].fd
  BY <1>1, <1>4, <1>5 DEF Polled, PollFd
<1>6. Polled \in [1 .. Len(fds) -> PollFd]
  BY <1>1, <1>5 DEF Polled
<1>7. Polled \in Seq(PollFd) /\ Len(Polled) = Len(fds)
  BY <1>1, <1>6
<1> QED
  BY <1>5, <1>7

\* Writing revents leaves the vectors aligned.
LEMMA SameDescriptors ==
    ASSUME IInv,
           pc \in {"poll", "accept", "clearFailed", "serve", "reply"},
           pc' \in {"poll", "accept", "serve", "clear"},
           pc' = "poll" => pc = "poll",
           clients' = clients, Len(fds') = Len(fds),
           \A i \in 1 .. Len(fds) : fds'[i].fd = fds[i].fd
    PROVE  VectorsAligned'
<1> USE ListenerFacts
<1>1. Len(clients) \in Nat /\ Len(fds) = L + Len(clients)
  BY DEF IInv, TypeOK, VectorsAligned, Offset
<1>2. ASSUME NEW l \in 1 .. L PROVE fds'[l].fd = ListenFds[l]
  <2>1. l \in 1 .. Len(fds)
    BY <1>1
  <2> QED
    BY <2>1 DEF IInv, VectorsAligned, Offset
<1>3. ASSUME NEW i \in 1 .. Len(clients) PROVE fds'[L + i].fd = clients[i].sockfd
  <2>1. L + i \in 1 .. Len(fds)
    BY <1>1
  <2> QED
    BY <2>1 DEF IInv, VectorsAligned, Offset
<1>4. pc = "poll" => \A i \in 1 .. Len(clients) : clients[i].sockfd # NoFd
  BY DEF IInv, VectorsAligned
<1> QED
  BY <1>1, <1>2, <1>3, <1>4 DEF VectorsAligned, Offset

LEMMA PollStep == ASSUME IInv, PollTimeout \/ PollReady PROVE IInv'
<1> USE ListenerFacts DEF IInv
<1>1. /\ fds' \in Seq(PollFd) /\ Len(fds') = Len(fds)
      /\ \A i \in 1 .. Len(fds) : fds'[i].fd = fds[i].fd
  BY PolledFacts DEF PollTimeout, PollReady
<1>2. SocketsTypeOK'
  BY DEF PollTimeout, PollReady, TypeOK, SocketsTypeOK, kernel
<1>3. newfd' \in [1 .. L -> FD \cup {NoFd}]
  BY DEF PollTimeout, PollReady, TypeOK
<1>4. TypeOK'
  BY <1>1, <1>2, <1>3 DEF PollTimeout, PollReady, TypeOK, history
<1>5. IndexInv' /\ ConnectionLimit'
  BY <1>1 DEF PollTimeout, PollReady, TypeOK, IndexInv, ConnectionLimit
<1>6. VectorsAligned'
  BY <1>1, SameDescriptors DEF PollTimeout, PollReady
<1> QED
  BY <1>4, <1>5, <1>6

LEMMA AcceptStep ==
    ASSUME IInv,
           \/ AcceptFails
           \/ \E f \in FD : Accept(f)
           \/ SetSendTimeout
           \/ HandshakeFails
           \/ ClearFailed
    PROVE  IInv'
<1> USE ListenerFacts DEF IInv
<1>0. Len(fds) \in Nat /\ (pc \in {"accept", "handshake", "clearFailed"} => 1 \in 1 .. Len(fds))
  BY DEF TypeOK, VectorsAligned, Offset
<1>1. CASE AcceptFails \/ ClearFailed
  <2> DEFINE new == [fds EXCEPT ![1].revents = {}]
  <2>1. fds' = new /\ clients' = clients /\ pc \in {"accept", "clearFailed"}
        /\ pc' \in {"accept", "serve"}
    BY <1>1 DEF AcceptFails, ClearFailed, NextListener
  <2>2. /\ new \in Seq(PollFd) /\ Len(new) = Len(fds)
        /\ \A i \in 1 .. Len(fds) : new[i].fd = fds[i].fd
    <3>1. fds \in Seq(PollFd) /\ fds[1] \in PollFd
      BY <1>0, <2>1, ElementOfSeq DEF TypeOK
    <3>2. [fds[1] EXCEPT !.revents = {}] \in PollFd
      BY <3>1 DEF PollFd
    <3> QED
      BY <1>0, <2>1, <3>1, <3>2, ExceptSeq
  <2>3. SocketsTypeOK'
    <3>1. CASE AcceptFails
      BY <3>1 DEF AcceptFails, TypeOK, SocketsTypeOK, kernel
    <3>2. CASE ClearFailed
      BY <3>2, CloseType DEF ClearFailed, TypeOK, SocketsTypeOK
    <3> QED
      BY <1>1, <3>1, <3>2
  <2>4. client' \in Client
    <3>1. client' = client \/ client' = NewClient
      BY <1>1 DEF AcceptFails, ClearFailed, AfterClear
    <3>2. client \in Client /\ NewClient \in Client
      BY DEF TypeOK, NewClient, Client
    <3> QED
      BY <3>1, <3>2
  <2>5. TypeOK'
    <3>1. idx' \in Nat /\ newfd' = newfd /\ rc' \in {rc, "success"}
          /\ keepAlive' = keepAlive /\ exitFlag' = exitFlag /\ history' = history
      BY <1>1 DEF AcceptFails, ClearFailed, NextListener, TypeOK
    <3> QED
      BY <2>1, <2>2, <2>3, <2>4, <3>1 DEF TypeOK, history
  <2>6. IndexInv' /\ ConnectionLimit'
    BY <1>1 DEF AcceptFails, ClearFailed, NextListener, IndexInv, ConnectionLimit
  <2>7. VectorsAligned'
    BY <2>1, <2>2, SameDescriptors
  <2> QED
    BY <2>5, <2>6, <2>7
<1>2. CASE HandshakeFails
  <2>1. SocketsTypeOK'
    BY <1>2, CloseType DEF HandshakeFails, TypeOK, SocketsTypeOK
  <2>2. TypeOK'
    BY <1>2, <2>1 DEF HandshakeFails, AfterFailedHandshake, TypeOK, history
  <2>3. IndexInv' /\ ConnectionLimit' /\ VectorsAligned'
    BY <1>2 DEF HandshakeFails, IndexInv, ConnectionLimit, VectorsAligned, Offset
  <2> QED
    BY <2>2, <2>3
<1>3. ASSUME NEW f \in FD, Accept(f) PROVE IInv'
  <2>1. idx \in 1 .. L
    BY <1>3 DEF Accept, IndexInv
  <2>2. backlog' \in [1 .. L -> 0 .. MaxBacklog]
    <3>1. /\ backlog[idx] \in 0 .. MaxBacklog /\ backlog[idx] > 0
          /\ MaxBacklog \in Nat
      BY <1>3, <2>1, SocketsAssumption DEF Accept, CanAccept, TypeOK, SocketsTypeOK
    <3>2. backlog[idx] - 1 \in 0 .. MaxBacklog
      BY <3>1
    <3> QED
      BY <1>3, <2>1, <3>2 DEF Accept, TypeOK, SocketsTypeOK
  <2>3. SocketsTypeOK'
    BY <1>3, <2>2 DEF Accept, AfterTimeouts, Opened, FreeSock, Inbox, TypeOK,
       SocketsTypeOK
  <2>4. client' \in Client
    BY <1>3 DEF Accept, AfterAccept, NewClient, Client
  <2>5. tainted' \subseteq FD /\ pc' \in {"sendTimeout", "handshake", "admit"}
    BY <1>3 DEF Accept, Accepted, TypeOK
  <2>6. TypeOK'
    BY <1>3, <2>3, <2>4, <2>5 DEF Accept, TypeOK
  <2>7. pc = "accept" /\ idx' = idx /\ fds' = fds /\ clients' = clients
    BY <1>3 DEF Accept
  <2>8. IndexInv' /\ ConnectionLimit' /\ VectorsAligned'
    BY <2>1, <2>5, <2>7 DEF IndexInv, ConnectionLimit, VectorsAligned, Offset
  <2> QED
    BY <2>6, <2>8
<1>4. CASE SetSendTimeout
  <2>1. SocketsTypeOK'
    BY <1>4, CloseType DEF SetSendTimeout, TypeOK, SocketsTypeOK
  <2>2. pc' \in {"handshake", "admit"}
    BY <1>4 DEF SetSendTimeout, Accepted
  <2>3. TypeOK'
    BY <1>4, <2>1, <2>2 DEF SetSendTimeout, TypeOK, history
  <2>4. IndexInv' /\ ConnectionLimit' /\ VectorsAligned'
    BY <1>4, <2>2 DEF SetSendTimeout, IndexInv, ConnectionLimit, VectorsAligned,
       Offset
  <2> QED
    BY <2>3, <2>4
<1> QED
  BY <1>1, <1>2, <1>3, <1>4

LEMMA AdmitStep == ASSUME IInv, Admit PROVE IInv'
<1> USE ListenerFacts DEF IInv
<1> DEFINE longer == Append(fds, Entry(client.sockfd))
           new    == [longer EXCEPT ![idx].revents = {}]
<1>1. /\ idx \in 1 .. L /\ Len(fds) \in Nat /\ Len(clients) \in Nat
      /\ Len(fds) = L + Len(clients) /\ client \in Client
  BY DEF Admit, IndexInv, TypeOK, VectorsAligned, Offset
<1>2. Entry(client.sockfd) \in PollFd
  BY <1>1 DEF Entry, PollFd, Client
<1>3. /\ longer \in Seq(PollFd) /\ Len(longer) = Len(fds) + 1
      /\ longer[Len(fds) + 1] = Entry(client.sockfd)
      /\ \A i \in 1 .. Len(fds) : longer[i] = fds[i]
  BY <1>1, <1>2 DEF TypeOK
<1>4. idx \in 1 .. Len(longer) /\ idx \in 1 .. Len(fds) /\ longer[idx] \in PollFd
  BY <1>1, <1>3, ElementOfSeq
<1>5. [longer[idx] EXCEPT !.revents = {}] \in PollFd
  BY <1>4 DEF PollFd
<1> HIDE DEF longer
<1>6. /\ new \in Seq(PollFd) /\ Len(new) = Len(fds) + 1
      /\ new[Len(fds) + 1].fd = client.sockfd
      /\ \A i \in 1 .. Len(fds) : new[i].fd = fds[i].fd
  BY <1>1, <1>3, <1>4, <1>5, ExceptSeq DEF Entry
<1>7. fds' = new /\ pc' \in {"accept", "serve"}
  BY DEF Admit, NextListener, longer
<1> HIDE DEF new
<1>8. /\ clients' \in Seq(Client) /\ Len(clients') = Len(clients) + 1
      /\ clients'[Len(clients) + 1] = client
      /\ \A i \in 1 .. Len(clients) : clients'[i] = clients[i]
  BY <1>1 DEF Admit, TypeOK
<1>9. TypeOK'
  <2>1. SocketsTypeOK'
    BY DEF Admit, TypeOK, SocketsTypeOK, kernel
  <2>2. client' \in Client /\ newfd' \in [1 .. L -> FD \cup {NoFd}]
    BY <1>1 DEF Admit, TypeOK, NewClient, Client
  <2>3. idx' \in Nat /\ rc' = rc /\ keepAlive' = keepAlive
        /\ exitFlag' = exitFlag /\ history' = history
    BY DEF Admit, NextListener, TypeOK
  <2> QED
    BY <1>6, <1>7, <1>8, <2>1, <2>2, <2>3 DEF TypeOK, history
<1>10. IndexInv'
  BY <1>1, <1>7 DEF Admit, NextListener, IndexInv
<1>11. ConnectionLimit'
  BY <1>1, <1>8, MaxConnectionsAssumption DEF Admit, AboveLimit, ConnectionLimit
<1>12. VectorsAligned'
  <2>1. Len(fds') = L + Len(clients')
    BY <1>1, <1>6, <1>7, <1>8
  <2>2. ASSUME NEW l \in 1 .. L PROVE fds'[l].fd = ListenFds[l]
    BY <1>1, <1>6, <1>7 DEF Admit, VectorsAligned, Offset
  <2>3. ASSUME NEW i \in 1 .. Len(clients') PROVE fds'[L + i].fd = clients'[i].sockfd
    <3>1. CASE i = Len(clients) + 1
      BY <1>1, <1>6, <1>7, <1>8, <3>1
    <3>2. CASE i \in 1 .. Len(clients)
      <4>1. L + i \in 1 .. Len(fds)
        BY <1>1, <3>2
      <4>2. fds[L + i].fd = clients[i].sockfd
        BY <3>2 DEF Admit, VectorsAligned, Offset
      <4> QED
        BY <1>6, <1>7, <1>8, <3>2, <4>1, <4>2
    <3> QED
      BY <1>1, <1>8, <3>1, <3>2
  <2> QED
    BY <1>7, <2>1, <2>2, <2>3 DEF VectorsAligned, Offset
<1> QED
  BY <1>9, <1>10, <1>11, <1>12

\* What the thread touches while it serves entry idx: a Client of the vector.
LEMMA CurrentFacts ==
    ASSUME IInv, pc \in {"serve", "reply", "clear"}, idx <= Len(fds)
    PROVE  /\ idx \in Nat /\ idx > L
           /\ Len(clients) \in Nat /\ Len(fds) = L + Len(clients)
           /\ idx - L \in 1 .. Len(clients) /\ L + (idx - L) = idx
           /\ idx \in 1 .. Len(fds)
           /\ Current \in Client
<1> USE ListenerFacts DEF IInv
<1>1. idx \in Nat /\ idx > L /\ Len(clients) \in Nat
  BY DEF IndexInv, TypeOK
<1>2. Len(fds) = L + Len(clients)
  BY DEF VectorsAligned, Offset
<1>3. idx - L \in 1 .. Len(clients) /\ L + (idx - L) = idx /\ idx \in 1 .. Len(fds)
  BY <1>1, <1>2
<1>4. clients \in Seq(Client)
  BY DEF TypeOK
<1>5. Current \in Client
  BY <1>3, <1>4, ElementOfSeq DEF Current
<1> QED
  BY <1>1, <1>2, <1>3, <1>5

\* A failed call on the current Client, and what it leaves in the record.
LEMMA FailedCallStep ==
    ASSUME IInv, ReceiveFails \/ ReceiveNothing \/ ReplyFails
    PROVE  IInv'
<1> USE ListenerFacts DEF IInv
<1>1. pc \in {"serve", "reply"} /\ idx <= Len(fds)
  BY DEF ReceiveFails, ReceiveNothing, ReplyFails, Readable, IndexInv
<1>2. PICK d \in Client :
         /\ clients' = [clients EXCEPT ![idx - L] = d]
         /\ d.sockfd = Current.sockfd \/ d.sockfd = NoFd
  <2>1. AfterFailedReceive(Current) \in Client /\ AfterClose(Current) \in Client
    BY <1>1, CurrentFacts DEF AfterFailedReceive, AfterClose, Client
  <2>2. /\ AfterFailedReceive(Current).sockfd = Current.sockfd
        /\ AfterClose(Current).sockfd = NoFd
    BY <1>1, CurrentFacts DEF AfterFailedReceive, AfterClose, Client
  <2>3. \/ clients' = [clients EXCEPT ![idx - L] = AfterFailedReceive(Current)]
        \/ clients' = [clients EXCEPT ![idx - L] = AfterClose(Current)]
    BY DEF ReceiveFails, ReceiveNothing, ReplyFails, Current
  <2> QED
    BY <2>1, <2>2, <2>3
<1>3. /\ clients' \in Seq(Client) /\ Len(clients') = Len(clients)
      /\ \A i \in 1 .. Len(clients) :
            clients'[i] = IF i = idx - L THEN d ELSE clients[i]
  BY <1>1, <1>2, CurrentFacts, ExceptSeq DEF TypeOK
<1>4. /\ pc' = "clear" /\ idx' = idx /\ fds' = fds
      /\ sock' = Close(Current.sockfd)
  BY DEF ReceiveFails, ReceiveNothing, ReplyFails
<1>5. TypeOK'
  <2>1. SocketsTypeOK'
    BY <1>4, CloseType
       DEF ReceiveFails, ReceiveNothing, ReplyFails, TypeOK, SocketsTypeOK
  <2>2. CASE ReceiveFails \/ ReceiveNothing
    BY <1>3, <2>1, <2>2 DEF ReceiveFails, ReceiveNothing, TypeOK, history
  <2>3. CASE ReplyFails
    BY <1>3, <2>1, <2>3 DEF ReplyFails, TypeOK, history
  <2> QED
    BY <2>2, <2>3
<1>6. IndexInv' /\ ConnectionLimit'
  BY <1>1, <1>3, <1>4, CurrentFacts DEF IndexInv, ConnectionLimit
<1>7. VectorsAligned'
  <2>1. Len(fds') = L + Len(clients')
    BY <1>1, <1>3, <1>4, CurrentFacts
  <2>2. \A l \in 1 .. L : fds'[l].fd = ListenFds[l]
    BY <1>1, <1>4 DEF VectorsAligned, Offset
  <2>3. ASSUME NEW i \in 1 .. Len(clients')
        PROVE  \/ fds'[L + i].fd = clients'[i].sockfd
               \/ L + i = idx' /\ clients'[i].sockfd = NoFd
    <3>1. i \in 1 .. Len(clients) /\ fds[L + i].fd = clients[i].sockfd
      BY <1>1, <1>3 DEF VectorsAligned, Offset
    <3>2. CASE i = idx - L
      BY <1>1, <1>2, <1>3, <1>4, <3>1, <3>2, CurrentFacts DEF Current
    <3>3. CASE i # idx - L
      BY <1>3, <1>4, <3>1, <3>3
    <3> QED
      BY <3>2, <3>3
  <2> QED
    BY <1>4, <2>1, <2>2, <2>3 DEF VectorsAligned, Offset
<1> QED
  BY <1>5, <1>6, <1>7

LEMMA ReceiveStep ==
    ASSUME IInv, NEW req \in Inbox, NEW rest \in {"none", "part"}, Receive(req, rest)
    PROVE  IInv'
<1> USE ListenerFacts DEF IInv
<1>1. pc = "serve" /\ idx <= Len(fds)
  BY DEF Receive, Readable
<1>2. Current.sockfd \in FD /\ rest \in Inbox
  BY DEF Receive, CanReceive, Owned, Inbox
<1>3. SocketsTypeOK'
  BY <1>2 DEF Receive, TypeOK, SocketsTypeOK
<1>4. TypeOK'
  BY <1>3 DEF Receive, TypeOK, history
<1>5. IndexInv' /\ ConnectionLimit' /\ VectorsAligned'
  BY <1>1, CurrentFacts DEF Receive, IndexInv, ConnectionLimit, VectorsAligned, Offset
<1> QED
  BY <1>4, <1>5

LEMMA ReplyStep == ASSUME IInv, Reply PROVE IInv'
<1> USE ListenerFacts DEF IInv
<1>1. pc = "reply" /\ idx <= Len(fds)
  BY DEF Reply, IndexInv
<1>2. /\ fds' \in Seq(PollFd) /\ Len(fds') = Len(fds)
      /\ \A i \in 1 .. Len(fds) : fds'[i].fd = fds[i].fd
  <2>1. idx \in 1 .. Len(fds) /\ fds \in Seq(PollFd)
    BY <1>1, CurrentFacts DEF TypeOK
  <2>2. fds[idx] \in PollFd
    BY <2>1, ElementOfSeq
  <2>3. [fds[idx] EXCEPT !.revents = {}] \in PollFd
    BY <2>2 DEF PollFd
  <2>4. CASE fds' = [fds EXCEPT ![idx].revents = {}]
    BY <2>1, <2>2, <2>3, <2>4, ExceptSeq
  <2>5. CASE fds' = fds
    BY <2>1, <2>5
  <2> QED
    BY <2>4, <2>5 DEF Reply
<1>3. SocketsTypeOK'
  BY DEF Reply, TypeOK, SocketsTypeOK, kernel
<1>4. TypeOK'
  <2>1. idx' \in Nat /\ pc' \in {"serve", "clear"}
    BY DEF Reply, NextEntry, TypeOK
  <2>2. /\ clients' = clients /\ client' = client /\ newfd' = newfd /\ rc' = rc
        /\ exitFlag' = exitFlag /\ history' = history /\ keepAlive' \in BOOLEAN
    BY DEF Reply
  <2> QED
    BY <1>2, <1>3, <2>1, <2>2 DEF TypeOK, history
<1>5. IndexInv' /\ ConnectionLimit'
  BY <1>1, <1>2, CurrentFacts DEF Reply, NextEntry, IndexInv, ConnectionLimit
<1>6. VectorsAligned'
  BY <1>1, <1>2, SameDescriptors DEF Reply, NextEntry
<1> QED
  BY <1>4, <1>5, <1>6

LEMMA ClearStep == ASSUME IInv, Clear PROVE IInv'
<1> USE ListenerFacts DEF IInv
<1>1. pc = "clear" /\ idx <= Len(fds)
  BY DEF Clear, IndexInv
<1>2. NewClient \in Client /\ Entry(NoFd) \in PollFd
  BY DEF NewClient, Client, Entry, PollFd
<1>3. /\ clients' \in Seq(Client) /\ Len(clients') = Len(clients)
      /\ \A i \in 1 .. Len(clients) :
            clients'[i] = IF i = idx - L THEN NewClient ELSE clients[i]
  BY <1>1, <1>2, CurrentFacts, ExceptSeq DEF Clear, AfterClear, TypeOK
<1>4. /\ fds' \in Seq(PollFd) /\ Len(fds') = Len(fds)
      /\ \A i \in 1 .. Len(fds) : fds'[i] = IF i = idx THEN Entry(NoFd) ELSE fds[i]
  BY <1>1, <1>2, CurrentFacts, ExceptSeq DEF Clear, TypeOK
<1>5. TypeOK'
  <2>1. SocketsTypeOK'
    BY CloseType DEF Clear, TypeOK, SocketsTypeOK
  <2> QED
    <3>1. idx' \in Nat /\ pc' = "serve" /\ rc' = "success"
      BY DEF Clear, NextEntry, TypeOK
    <3>2. /\ client' = client /\ newfd' = newfd /\ keepAlive' \in BOOLEAN
          /\ exitFlag' = exitFlag /\ history' = history
      BY DEF Clear
    <3> QED
      BY <1>3, <1>4, <2>1, <3>1, <3>2 DEF TypeOK, history
<1>6. IndexInv' /\ ConnectionLimit'
  BY <1>1, <1>3, CurrentFacts DEF Clear, NextEntry, IndexInv, ConnectionLimit
<1>7. VectorsAligned'
  <2>1. Len(fds') = L + Len(clients')
    BY <1>1, <1>3, <1>4, CurrentFacts
  <2>2. ASSUME NEW l \in 1 .. L PROVE fds'[l].fd = ListenFds[l]
    <3>1. l \in 1 .. Len(fds) /\ l # idx
      BY <1>1, CurrentFacts
    <3>2. fds[l].fd = ListenFds[l]
      BY <1>1 DEF VectorsAligned, Offset
    <3> QED
      BY <1>4, <3>1, <3>2
  <2>3. ASSUME NEW i \in 1 .. Len(clients')
        PROVE  fds'[L + i].fd = clients'[i].sockfd
    <3>1. i \in 1 .. Len(clients) /\ L + i \in 1 .. Len(fds)
      BY <1>1, <1>3, CurrentFacts
    <3>2. CASE i = idx - L
      <4>1. L + i = idx
        BY <1>1, <3>2, CurrentFacts
      <4> QED
        BY <1>3, <1>4, <3>1, <3>2, <4>1 DEF Entry, NewClient
    <3>3. CASE i # idx - L
      <4>1. L + i # idx
        BY <1>1, <3>1, <3>3, CurrentFacts
      <4>2. fds[L + i].fd = clients[i].sockfd
        BY <1>1, <3>1, <4>1 DEF VectorsAligned, Offset
      <4> QED
        BY <1>3, <1>4, <3>1, <3>3, <4>1, <4>2
    <3> QED
      BY <3>2, <3>3
  <2> QED
    BY <2>1, <2>2, <2>3 DEF Clear, NextEntry, VectorsAligned, Offset
<1> QED
  BY <1>5, <1>6, <1>7

LEMMA PruneStep == ASSUME IInv, Prune PROVE IInv'
<1> USE ListenerFacts DEF IInv
<1>1. /\ pc = "prune" /\ idx \in Nat /\ idx <= Len(fds)
      /\ Len(clients) \in Nat /\ Len(fds) = L + Len(clients)
      /\ pc' = "prune"
  BY DEF Prune, TypeOK, VectorsAligned, Offset
<1>2. SocketsTypeOK'
  BY DEF Prune, TypeOK, SocketsTypeOK, kernel
<1>3. CASE fds[idx].fd # NoFd
  <2>1. fds' = fds /\ clients' = clients /\ idx' = idx + 1
    BY <1>3 DEF Prune
  <2>2. TypeOK'
    BY <1>2, <2>1 DEF Prune, TypeOK, history
  <2>3. IndexInv' /\ ConnectionLimit' /\ VectorsAligned'
    BY <1>1, <1>3, <2>1 DEF IndexInv, ConnectionLimit, VectorsAligned, Offset
  <2> QED
    BY <2>2, <2>3
<1>4. CASE fds[idx].fd = NoFd /\ idx \in 1 .. Len(fds)
  <2>1. idx > L /\ idx - L \in 1 .. Len(clients)
    BY <1>1, <1>4 DEF VectorsAligned, Offset
  <2>2. /\ fds' = RemoveAt(fds, idx) /\ clients' = RemoveAt(clients, idx - L)
        /\ idx' = idx
    BY <1>4 DEF Prune
  <2>3. /\ fds' \in Seq(PollFd) /\ Len(fds') = Len(fds) - 1
        /\ \A j \in 1 .. Len(fds) - 1 :
              fds'[j] = IF j < idx THEN fds[j] ELSE fds[j + 1]
    <3>1. fds \in Seq(PollFd)
      BY DEF TypeOK
    <3> QED
      BY <1>4, <2>2, <3>1, RemoveAtFacts
  <2>4. /\ clients' \in Seq(Client) /\ Len(clients') = Len(clients) - 1
        /\ \A j \in 1 .. Len(clients) - 1 :
              clients'[j] = IF j < idx - L THEN clients[j] ELSE clients[j + 1]
    <3>1. clients \in Seq(Client)
      BY DEF TypeOK
    <3> QED
      BY <2>1, <2>2, <3>1, RemoveAtFacts
  <2>5. TypeOK'
    BY <1>2, <2>2, <2>3, <2>4 DEF Prune, TypeOK, history
  <2>6. IndexInv'
    <3>1. ASSUME NEW j \in 1 .. Len(fds'), j < idx' PROVE fds'[j].fd # NoFd
      <4>1. idx' = idx /\ Len(fds') = Len(fds) - 1
        BY <2>2, <2>3
      <4>2. j \in 1 .. Len(fds) - 1 /\ j \in 1 .. Len(fds) /\ j < idx
        BY <1>1, <3>1, <4>1
      <4>3. fds'[j] = fds[j]
        BY <2>3, <4>2
      <4> QED
        BY <1>1, <4>2, <4>3 DEF IndexInv
    <3> QED
      BY <1>1, <1>4, <2>2, <3>1 DEF IndexInv
  <2>7. ConnectionLimit'
    BY <1>1, <2>4, MaxConnectionsAssumption DEF ConnectionLimit
  <2>8. VectorsAligned'
    <3>1. Len(fds') = L + Len(clients')
      BY <1>1, <2>3, <2>4
    <3>2. ASSUME NEW l \in 1 .. L PROVE fds'[l].fd = ListenFds[l]
      <4>1. fds'[l] = fds[l]
        BY <1>1, <2>1, <2>3
      <4> QED
        BY <1>1, <4>1 DEF VectorsAligned, Offset
    <3>3. ASSUME NEW i \in 1 .. Len(clients')
          PROVE  fds'[L + i].fd = clients'[i].sockfd
      <4>0. /\ i \in 1 .. Len(clients) - 1 /\ L + i \in 1 .. Len(fds) - 1
            /\ L + (i + 1) = (L + i) + 1
        BY <1>1, <2>4
      <4>1. CASE i < idx - L
        <5>1. L + i < idx
          BY <1>1, <4>0, <4>1
        <5>2. fds'[L + i] = fds[L + i] /\ clients'[i] = clients[i]
          BY <2>3, <2>4, <4>0, <4>1, <5>1
        <5>3. fds[L + i].fd = clients[i].sockfd
          BY <1>1, <4>0 DEF VectorsAligned, Offset
        <5> QED
          BY <5>2, <5>3
      <4>2. CASE ~(i < idx - L)
        <5>1. ~(L + i < idx) /\ i + 1 \in 1 .. Len(clients)
          BY <1>1, <4>0, <4>2
        <5>2. fds'[L + i] = fds[L + (i + 1)] /\ clients'[i] = clients[i + 1]
          BY <2>3, <2>4, <4>0, <4>2, <5>1
        <5>3. fds[L + (i + 1)].fd = clients[i + 1].sockfd
          BY <1>1, <5>1 DEF VectorsAligned, Offset
        <5> QED
          BY <5>2, <5>3
      <4> QED
        BY <4>1, <4>2
    <3> QED
      BY <1>1, <3>1, <3>2, <3>3 DEF VectorsAligned, Offset
  <2> QED
    BY <2>5, <2>6, <2>7, <2>8
<1>5. idx \in 1 .. Len(fds)
  BY <1>1 DEF IndexInv
<1> QED
  BY <1>3, <1>4, <1>5

LEMMA DrainStep ==
    ASSUME IInv, DropListeners \/ DrainClient \/ DrainDone
    PROVE  IInv'
<1> USE ListenerFacts DEF IInv
<1>1. Len(fds) \in Nat /\ Len(clients) \in Nat
  BY DEF TypeOK
<1>2. CASE DropListeners
  <2>1. Len(fds) = L + Len(clients)
    BY <1>2 DEF DropListeners, VectorsAligned, Offset
  <2>2. /\ fds' \in Seq(PollFd) /\ Len(fds') = Len(clients)
        /\ \A i \in 1 .. Len(clients) : fds'[i] = fds[L + i]
    <3>1. \A i \in L + 1 .. Len(fds) : fds[i] \in PollFd
      BY <1>1, ElementOfSeq DEF TypeOK
    <3>2. /\ SubSeq(fds, L + 1, Len(fds)) \in Seq(PollFd)
          /\ Len(SubSeq(fds, L + 1, Len(fds))) = Len(clients)
      BY <1>1, <2>1, <3>1, SubSeqProperties
    <3>3. ASSUME NEW i \in 1 .. Len(clients)
          PROVE  SubSeq(fds, L + 1, Len(fds))[i] = fds[L + i]
      <4>1. i \in 1 .. Len(fds) - (L + 1) + 1 /\ L + 1 + i - 1 = L + i
        BY <1>1, <2>1
      <4> QED
        BY <1>1, <3>1, <4>1, SubSeqProperties
    <3> QED
      BY <1>2, <3>2, <3>3 DEF DropListeners
  <2>3. SocketsTypeOK'
    BY <1>2 DEF DropListeners, TypeOK, SocketsTypeOK, kernel
  <2>4. TypeOK'
    BY <1>2, <2>2, <2>3 DEF DropListeners, TypeOK, history
  <2>5. IndexInv' /\ ConnectionLimit'
    BY <1>2 DEF DropListeners, IndexInv, ConnectionLimit
  <2>6. VectorsAligned'
    BY <1>1, <1>2, <2>2 DEF DropListeners, VectorsAligned, Offset
  <2> QED
    BY <2>4, <2>5, <2>6
<1>3. CASE DrainClient
  <2>1. Len(fds) = Len(clients) /\ Len(fds) \in 1 .. Len(clients)
    BY <1>1, <1>3, EmptySeq DEF DrainClient, TypeOK, VectorsAligned, Offset
  <2>2. /\ fds' \in Seq(PollFd) /\ Len(fds') = Len(fds) - 1
        /\ \A i \in 1 .. Len(fds) - 1 : fds'[i] = fds[i]
    <3>1. \A i \in 1 .. Len(fds) - 1 : fds[i] \in PollFd
      BY <1>1, ElementOfSeq DEF TypeOK
    <3> QED
      BY <1>1, <1>3, <2>1, <3>1, SubSeqProperties DEF DrainClient
  <2>3. /\ clients' \in Seq(Client) /\ Len(clients') = Len(clients) - 1
        /\ \A i \in 1 .. Len(clients) - 1 : clients'[i] = clients[i]
    <3>1. clients \in Seq(Client)
      BY DEF TypeOK
    <3>2. /\ RemoveAt(clients, Len(fds)) \in Seq(Client)
          /\ Len(RemoveAt(clients, Len(fds))) = Len(clients) - 1
          /\ \A i \in 1 .. Len(clients) - 1 :
                RemoveAt(clients, Len(fds))[i] =
                    IF i < Len(fds) THEN clients[i] ELSE clients[i + 1]
      BY <2>1, <3>1, RemoveAtFacts
    <3>3. \A i \in 1 .. Len(clients) - 1 : i < Len(fds)
      BY <1>1, <2>1
    <3>4. clients' = RemoveAt(clients, Len(fds))
      BY <1>3 DEF DrainClient
    <3> QED
      BY <3>2, <3>3, <3>4
  <2>4. SocketsTypeOK'
    BY <1>3, CloseType DEF DrainClient, TypeOK, SocketsTypeOK
  <2>5. TypeOK'
    BY <1>3, <2>2, <2>3, <2>4 DEF DrainClient, TypeOK, history
  <2>6. IndexInv' /\ ConnectionLimit'
    BY <1>1, <1>3, <2>3, MaxConnectionsAssumption
       DEF DrainClient, IndexInv, ConnectionLimit
  <2>7. VectorsAligned'
    <3>1. pc = "draining" /\ pc' = "draining"
      BY <1>3 DEF DrainClient
    <3>2. ASSUME NEW i \in 1 .. Len(clients') PROVE fds'[i].fd = clients'[i].sockfd
      <4>1. i \in 1 .. Len(clients) /\ i \in 1 .. Len(clients) - 1 /\ i = 0 + i
        BY <1>1, <2>3
      <4>2. fds[i].fd = clients[i].sockfd
        BY <3>1, <4>1 DEF VectorsAligned, Offset
      <4> QED
        BY <2>1, <2>2, <2>3, <4>1, <4>2
    <3>3. Len(fds') = Len(clients')
      BY <1>1, <2>1, <2>2, <2>3
    <3>4. \A i \in 1 .. Len(clients') : 0 + i = i
      BY <1>1, <2>3
    <3>5. Offset' = 0 /\ Len(clients') \in Nat
      BY <1>1, <2>1, <2>3, <3>1 DEF Offset
    <3> QED
      BY <3>1, <3>2, <3>3, <3>4, <3>5 DEF VectorsAligned
  <2> QED
    BY <2>5, <2>6, <2>7
<1>4. CASE DrainDone
  <2>1. SocketsTypeOK'
    BY <1>4, SocketsAssumption DEF DrainDone, TypeOK, SocketsTypeOK
  <2>2. TypeOK'
    BY <1>4, <2>1 DEF DrainDone, TypeOK, history
  <2>3. IndexInv' /\ ConnectionLimit' /\ VectorsAligned'
    BY <1>4 DEF DrainDone, IndexInv, ConnectionLimit, VectorsAligned, Offset
  <2> QED
    BY <2>2, <2>3
<1> QED
  BY <1>2, <1>3, <1>4

----------------------------------------------------------------------------

\* Every step of the specification preserves the inductive invariant.
LEMMA NextIInv == IInv /\ [Next]_vars => IInv'
<1> SUFFICES ASSUME IInv, [Next]_vars PROVE IInv'
  OBVIOUS
<1>1. CASE HandlerStep
  <2>1. CASE StartServer
    BY <2>1, StartServerStep
  <2>2. CASE StartServerFails \/ PollFails \/ ClearAborts
    BY <2>2, DiesStep DEF StartServerFails, PollFails, ClearAborts
  <2>3. CASE \/ PollStop \/ SkipAccept \/ Handshake \/ Refuse
             \/ Kill \/ PassOver \/ ServeDone \/ PruneDone
    BY <2>3, QuietStep
  <2>4. CASE PollTimeout \/ PollReady
    BY <2>4, PollStep
  <2>5. CASE \/ AcceptFails \/ HandshakeFails \/ ClearFailed \/ SetSendTimeout
             \/ \E f \in FD : Accept(f)
    BY <2>5, AcceptStep
  <2>6. CASE Admit
    BY <2>6, AdmitStep
  <2>7. CASE ReceiveFails \/ ReceiveNothing \/ ReplyFails
    BY <2>7, FailedCallStep
  <2>8. CASE \E req \in Inbox, rest \in {"none", "part"} : Receive(req, rest)
    BY <2>8, ReceiveStep
  <2>9. CASE Reply
    BY <2>9, ReplyStep
  <2>10. CASE Clear
    BY <2>10, ClearStep
  <2>11. CASE Prune
    BY <2>11, PruneStep
  <2>12. CASE DropListeners \/ DrainClient \/ DrainDone
    BY <2>12, DrainStep
  <2> QED
    BY <1>1, <2>1, <2>2, <2>3, <2>4, <2>5, <2>6, <2>7, <2>8, <2>9, <2>10, <2>11,
       <2>12 DEF HandlerStep
<1>2. CASE Environment /\ UNCHANGED <<handler, exitFlag>>
  BY <1>2, EnvironmentStep
<1>3. CASE RequestExit
  <2>1. TypeOK'
    BY <1>3 DEF RequestExit, IInv, TypeOK, SocketsTypeOK, kernel, handler,
       history
  <2>2. IndexInv' /\ VectorsAligned' /\ ConnectionLimit'
    BY <1>3 DEF RequestExit, IInv, IndexInv, VectorsAligned, ConnectionLimit,
       Offset, handler
  <2> QED
    BY <2>1, <2>2 DEF IInv
<1>4. CASE UNCHANGED vars
  <2>1. TypeOK'
    BY <1>4 DEF vars, IInv, TypeOK, SocketsTypeOK, kernel, handler, history
  <2>2. IndexInv' /\ VectorsAligned' /\ ConnectionLimit'
    BY <1>4 DEF vars, IInv, IndexInv, VectorsAligned, ConnectionLimit, Offset,
       handler
  <2> QED
    BY <2>1, <2>2 DEF IInv
<1> QED
  BY <1>1, <1>2, <1>3, <1>4 DEF Next, Finished

\* IInv holds in every reachable state, whatever fails and whoever interferes.
THEOREM Invariance == Spec => []IInv
<1>1. Init => IInv
  BY InitIInv
<1>2. IInv /\ [Next]_vars => IInv'
  BY NextIInv
<1> QED
  BY <1>1, <1>2, PTL DEF Spec

\* Type correctness of the handler and of the descriptor table.
THEOREM TypeCorrect == Spec => []TypeOK
<1>1. IInv => TypeOK
  BY DEF IInv
<1> QED
  BY <1>1, Invariance, PTL

\* The poll vector and the client vector never get out of step: what poll()
\* reports on entry L + i is served by client i, through accepts, failures,
\* removals and the shutdown loop (MetricServerHandler.cpp 424-603).
THEOREM Alignment == Spec => []VectorsAligned
<1>1. IInv => VectorsAligned
  BY DEF IInv
<1> QED
  BY <1>1, Invariance, PTL

\* With any number of descriptors and any limit, the two listeners together
\* never admit more than MaxConnections + 1 connections (lines 420 and 451): one
\* more than src/server/README.md 15 says the server handles at once.
THEOREM Limit == Spec => []ConnectionLimit
<1>1. IInv => ConnectionLimit
  BY DEF IInv
<1> QED
  BY <1>1, Invariance, PTL
=============================================================================
