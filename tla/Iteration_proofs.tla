--------------------------- MODULE Iteration_proofs ---------------------------
(***************************************************************************)
(* One iteration of the poll loop, for every number of connections: what   *)
(* happens in it to a connection it has accepted itself, which is nothing, *)
(* and that it ends, and with the exit flag set the handler, after a       *)
(* number of steps nobody else has a say in.                               *)
(***************************************************************************)
EXTENDS MetricServerHandler_proofs

----------------------------------------------------------------------------
(* Newcomers.  poll() has not reported on them, their revents are 0, and     *)
(* line 552 takes silence for a hang-up: only newfd and newfd_https keep     *)
(* them from being closed, and each of these knows the connections of one    *)
(* listener alone.                                                           *)

Accepting == {"accept", "sendTimeout", "handshake", "clearFailed", "admit"}

Serving == {"serve", "reply", "clear"}

\* Entry j was accepted in this iteration, from listener l.
Newcomer(j, l) ==
    /\ fds[j].revents = {} /\ fds[j].fd = newfd[l]
    /\ clients[j - L].useSSL = (l = 2)

\* Behind the entries poll() has seen there are newcomers only.  While a
\* listener has its turn they are those of the listeners before it.
NInv ==
    /\ pc \in Accepting \cup Serving => npolled >= L /\ npolled <= Len(fds)
    /\ pc \in Accepting =>
          \A j \in 1 .. Len(fds) : j > npolled => idx = 2 /\ Newcomer(j, 1)
    /\ pc \in Serving =>
          \A j \in 1 .. Len(fds) : j > npolled => \E l \in 1 .. L : Newcomer(j, l)
    /\ pc = "sendTimeout" => ~client.useSSL
    /\ pc = "handshake" => idx = 2
    /\ pc = "admit" => client.useSSL = (idx = 2)
    /\ pc \in {"reply", "clear"} => idx <= npolled

\* Outside the iteration nothing is claimed.
LEMMA OutsideStep ==
    ASSUME pc' \notin Accepting \cup Serving
    PROVE  NInv'
  BY DEF NInv, Accepting, Serving

LEMMA SameStep ==
    ASSUME NInv,
           UNCHANGED <<pc, idx, fds, clients, client, newfd, npolled>>
    PROVE  NInv'
  BY DEF NInv, Newcomer

\* An iteration begins: poll() has seen every entry.
LEMMA PollReadyNewcomers == ASSUME IInv, PollReady PROVE NInv'
<1>1. Len(fds') = Len(fds) /\ Len(fds) \in Nat
  BY PolledFacts DEF PollReady, IInv, TypeOK
<1>2. Len(fds) >= L
  BY ListenerFacts DEF PollReady, IInv, TypeOK, VectorsAligned, Offset
<1> QED
  BY <1>1, <1>2, ListenerFacts DEF PollReady, NInv, Accepting, Serving

\* The next listener has its turn; the entries of clients are as they were.
LEMMA TurnStep ==
    ASSUME IInv, NInv, pc \in Accepting, NextListener,
           clients' = clients, newfd' = newfd, npolled' = npolled,
           \/ fds' = fds
           \/ fds' = [fds EXCEPT ![1].revents = {}]
    PROVE  NInv'
<1> USE ListenerFacts DEF IInv
<1>1. Len(fds') = Len(fds) /\ idx \in 1 .. L /\ npolled \in Nat /\ npolled >= L
  BY DEF TypeOK, IndexInv, NInv, Accepting
<1>2. ASSUME NEW j \in 1 .. Len(fds), j > npolled PROVE fds'[j] = fds[j]
  BY <1>1, <1>2 DEF TypeOK
<1>3. ASSUME NEW j \in 1 .. Len(fds'), j > npolled'
      PROVE  idx = 2 /\ Newcomer(j, 1) /\ Newcomer(j, 1)'
  BY <1>1, <1>2, <1>3 DEF NInv, Newcomer
<1>4. CASE idx < L
  BY <1>1, <1>3, <1>4 DEF NextListener, NInv, Accepting, Serving
<1>5. CASE ~(idx < L)
  BY <1>1, <1>3, <1>5 DEF NextListener, NInv, Accepting, Serving
<1> QED
  BY <1>4, <1>5

LEMMA AcceptingStep ==
    ASSUME IInv, NInv,
           \/ SkipAccept \/ AcceptFails \/ \E f \in FD : Accept(f)
           \/ SetSendTimeout \/ Handshake \/ HandshakeFails \/ ClearFailed
    PROVE  NInv'
<1>1. CASE SkipAccept
  BY <1>1, TurnStep DEF SkipAccept, Accepting, history
<1>2. CASE AcceptFails
  BY <1>2, TurnStep DEF AcceptFails, Accepting, history
<1>3. CASE ClearFailed
  BY <1>3, TurnStep DEF ClearFailed, Accepting, history
<1>4. ASSUME NEW f \in FD, Accept(f) PROVE NInv'
  <2>1. idx \in 1 .. L
    BY <1>4 DEF Accept, IInv, IndexInv
  <2>2. /\ pc = "accept" /\ UNCHANGED <<idx, fds, clients, newfd, npolled>>
        /\ client'.useSSL = FALSE /\ pc' \in {"sendTimeout", Accepted}
    BY <1>4 DEF Accept, AfterAccept, NewClient
  <2>3. /\ pc \in Accepting /\ pc' \in {"sendTimeout", "handshake", "admit"}
        /\ pc' = "handshake" => idx = 2
    BY <2>1, <2>2 DEF Accepted, Accepting
  <2>4. \A j \in 1 .. Len(fds), l \in 1 .. L : Newcomer(j, l)' <=> Newcomer(j, l)
    BY <2>2 DEF Newcomer
  <2>5. /\ pc' \notin Serving
        /\ pc' = "admit" => idx # 2 /\ client'.useSSL = (idx = 2)
    BY <2>2 DEF Accepted, Serving
  <2>6. L \in 1 .. 2
    BY ListenerFacts
  <2> QED
    BY <2>1, <2>2, <2>3, <2>4, <2>5, <2>6 DEF NInv, Accepting, Serving
<1>5. CASE Handshake
  <2>1. client'.useSSL = TRUE
    BY <1>5 DEF Handshake, AfterHandshake, IInv, TypeOK, Client
  <2> QED
    BY <1>5, <2>1 DEF Handshake, NInv, Newcomer, Accepting, Serving, history
<1>6. CASE HandshakeFails
  BY <1>6 DEF HandshakeFails, NInv, Newcomer, Accepting, Serving, history
<1>7. CASE SetSendTimeout
  <2>1. /\ pc = "sendTimeout" /\ pc' = Accepted
        /\ UNCHANGED <<idx, fds, clients, client, newfd, npolled>>
    BY <1>7 DEF SetSendTimeout, history
  <2>2. client.useSSL = FALSE
    BY <2>1 DEF NInv, IInv, TypeOK, Client
  <2>3. /\ pc' \in {"handshake", "admit"}
        /\ pc' = "handshake" => idx = 2
        /\ pc' = "admit" => client'.useSSL = (idx = 2)
    BY <2>1, <2>2 DEF Accepted
  <2>4. \A j \in 1 .. Len(fds), l \in 1 .. L : Newcomer(j, l)' <=> Newcomer(j, l)
    BY <2>1 DEF Newcomer
  <2>5. L \in 1 .. 2
    BY ListenerFacts
  <2> QED
    BY <2>1, <2>3, <2>4, <2>5 DEF NInv, Accepting, Serving
<1> QED
  BY <1>1, <1>2, <1>3, <1>4, <1>5, <1>6, <1>7

\* One newcomer more, in the place of the listener whose turn it was.
LEMMA AdmitNewcomer == ASSUME IInv, NInv, Admit PROVE NInv'
<1> USE ListenerFacts DEF IInv
<1>1. /\ idx \in 1 .. L /\ Len(fds) \in Nat /\ Len(clients) \in Nat
      /\ Len(fds) = L + Len(clients) /\ npolled \in Nat /\ npolled >= L
      /\ newfd \in [1 .. L -> FD \cup {NoFd}]
      /\ fds \in Seq(PollFd) /\ clients \in Seq(Client) /\ client \in Client
  BY DEF Admit, IndexInv, TypeOK, VectorsAligned, Offset, NInv, Accepting
<1> DEFINE longer == Append(fds, Entry(client.sockfd))
<1>2. Entry(client.sockfd) \in PollFd /\ Entry(client.sockfd).revents = {}
      /\ Entry(client.sockfd).fd = client.sockfd
  BY <1>1 DEF Entry, PollFd, Client
<1>3. /\ longer \in Seq(PollFd) /\ Len(longer) = Len(fds) + 1
      /\ longer[Len(fds) + 1] = Entry(client.sockfd)
      /\ \A j \in 1 .. Len(fds) : longer[j] = fds[j]
  BY <1>1, <1>2
<1>4. fds' = [longer EXCEPT ![idx].revents = {}]
  BY DEF Admit
<1> HIDE DEF longer
<1>5. /\ Len(fds') = Len(fds) + 1
      /\ \A j \in 1 .. Len(fds) + 1 : j > npolled => fds'[j] = longer[j]
  BY <1>1, <1>3, <1>4
<1>6. /\ clients'[Len(clients) + 1] = client
      /\ \A i \in 1 .. Len(clients) : clients'[i] = clients[i]
  BY <1>1 DEF Admit
<1>7. /\ newfd'[idx] = client.sockfd
      /\ \A l \in 1 .. L : l # idx => newfd'[l] = newfd[l]
  BY <1>1 DEF Admit
<1>8. ASSUME NEW j \in 1 .. Len(fds), j > npolled
      PROVE  idx = 2 /\ Newcomer(j, 1)'
  <2>1. idx = 2 /\ Newcomer(j, 1)
    BY <1>8 DEF Admit, NInv, Accepting
  <2>2. fds'[j] = fds[j] /\ newfd'[1] = newfd[1]
    BY <1>1, <1>3, <1>5, <1>7, <1>8, <2>1
  <2>3. j - L \in 1 .. Len(clients)
    BY <1>1, <1>8
  <2> QED
    BY <1>6, <2>1, <2>2, <2>3 DEF Newcomer
<1>9. ASSUME NEW j \in 1 .. Len(fds'), j = Len(fds) + 1, NEW l \in 1 .. L, l = idx
      PROVE  Newcomer(j, l)'
  <2>1. npolled <= Len(fds)
    BY DEF Admit, NInv, Accepting
  <2>2. fds'[j] = Entry(client.sockfd)
    BY <1>1, <1>3, <1>5, <1>9, <2>1
  <2>3. j - L = Len(clients) + 1
    BY <1>1, <1>9
  <2>4. client.useSSL = (l = 2)
    BY <1>9 DEF Admit, NInv
  <2> QED
    BY <1>2, <1>6, <1>7, <1>9, <2>2, <2>3, <2>4 DEF Newcomer
<1>10. npolled' = npolled /\ npolled' <= Len(fds')
  BY <1>1, <1>5 DEF Admit, NInv, Accepting, history
<1>11. ASSUME NEW j \in 1 .. Len(fds'), j > npolled
       PROVE  j \in 1 .. Len(fds) \/ j = Len(fds) + 1
  BY <1>1, <1>5
<1>12. CASE idx < L
  <2>1. idx' = 2 /\ pc' = "accept" /\ idx = 1
    BY <1>1, <1>12 DEF Admit, NextListener
  <2>2. ASSUME NEW j \in 1 .. Len(fds'), j > npolled PROVE Newcomer(j, 1)'
    <3>1. CASE j \in 1 .. Len(fds)
      BY <1>8, <2>1, <2>2, <3>1
    <3>2. CASE j = Len(fds) + 1
      BY <1>1, <1>9, <2>1, <3>2
    <3> QED
      BY <1>11, <2>2, <3>1, <3>2
  <2> QED
    BY <1>1, <1>10, <2>1, <2>2 DEF NInv, Accepting, Serving
<1>13. CASE ~(idx < L)
  <2>1. pc' = "serve" /\ idx = L
    BY <1>1, <1>13 DEF Admit, NextListener
  <2>2. ASSUME NEW j \in 1 .. Len(fds'), j > npolled
        PROVE  \E l \in 1 .. L : Newcomer(j, l)'
    <3>1. CASE j \in 1 .. Len(fds)
      BY <1>1, <1>8, <2>2, <3>1
    <3>2. CASE j = Len(fds) + 1
      BY <1>1, <1>9, <3>2
    <3> QED
      BY <1>11, <2>2, <3>1, <3>2
  <2> QED
    BY <1>1, <1>10, <2>1, <2>2 DEF NInv, Accepting, Serving
<1> QED
  BY <1>12, <1>13

\* Serving an entry poll() has seen changes that entry and its client alone.
LEMMA ServedEntry ==
    ASSUME IInv, NInv, pc \in Serving, pc' \in Serving,
           newfd' = newfd, npolled' = npolled, Len(fds') = Len(fds),
           \A j \in 1 .. Len(fds) : j > npolled =>
              fds'[j] = fds[j] /\ clients'[j - L] = clients[j - L],
           pc' \in {"reply", "clear"} => idx' <= npolled
    PROVE  NInv'
  BY ListenerFacts DEF NInv, Newcomer, Accepting, Serving

\* What is read or closed has been polled: a newcomer's revents are empty, and
\* the newfd of its own listener is its descriptor.
LEMMA OnlyPolled ==
    ASSUME IInv, NInv, pc = "serve", idx <= Len(fds), Readable \/ Kill
    PROVE  idx <= npolled
<1> SUFFICES ASSUME idx > npolled PROVE FALSE
  BY DEF IInv, TypeOK
<1>1. idx \in 1 .. Len(fds)
  BY CurrentFacts DEF Serving
<1>2. PICK l \in 1 .. L : Newcomer(idx, l)
  BY <1>1 DEF NInv, Serving
<1>3. ~Readable
  BY <1>2 DEF Readable, Newcomer
<1>4. ~Closable
  <2>1. fds[idx].revents = {} /\ fds[idx].fd = newfd[l] /\ {} # {"HUP"}
    BY <1>2 DEF Newcomer
  <2>2. Current.useSSL = (l = 2)
    BY <1>2, Zenon DEF Newcomer, Current
  <2>3. CASE l = 2
    <3>1. L = 2
      BY <2>3, ListenerFacts
    <3>2. Current.useSSL
      BY <2>2, <2>3, Zenon
    <3> QED
      BY <2>1, <2>3, <3>1, <3>2 DEF Closable
  <2>4. CASE l = 1
    <3>1. ~(l = 2)
      BY <2>4
    <3>2. ~Current.useSSL
      BY <2>2, <3>1, Zenon
    <3> QED
      BY <2>1, <2>4, <3>2 DEF Closable
  <2> QED
    BY <2>3, <2>4, ListenerFacts
<1> QED
  BY <1>3, <1>4 DEF Kill

LEMMA ServingStep ==
    ASSUME IInv, NInv,
           \/ ReceiveFails \/ ReceiveNothing
           \/ \E req \in Inbox, rest \in {"none", "part"} : Receive(req, rest)
           \/ Reply \/ ReplyFails
           \/ Kill \/ PassOver \/ Clear
    PROVE  NInv'
<1> USE ListenerFacts
<1>1. /\ fds \in Seq(PollFd) /\ clients \in Seq(Client)
      /\ Len(fds) \in Nat /\ Len(clients) \in Nat /\ idx \in Nat /\ npolled \in Nat
  BY DEF IInv, TypeOK
<1>2. CASE ReceiveFails \/ ReceiveNothing
  <2>1. idx <= npolled /\ pc = "serve"
    BY <1>2, OnlyPolled DEF ReceiveFails, ReceiveNothing, Readable
  <2>2. ASSUME NEW j \in 1 .. Len(fds), j > npolled
        PROVE  fds'[j] = fds[j] /\ clients'[j - L] = clients[j - L]
    <3>1. fds' = fds /\ \E c : clients' = [clients EXCEPT ![idx - L] = c]
      BY <1>2 DEF ReceiveFails, ReceiveNothing
    <3>2. j - L # idx - L /\ j - L \in 1 .. Len(clients)
      BY <1>1, <2>1, <2>2 DEF IInv, NInv, VectorsAligned, Offset, Serving
    <3> QED
      BY <1>1, <3>1, <3>2
  <2> QED
    BY <1>2, <2>1, <2>2, ServedEntry DEF ReceiveFails, ReceiveNothing, Serving, history
<1>3. ASSUME NEW req \in Inbox, NEW rest \in {"none", "part"}, Receive(req, rest)
      PROVE  NInv'
  <2>1. idx <= npolled /\ pc = "serve"
    BY <1>3, OnlyPolled DEF Receive, Readable
  <2> QED
    BY <1>3, <2>1, ServedEntry DEF Receive, Serving, history
<1>4. CASE Reply
  <2>1. idx <= npolled
    BY <1>4 DEF Reply, NInv
  <2>2. /\ Len(fds') = Len(fds)
        /\ \A j \in 1 .. Len(fds) : j > npolled => fds'[j] = fds[j]
    BY <1>1, <1>4, <2>1 DEF Reply
  <2> QED
    BY <1>4, <2>1, <2>2, ServedEntry DEF Reply, NextEntry, Serving, history
<1>5. CASE ReplyFails
  <2>1. idx <= npolled
    BY <1>5 DEF ReplyFails, NInv
  <2>2. ASSUME NEW j \in 1 .. Len(fds), j > npolled
        PROVE  clients'[j - L] = clients[j - L]
    BY <1>1, <1>5, <2>1, <2>2 DEF ReplyFails
  <2> QED
    BY <1>5, <2>1, <2>2, ServedEntry DEF ReplyFails, Serving, history
<1>6. CASE Kill
  <2>1. idx <= npolled
    BY <1>6, OnlyPolled DEF Kill
  <2> QED
    BY <1>6, <2>1, ServedEntry DEF Kill, Serving, history
<1>7. CASE PassOver
  BY <1>7, ServedEntry DEF PassOver, NextEntry, Serving, history
<1>8. CASE Clear
  <2>1. idx <= npolled
    BY <1>8 DEF Clear, NInv
  <2>2. /\ Len(fds') = Len(fds)
        /\ \A j \in 1 .. Len(fds) : j > npolled =>
              fds'[j] = fds[j] /\ clients'[j - L] = clients[j - L]
    BY <1>1, <1>8, <2>1 DEF Clear
  <2> QED
    BY <1>8, <2>1, <2>2, ServedEntry DEF Clear, NextEntry, Serving, history
<1> QED
  BY <1>2, <1>3, <1>4, <1>5, <1>6, <1>7, <1>8

LEMMA NextNInv == IInv /\ NInv /\ [Next]_vars => NInv'
<1> SUFFICES ASSUME IInv, NInv, [Next]_vars PROVE NInv'
  OBVIOUS
<1>1. CASE HandlerStep
  <2>1. CASE \/ StartServer \/ StartServerFails
             \/ PollStop \/ PollTimeout \/ PollFails
             \/ Refuse \/ ClearAborts \/ ServeDone
             \/ Prune \/ PruneDone
             \/ DropListeners \/ DrainClient \/ DrainDone
    <3>1. pc' \notin Accepting \cup Serving
      BY <2>1 DEF StartServer, StartServerFails, PollStop, PollTimeout, PollFails,
         Refuse, ClearAborts, ServeDone, Prune, PruneDone, DropListeners,
         DrainClient, DrainDone, Dies, Accepting, Serving
    <3> QED
      BY <3>1, OutsideStep
  <2>2. CASE PollReady
    BY <2>2, PollReadyNewcomers
  <2>3. CASE \/ SkipAccept \/ AcceptFails \/ \E f \in FD : Accept(f)
             \/ SetSendTimeout \/ Handshake \/ HandshakeFails \/ ClearFailed
    BY <2>3, AcceptingStep
  <2>4. CASE Admit
    BY <2>4, AdmitNewcomer
  <2>5. CASE \/ ReceiveFails \/ ReceiveNothing
             \/ \E req \in Inbox, rest \in {"none", "part"} : Receive(req, rest)
             \/ Reply \/ ReplyFails
             \/ Kill \/ PassOver \/ Clear
    BY <2>5, ServingStep
  <2> QED
    BY <1>1, <2>1, <2>2, <2>3, <2>4, <2>5 DEF HandlerStep
<1>2. CASE Environment /\ UNCHANGED <<handler, exitFlag>>
  BY <1>2, SameStep DEF handler, history
<1>3. CASE RequestExit
  BY <1>3, SameStep DEF RequestExit, handler, history
<1>4. CASE UNCHANGED vars
  BY <1>4, SameStep DEF vars, handler, history
<1> QED
  BY <1>1, <1>2, <1>3, <1>4 DEF Next, Finished

\* NewcomersSurvive: for any number of connections and both listeners, the loop
\* never clears a connection it has accepted in the same iteration.
THEOREM Newcomers == Spec => []NewcomersSurvive
<1>1. Init => NInv
  BY DEF Init, NInv, Accepting, Serving
<1>2. NInv => NewcomersSurvive
  BY DEF NInv, NewcomersSurvive
<1> QED
  BY <1>1, <1>2, NextNInv, Invariance, PTL DEF Spec

----------------------------------------------------------------------------
(* The steps that are left *)

\* The index is at most one past the entries it runs over.
Bounded ==
    /\ pc \in {"serve", "prune"} => idx <= Len(fds) + 1
    /\ pc \in {"reply", "clear"} => idx <= Len(fds)

LEMMA Sizes ==
    ASSUME IInv
    PROVE  /\ Len(fds) \in Nat /\ idx \in Nat /\ fds \in Seq(PollFd)
           /\ L \in {1, 2}
           /\ pc \in Accepting \cup Serving \cup {"poll", "prune", "drain"} =>
                 Len(fds) >= L
           /\ pc \in Accepting \cup {"start"} => idx \in 1 .. L
<1>1. Len(fds) \in Nat /\ Len(clients) \in Nat /\ idx \in Nat /\ fds \in Seq(PollFd)
  BY DEF IInv, TypeOK
<1> QED
  BY <1>1, ListenerFacts DEF IInv, VectorsAligned, Offset, IndexInv, Accepting,
     Serving

\* Whoever has not ended has a step to take.
LEMMA SomeStepLeft ==
    ASSUME IInv, Bounded, ~Ended
    PROVE  StepsLeft \in Nat /\ StepsLeft > 0
<1>1. pc \in Accepting \cup Serving \cup {"start", "poll", "prune", "drain", "draining"}
  BY DEF IInv, TypeOK, Ended, Accepting, Serving
<1>2. /\ Len(fds) \in Nat /\ idx \in Nat /\ L \in {1, 2}
      /\ pc \in Accepting \cup {"start"} => idx \in 1 .. L
      /\ pc \in Accepting => Len(fds) >= L
      /\ pc \in {"serve", "prune", "reply", "clear"} => idx <= Len(fds) + 1
  BY Sizes DEF Bounded, Accepting
<1>3. CASE pc = "start"
  BY <1>2, <1>3 DEF StepsLeft, StepsFrom
<1>4. CASE pc \in Accepting
  <2>1. \E k \in {3, 4, 5, 6} : StepsLeft = 9 * (L + 1 - idx) + 5 * Len(fds) - 3 * L + k
    BY <1>2, <1>4 DEF StepsLeft, StepsFrom, Accepting
  <2> QED
    BY <1>2, <1>4, <2>1
<1>5. CASE pc \in {"serve", "reply", "clear"}
  <2>1. \E k \in {3, 4, 5} : StepsLeft = 3 * (Len(fds) + 1 - idx) + 2 * Len(fds) + k
    BY <1>2, <1>5 DEF StepsLeft, StepsFrom
  <2> QED
    BY <1>2, <1>5, <2>1
<1>6. CASE pc = "prune"
  BY <1>2, <1>6 DEF StepsLeft, StepsFrom
<1>7. CASE pc \in {"poll", "drain", "draining"}
  <2>1. StepsLeft \in {Len(fds) + 1, Len(fds) + 2, Len(fds) + 3}
    BY <1>2, <1>7 DEF StepsLeft, StepsFrom
  <2> QED
    BY <1>2, <2>1
<1> QED
  BY <1>1, <1>3, <1>4, <1>5, <1>6, <1>7 DEF Serving

Progress == Bounded' /\ StepsLeft' < StepsLeft /\ StepsLeft' >= 0

LEMMA StartSteps == ASSUME IInv, Bounded, StartServer PROVE Progress
<1>1. Len(fds') = Len(fds) + 1
  BY Sizes, ListenerFacts DEF StartServer, Entry, IInv, IndexInv, PollFd
<1> QED
  BY <1>1, Sizes DEF StartServer, Progress, Bounded, StepsLeft, StepsFrom

LEMMA EndSteps ==
    ASSUME IInv, Bounded, StartServerFails \/ PollFails \/ ClearAborts
    PROVE  Progress
<1>1. StepsLeft > 0
  BY SomeStepLeft DEF StartServerFails, PollFails, ClearAborts, Ended
<1>2. pc' = "exit" /\ idx' = 1 /\ Len(fds') = 0
  BY DEF StartServerFails, PollFails, ClearAborts, Dies
<1> QED
  BY <1>1, <1>2, Sizes DEF Progress, Bounded, StepsLeft, StepsFrom

\* The turn of the next listener, or the first entry to serve.
LEMMA TurnSteps ==
    ASSUME IInv, Bounded, NextListener, pc \in Accepting,
           Len(fds') = Len(fds) \/ (Len(fds') = Len(fds) + 1 /\ pc = "admit")
    PROVE  Progress
<1>1. idx < L => idx' = idx + 1 /\ pc' = "accept"
  BY DEF NextListener
<1>2. ~(idx < L) => idx' = L + 1 /\ pc' = "serve"
  BY DEF NextListener
<1>3. /\ Len(fds) \in Nat /\ Len(fds) >= L /\ L \in {1, 2} /\ idx \in 1 .. L
      /\ Len(fds') \in {Len(fds), Len(fds) + 1}
  BY Sizes DEF Accepting
<1>4. StepsLeft >= 9 * (L + 1 - idx) + 5 * Len(fds) - 3 * L + 3
  BY <1>3, Sizes DEF StepsLeft, StepsFrom, Accepting
<1>5. CASE idx < L
  <2>1. StepsLeft' = 9 * (L + 1 - (idx + 1)) + 5 * Len(fds') - 3 * L + 6
    BY <1>1, <1>3, <1>5, Sizes DEF StepsLeft, StepsFrom
  <2>2. L = 2 /\ idx = 1
    BY <1>3, <1>5
  <2>3. StepsLeft' < StepsLeft /\ StepsLeft' >= 0
    BY <1>3, <1>4, <2>1, <2>2, SomeStepLeft DEF Accepting, Ended
  <2> QED
    BY <1>1, <1>5, <2>3 DEF Progress, Bounded
<1>6. CASE ~(idx < L)
  <2>1. StepsLeft' = 3 * (Len(fds') + 1 - (L + 1)) + 2 * Len(fds') + 5
    BY <1>2, <1>3, <1>6, Sizes DEF StepsLeft, StepsFrom
  <2>2. idx = L
    BY <1>3, <1>6
  <2>3. StepsLeft' < StepsLeft /\ StepsLeft' >= 0
    BY <1>3, <1>4, <2>1, <2>2, SomeStepLeft DEF Accepting, Ended
  <2>4. idx' <= Len(fds') + 1
    BY <1>2, <1>3, <1>6
  <2> QED
    BY <1>2, <1>6, <2>3, <2>4 DEF Progress, Bounded
<1> QED
  BY <1>5, <1>6

LEMMA AcceptingSteps ==
    ASSUME IInv, Bounded,
           \/ SkipAccept \/ AcceptFails \/ \E f \in FD : Accept(f)
           \/ SetSendTimeout \/ Handshake \/ HandshakeFails \/ ClearFailed
           \/ Admit \/ Refuse
    PROVE  Progress
<1>1. CASE SkipAccept \/ AcceptFails \/ ClearFailed
  <2>1. Len(fds') = Len(fds) /\ NextListener /\ pc \in Accepting
    BY <1>1, Sizes DEF SkipAccept, AcceptFails, ClearFailed, Accepting
  <2> QED
    BY <2>1, TurnSteps
<1>2. CASE Admit
  <2>1. Len(fds') = Len(fds) + 1
    BY <1>2, Sizes DEF Admit, Entry, IInv, TypeOK, Client, PollFd
  <2>2. NextListener /\ pc = "admit" /\ pc \in Accepting
    BY <1>2 DEF Admit, Accepting
  <2> QED
    BY <2>1, <2>2, TurnSteps
<1>3. CASE (\E f \in FD : Accept(f)) \/ SetSendTimeout \/ Handshake \/ HandshakeFails
  <2>1. /\ fds' = fds /\ idx' = idx
        /\ \/ pc = "accept" /\ pc' \in {"sendTimeout", "handshake", "admit"}
           \/ pc = "sendTimeout" /\ pc' \in {"handshake", "admit"}
           \/ pc = "handshake" /\ pc' \in {"admit", "clearFailed"}
    BY <1>3 DEF Accept, Accepted, SetSendTimeout, Handshake, HandshakeFails
  <2>2. /\ Len(fds) \in Nat /\ Len(fds) >= L /\ L \in {1, 2} /\ idx \in 1 .. L
    BY <2>1, Sizes DEF Accepting
  <2>3. /\ pc = "accept" => StepsLeft = 9 * (L + 1 - idx) + 5 * Len(fds) - 3 * L + 6
        /\ pc = "sendTimeout" =>
              StepsLeft = 9 * (L + 1 - idx) + 5 * Len(fds) - 3 * L + 5
        /\ pc = "handshake" =>
              StepsLeft = 9 * (L + 1 - idx) + 5 * Len(fds) - 3 * L + 4
    BY DEF StepsLeft, StepsFrom
  <2>4. /\ pc' = "sendTimeout" =>
              StepsLeft' = 9 * (L + 1 - idx) + 5 * Len(fds) - 3 * L + 5
        /\ pc' = "handshake" =>
              StepsLeft' = 9 * (L + 1 - idx) + 5 * Len(fds) - 3 * L + 4
        /\ pc' \in {"admit", "clearFailed"} =>
              StepsLeft' = 9 * (L + 1 - idx) + 5 * Len(fds) - 3 * L + 3
    BY <2>1 DEF StepsLeft, StepsFrom
  <2>5. StepsLeft' < StepsLeft /\ StepsLeft' >= 0
    <3>1. CASE pc = "accept"
      BY <2>1, <2>2, <2>3, <2>4, <3>1
    <3>2. CASE pc = "sendTimeout"
      BY <2>1, <2>2, <2>3, <2>4, <3>2
    <3>3. CASE pc = "handshake"
      BY <2>1, <2>2, <2>3, <2>4, <3>3
    <3> QED
      BY <2>1, <3>1, <3>2, <3>3
  <2> QED
    BY <2>1, <2>5 DEF Progress, Bounded
<1>4. CASE Refuse
  BY <1>4, Sizes DEF Refuse, Progress, Bounded, StepsLeft, StepsFrom, Accepting
<1> QED
  BY <1>1, <1>2, <1>3, <1>4

LEMMA ServingSteps ==
    ASSUME IInv, Bounded,
           \/ ReceiveFails \/ ReceiveNothing
           \/ \E req \in Inbox, rest \in {"none", "part"} : Receive(req, rest)
           \/ Reply \/ ReplyFails
           \/ Kill \/ PassOver \/ Clear \/ ServeDone
    PROVE  Progress
<1>1. CASE \/ ReceiveFails \/ ReceiveNothing \/ Kill
           \/ \E req \in Inbox, rest \in {"none", "part"} : Receive(req, rest)
  <2>1. /\ pc = "serve" /\ pc' \in {"reply", "clear"} /\ idx <= Len(fds)
        /\ fds' = fds /\ idx' = idx
    BY <1>1 DEF ReceiveFails, ReceiveNothing, Kill, Receive, Readable
  <2>2. Len(fds) \in Nat /\ idx \in Nat
    BY Sizes
  <2>3. CASE pc' = "reply"
    BY <2>1, <2>2, <2>3 DEF Progress, Bounded, StepsLeft, StepsFrom
  <2>4. CASE pc' = "clear"
    BY <2>1, <2>2, <2>4 DEF Progress, Bounded, StepsLeft, StepsFrom
  <2> QED
    BY <2>1, <2>3, <2>4
<1>2. CASE Reply \/ ReplyFails
  <2>1. /\ pc = "reply" /\ Len(fds') = Len(fds)
        /\ \/ pc' = "serve" /\ idx' = idx + 1
           \/ pc' = "clear" /\ idx' = idx
    BY <1>2, Sizes DEF Reply, ReplyFails, NextEntry
  <2>2. Len(fds) \in Nat /\ idx \in Nat /\ idx <= Len(fds)
    BY <2>1, Sizes DEF Bounded
  <2>3. CASE pc' = "serve" /\ idx' = idx + 1
    BY <2>1, <2>2, <2>3 DEF Progress, Bounded, StepsLeft, StepsFrom
  <2>4. CASE pc' = "clear" /\ idx' = idx
    BY <2>1, <2>2, <2>4 DEF Progress, Bounded, StepsLeft, StepsFrom
  <2> QED
    BY <2>1, <2>3, <2>4
<1>3. CASE PassOver \/ Clear
  <2>1. /\ pc \in {"serve", "clear"} /\ Len(fds') = Len(fds) /\ idx <= Len(fds)
        /\ pc' = "serve" /\ idx' = idx + 1
    BY <1>3, Sizes DEF PassOver, Clear, NextEntry, Bounded
  <2>2. Len(fds) \in Nat /\ idx \in Nat
    BY Sizes
  <2>3. CASE pc = "serve"
    BY <2>1, <2>2, <2>3 DEF Progress, Bounded, StepsLeft, StepsFrom
  <2>4. CASE pc = "clear"
    BY <2>1, <2>2, <2>4 DEF Progress, Bounded, StepsLeft, StepsFrom
  <2> QED
    BY <2>1, <2>3, <2>4
<1>4. CASE ServeDone
  BY <1>4, Sizes DEF ServeDone, Progress, Bounded, StepsLeft, StepsFrom
<1> QED
  BY <1>1, <1>2, <1>3, <1>4

LEMMA RemovingSteps ==
    ASSUME IInv, Bounded,
           Prune \/ PruneDone \/ DropListeners \/ DrainClient \/ DrainDone
    PROVE  Progress
<1>1. CASE Prune
  <2>1. /\ pc = "prune" /\ pc' = "prune" /\ idx <= Len(fds)
        /\ \/ Len(fds') = Len(fds) - 1 /\ idx' = idx
           \/ fds' = fds /\ idx' = idx + 1
    <3>1. CASE fds[idx].fd # NoFd
      BY <1>1, <3>1 DEF Prune
    <3>2. CASE fds[idx].fd = NoFd
      <4>1. idx >= 1 /\ idx \in 1 .. Len(fds)
        BY <1>1, Sizes DEF Prune, IInv, IndexInv
      <4> QED
        BY <1>1, <3>2, <4>1, Sizes, RemoveAtFacts DEF Prune
    <3> QED
      BY <3>1, <3>2
  <2>2. Len(fds) \in Nat /\ idx \in Nat
    BY Sizes
  <2>3. CASE Len(fds') = Len(fds) - 1 /\ idx' = idx
    BY <2>1, <2>2, <2>3 DEF Progress, Bounded, StepsLeft, StepsFrom
  <2>4. CASE fds' = fds /\ idx' = idx + 1
    BY <2>1, <2>2, <2>4 DEF Progress, Bounded, StepsLeft, StepsFrom
  <2> QED
    BY <2>1, <2>3, <2>4
<1>2. CASE PruneDone
  BY <1>2, Sizes DEF PruneDone, Progress, Bounded, StepsLeft, StepsFrom
<1>3. CASE DropListeners
  <2>1. Len(fds') <= Len(fds) /\ Len(fds') \in Nat
    BY <1>3, Sizes DEF DropListeners
  <2> QED
    BY <1>3, <2>1, Sizes DEF DropListeners, Progress, Bounded, StepsLeft, StepsFrom
<1>4. CASE DrainClient
  <2>1. Len(fds) > 0
    BY <1>4, Sizes, EmptySeq DEF DrainClient
  <2>2. fds' = SubSeq(fds, 1, Len(fds) - 1) /\ Len(fds) - 1 \in Nat
    BY <1>4, <2>1, Sizes DEF DrainClient
  <2>3. Len(fds') = Len(fds) - 1
    <3>1. fds \in Seq(PollFd) /\ Len(fds) \in Nat
      BY Sizes
    <3>2. \A i \in 1 .. Len(fds) - 1 : fds[i] \in PollFd
      BY <3>1, ElementOfSeq
    <3>3. PICK n \in Nat : n = Len(fds) - 1
      BY <2>1, <3>1
    <3>4. \A i \in 1 .. n : fds[i] \in PollFd
      BY <3>2, <3>3
    <3>5. Len(SubSeq(fds, 1, n)) = n
      BY <3>4, SubSeqProperties
    <3> QED
      BY <2>2, <3>3, <3>5
  <2> QED
    BY <1>4, <2>3, Sizes DEF DrainClient, Progress, Bounded, StepsLeft, StepsFrom
<1>5. CASE DrainDone
  BY <1>5, Sizes DEF DrainDone, Progress, Bounded, StepsLeft, StepsFrom
<1> QED
  BY <1>1, <1>2, <1>3, <1>4, <1>5

\* Every step of the handler but a poll without the flag brings it nearer to
\* the end of the iteration.
LEMMA HandlerProgress ==
    ASSUME IInv, Bounded, HandlerStep, exitFlag \/ pc # "poll"
    PROVE  Progress
<1>1. CASE StartServer
  BY <1>1, StartSteps
<1>2. CASE StartServerFails \/ PollFails \/ ClearAborts
  BY <1>2, EndSteps
<1>3. CASE PollStop
  BY <1>3, Sizes DEF PollStop, Progress, Bounded, StepsLeft, StepsFrom
<1>4. CASE \/ SkipAccept \/ AcceptFails \/ \E f \in FD : Accept(f)
           \/ SetSendTimeout \/ Handshake \/ HandshakeFails \/ ClearFailed
           \/ Admit \/ Refuse
  BY <1>4, AcceptingSteps
<1>5. CASE \/ ReceiveFails \/ ReceiveNothing
           \/ \E req \in Inbox, rest \in {"none", "part"} : Receive(req, rest)
           \/ Reply \/ ReplyFails
           \/ Kill \/ PassOver \/ Clear \/ ServeDone
  BY <1>5, ServingSteps
<1>6. CASE Prune \/ PruneDone \/ DropListeners \/ DrainClient \/ DrainDone
  BY <1>6, RemovingSteps
<1>7. ~PollTimeout /\ ~PollReady
  BY DEF PollTimeout, PollReady
<1> QED
  BY <1>1, <1>2, <1>3, <1>4, <1>5, <1>6, <1>7 DEF HandlerStep

LEMMA NextBounded == IInv /\ Bounded /\ [Next]_vars => Bounded'
<1> SUFFICES ASSUME IInv, Bounded, [Next]_vars PROVE Bounded'
  OBVIOUS
<1>1. CASE HandlerStep /\ (exitFlag \/ pc # "poll")
  BY <1>1, HandlerProgress DEF Progress
<1>2. CASE HandlerStep /\ ~exitFlag /\ pc = "poll"
  <2>1. PollTimeout \/ PollReady \/ PollFails
    BY <1>2 DEF HandlerStep, StartServer, StartServerFails, PollStop, SkipAccept,
       AcceptFails, Accept, SetSendTimeout, Handshake, HandshakeFails, ClearFailed,
       Admit, Refuse, ReceiveFails, ReceiveNothing, Receive, Readable, Reply, ReplyFails, Kill,
       PassOver, Clear, ClearAborts, ServeDone, Prune, PruneDone, DropListeners,
       DrainClient, DrainDone
  <2> QED
    BY <1>2, <2>1 DEF PollTimeout, PollReady, PollFails, Dies, Bounded
<1>3. CASE (Environment /\ UNCHANGED <<handler, exitFlag>>) \/ RequestExit
              \/ UNCHANGED vars
  BY <1>3 DEF RequestExit, vars, handler, Bounded
<1> QED
  BY <1>1, <1>2, <1>3 DEF Next, Finished

\* StepsRunOut, for any number of connections, one listener or two, every limit
\* and every choice of failing calls: what ShutdownCompletes adds to it is only
\* that the handler's thread goes on running.
THEOREM ShutdownBounded == Spec => StepsRunOut
<1>1. Init => Bounded
  BY DEF Init, Bounded
<1>2. Spec => [](IInv /\ Bounded)
  BY <1>1, NextBounded, Invariance, PTL DEF Spec
<1>3. IInv /\ Bounded /\ [Next]_vars =>
        [HandlerStep /\ (exitFlag \/ pc # "poll") =>
            StepsLeft' < StepsLeft /\ StepsLeft' >= 0]_vars
  BY HandlerProgress DEF Progress
<1> QED
  BY <1>2, <1>3, PTL DEF Spec, StepsRunOut
=============================================================================
