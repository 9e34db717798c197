----------------------------- MODULE Demo_proofs -----------------------------
(***************************************************************************)
(* Proofs about the two demo programs: how many requests the launcher      *)
(* launches, whatever ports and loads it hears of and whenever its sockets *)
(* time out, and whose loads it takes them for, for every number of        *)
(* instances and requests, every threshold and every load.                 *)
(***************************************************************************)
EXTENDS Demo, SequenceTheorems, FiniteSetTheorems, WellFoundedInduction, TLAPS

----------------------------------------------------------------------------
(* The loads of a message *)

\* Every nonempty set of numbers has a least one.
LEMMA Least ==
    ASSUME NEW T \in SUBSET Nat, T # {}
    PROVE  \E m \in T : \A n \in T : m <= n
<1> DEFINE R == OpToRel(<, Nat)
<1>1. IsWellFoundedOn(R, Nat)
  BY NatLessThanWellFounded
<1> HIDE DEF R
<1>2. PICK m \in T : \A n \in T : ~(<<n, m>> \in R)
  BY <1>1, WFMin
<1>3. ASSUME NEW n \in T PROVE m <= n
  <2>1. m \in Nat /\ n \in Nat
    BY <1>3
  <2>2. n < m => <<n, m>> \in R
    BY <2>1 DEF R, OpToRel
  <2> QED
    BY <1>2, <1>3, <2>1, <2>2
<1> QED
  BY <1>3

\* In a set of at least n instances there is an n-th one.
LEMMA NthExists ==
    ASSUME NEW N \in Nat, NEW S \in SUBSET (1 .. N), NEW n \in 1 .. Cardinality(S)
    PROVE  \E m \in S : Cardinality({k \in S : k <= m}) = n
<1> DEFINE Upto(m) == {k \in S : k <= m}
           T == {m \in 0 .. N : Cardinality(Upto(m)) >= n}
<1>1. IsFiniteSet(S)
  <2>1. IsFiniteSet(1 .. N)
    BY FS_Interval
  <2> QED
    BY <2>1, FS_Subset
<1>2. \A m : IsFiniteSet(Upto(m)) /\ Cardinality(Upto(m)) \in Nat
  BY <1>1, FS_Subset, FS_CardinalityType
<1>3. Upto(N) = S /\ Upto(0) = {}
  <2>1. \A k \in S : k \in Nat /\ k <= N /\ ~(k <= 0)
    OBVIOUS
  <2> QED
    BY <2>1
<1>4. T \in SUBSET Nat /\ N \in T
  BY <1>2, <1>3
<1>5. PICK m \in T : \A k \in T : m <= k
  BY <1>4, Least
<1>6. m \in 0 .. N /\ Cardinality(Upto(m)) >= n
  BY <1>5
<1>7. m \in 1 .. N
  BY <1>3, <1>6, FS_EmptySet
<1>8. Cardinality(Upto(m - 1)) < n
  <2>1. m - 1 \in 0 .. N /\ ~(m <= m - 1)
    BY <1>7
  <2>2. m - 1 \notin T
    BY <1>5, <2>1
  <2>3. ~(Cardinality(Upto(m - 1)) >= n)
    BY <2>1, <2>2
  <2>4. n \in Nat
    <3>1. Cardinality(S) \in Nat
      BY <1>1, FS_CardinalityType
    <3> QED
      BY <3>1
  <2>5. Cardinality(Upto(m - 1)) \in Nat
    BY <1>2
  <2> HIDE DEF Upto, T
  <2> QED
    BY <2>3, <2>4, <2>5
<1>9. \A k \in S : k <= m <=> k <= m - 1 \/ k = m
  BY <1>7
<1> HIDE DEF T
<1>10. m \in S
  <2> SUFFICES ASSUME m \notin S PROVE FALSE
    OBVIOUS
  <2>1. Upto(m) = Upto(m - 1)
    BY <1>9
  <2> QED
    BY <1>2, <1>6, <1>8, <2>1
<1>11. Upto(m) = Upto(m - 1) \cup {m} /\ m \notin Upto(m - 1)
  <2>1. ~(m <= m - 1)
    BY <1>7
  <2> QED
    BY <1>9, <1>10, <2>1
<1>12. Cardinality(Upto(m)) = Cardinality(Upto(m - 1)) + 1
  <2> HIDE DEF Upto
  <2> QED
    BY <1>2, <1>11, FS_AddElement
<1>13. Cardinality(Upto(m)) = n
  <2> HIDE DEF Upto
  <2> QED
    BY <1>2, <1>6, <1>8, <1>12
<1> QED
  BY <1>10, <1>13

\* Who knows the first N - 1 instances and only some of the first N knows the
\* first N - 1 or the first N.
LEMMA Initial ==
    ASSUME NEW N \in Nat \ {0}, NEW S \in SUBSET (1 .. N), 1 .. N - 1 \subseteq S
    PROVE  \E r \in Nat : S = 1 .. r
<1>1. 1 .. N = (1 .. N - 1) \cup {N} /\ N - 1 \in Nat
  OBVIOUS
<1>2. S = 1 .. N - 1 \/ S = 1 .. N
  BY <1>1, Zenon
<1> QED
  BY <1>1, <1>2

\* The messages that may be on their way.
Reports == UNION {[known -> Nat] : known \in SUBSET Nat}

Messages == [port : Nat, loads : Seq(Nat), report : Reports]

\* What the autoscaler knows: the loads of some of its instances.
ScalerInv ==
    /\ instances \in Nat \ {0}
    /\ DOMAIN report \subseteq 1 .. instances
    /\ report \in [DOMAIN report -> Nat]
    /\ scaler \in {"send", "round"}

LEMMA MessageType == ASSUME ScalerInv PROVE Message \in Messages
<1>1. Cardinality(DOMAIN report) \in Nat
  BY FS_Interval, FS_Subset, FS_CardinalityType DEF ScalerInv
<1>2. ASSUME NEW n \in 1 .. Cardinality(DOMAIN report)
      PROVE  Reported(n) \in DOMAIN report
  BY <1>2, NthExists DEF ScalerInv, Reported
<1>3. [n \in 1 .. Cardinality(DOMAIN report) |-> report[Reported(n)]] \in Seq(Nat)
  BY <1>1, <1>2 DEF ScalerInv
<1>4. report \in Reports
  BY DEF ScalerInv, Reports
<1> QED
  BY <1>3, <1>4 DEF Message, Messages, ScalerInv

\* With a load for each of the first r instances they are sent in that order.
LEMMA InOrder ==
    ASSUME ScalerInv, NEW r \in Nat, DOMAIN report = 1 .. r
    PROVE  Message.loads = report
<1>1. Cardinality(DOMAIN report) = r
  BY FS_Interval
<1>2. ASSUME NEW m \in 1 .. r PROVE Cardinality({k \in 1 .. r : k <= m}) = m
  <2>1. {k \in 1 .. r : k <= m} = 1 .. m
    OBVIOUS
  <2>2. Cardinality(1 .. m) = m
    BY FS_Interval
  <2> QED
    BY <2>1, <2>2
<1>3. ASSUME NEW n \in 1 .. r PROVE Reported(n) = n
  BY <1>2 DEF Reported
<1>4. Message.loads = [n \in 1 .. r |-> report[n]]
  BY <1>1, <1>3 DEF Message
<1> QED
  BY <1>4 DEF ScalerInv
----------------------------------------------------------------------------
(* How many requests are launched *)

\* The ports and loads that have been read belong together, place by place, and
\* a round launches no more than is left and never a negative number.
LaunchInv ==
    /\ launcher \in {"off", "receive", "begin", "fire", "done"}
    /\ ports \in Seq(Nat) /\ loads \in Seq(Nat) /\ Len(loads) = Len(ports)
    /\ backlog \in Seq(Messages)
    /\ left \in Nat /\ fired \in Nat /\ fired + left = Total
    /\ launcher = "done" => left = 0
    /\ launcher = "fire" =>
          i \in 1 .. Len(ports) /\ maxload \in Nat /\ maxload >= HighLoad

DInv == ScalerInv /\ LaunchInv

LEMMA InitDInv == DemoInit => DInv
<1> SUFFICES ASSUME DemoInit PROVE DInv
  OBVIOUS
<1>1. ScalerInv
  BY DEF DemoInit, ScalerInv
<1>2. LaunchInv
  BY DemoAssumption, EmptySeq DEF DemoInit, LaunchInv
<1> QED
  BY <1>1, <1>2 DEF DInv

\* What recv() leaves in loads, complete or not, is one load for each port.
LEMMA LoadsReadType ==
    ASSUME LaunchInv, NEW message \in Messages, NEW n \in Nat
    PROVE  /\ LoadsRead(message, Len(ports) + 1, n) \in Seq(Nat)
           /\ Len(LoadsRead(message, Len(ports) + 1, n)) = Len(ports) + 1
<1> DEFINE size == Len(ports) + 1
<1>1. size \in Nat /\ message.loads \in Seq(Nat) /\ loads \in Seq(Nat)
      /\ Len(loads) = size - 1
  BY LenProperties DEF LaunchInv, Messages
<1>2. \A m \in 1 .. size : m < size => loads[m] \in Nat
  BY <1>1, ElementOfSeq
<1>3. \A m \in 1 .. size : m <= Len(message.loads) => message.loads[m] \in Nat
  BY <1>1, ElementOfSeq
<1>4. \A m \in 1 .. size : LoadsRead(message, size, n)[m] \in Nat
  BY <1>2, <1>3 DEF LoadsRead
<1>5. LoadsRead(message, size, n) \in [1 .. size -> Nat]
  BY <1>4 DEF LoadsRead
<1> HIDE DEF size
<1>6. LoadsRead(message, size, n) \in Seq(Nat) /\ Len(LoadsRead(message, size, n)) = size
  BY <1>1, <1>5
<1> QED
  BY <1>6 DEF size

LEMMA ScalerStep ==
    ASSUME DInv, SendNewPort \/ Round
    PROVE  DInv'
<1> USE DEF DInv
<1>1. CASE SendNewPort
  <2>1. ScalerInv'
    BY <1>1 DEF SendNewPort, ScalerInv
  <2>2. backlog' \in Seq(Messages)
    BY <1>1, MessageType, AppendProperties DEF SendNewPort, LaunchInv
  <2> QED
    BY <1>1, <2>1, <2>2 DEF SendNewPort, launching, LaunchInv
<1>2. CASE Round
  <2>1. PICK known \in SUBSET (1 .. instances) : report' \in [known -> Loads]
    BY <1>2 DEF Round
  <2>2. DOMAIN report' = known /\ report' \in [DOMAIN report' -> Nat]
    BY <2>1, DemoAssumption
  <2>3. instances' \in {instances, instances + 1} /\ scaler' \in {scaler, "send"}
    BY <1>2 DEF Round
  <2>4. ScalerInv'
    BY <2>2, <2>3 DEF ScalerInv
  <2> QED
    BY <1>2, <2>4 DEF Round, launching, LaunchInv
<1> QED
  BY <1>1, <1>2

LEMMA LauncherStepDInv ==
    ASSUME DInv, Start \/ LauncherStep
    PROVE  DInv'
<1> USE DEF DInv
<1>1. ScalerInv'
  BY DEF Start, LauncherStep, BeginRound, Fire, Receive, TimesOut, PassOver, autoscaler,
     ScalerInv
<1>2. Len(ports) \in Nat /\ Len(loads) \in Nat
  BY LenProperties DEF LaunchInv
<1>3. CASE Start \/ PassOver
  BY <1>1, <1>3 DEF Start, PassOver, LaunchInv
<1>4. CASE BeginRound
  <2>1. CASE ports = <<>>
    BY <1>1, <1>4, <2>1 DEF BeginRound, LaunchInv
  <2>2. CASE ports # <<>>
    <3>1. PICK m \in Levels : (\A n \in Levels : n <= m) /\ maxload' = m
      BY <1>4, <2>2 DEF BeginRound
    <3>2. HighLoad \in Levels /\ Levels \subseteq Nat
      <4>1. Range(loads) \subseteq Nat
        BY LenProperties, ElementOfSeq DEF Range, LaunchInv
      <4> QED
        BY <4>1, DemoAssumption DEF Levels
    <3>3. maxload' \in Nat /\ maxload' >= HighLoad
      BY <3>1, <3>2
    <3>4. 1 \in 1 .. Len(ports)
      BY <2>2, EmptySeq DEF LaunchInv
    <3> QED
      BY <1>1, <1>4, <2>2, <3>3, <3>4 DEF BeginRound, LaunchInv
  <2> QED
    BY <2>1, <2>2
<1>5. CASE Fire
  <2>1. /\ i \in 1 .. Len(ports) /\ maxload \in Nat /\ maxload >= HighLoad
        /\ loads[i] \in Nat /\ left \in Nat /\ fired \in Nat /\ fired + left = Total
        /\ HighLoad \in Nat \ {0} /\ Total \in Nat
    BY <1>5, DemoAssumption, ElementOfSeq DEF Fire, LaunchInv
  <2>2. Iterations \in 0 .. left
    BY <2>1 DEF Iterations, Lower
  <2>3. left' = left - Iterations /\ fired' = fired + Iterations
    BY <1>5 DEF Fire
  <2>4. left' \in Nat /\ fired' \in Nat /\ fired' + left' = Total
    BY <2>1, <2>2, <2>3
  <2>5. NewLoad \in Seq(Nat) /\ Len(NewLoad) = Len(ports)
    BY <2>1 DEF NewLoad, LaunchInv
  <2>6. /\ launcher' \in {"fire", "receive", "done"} /\ ports' = ports
        /\ loads' \in {loads, NewLoad} /\ backlog' \in {backlog, <<>>}
        /\ maxload' = maxload
        /\ launcher' = "done" => left' = 0
        /\ launcher' = "fire" => i' = i + 1 /\ i < Len(ports)
    BY <1>5 DEF Fire
  <2>7. launcher' = "fire" => i' \in 1 .. Len(ports)
    BY <1>2, <2>1, <2>6
  <2>8. /\ loads' \in Seq(Nat) /\ Len(loads') = Len(ports')
        /\ backlog' \in Seq(Messages)
    BY <2>5, <2>6, EmptySeq DEF LaunchInv
  <2>9. LaunchInv'
    BY <2>1, <2>4, <2>6, <2>7, <2>8 DEF LaunchInv
  <2> QED
    BY <1>1, <2>9
<1>6. CASE Receive \/ TimesOut
  <2>1. /\ launcher' = "begin" /\ UNCHANGED <<left, fired>>
        /\ backlog' \in {<<>>, Tail(backlog)} /\ backlog' # <<>> => backlog # <<>>
    BY <1>6, EmptySeq DEF Receive, TimesOut, LaunchInv
  <2>2. backlog' \in Seq(Messages)
    BY <1>6, EmptySeq, HeadTailProperties DEF Receive, TimesOut, LaunchInv
  <2>3. ports' \in Seq(Nat) /\ loads' \in Seq(Nat) /\ Len(loads') = Len(ports')
    <3>1. CASE ports' = ports /\ loads' = loads
      BY <3>1 DEF LaunchInv
    <3>2. CASE ~(ports' = ports /\ loads' = loads)
      <4>1. /\ backlog # <<>> /\ ports' = Append(ports, Head(backlog).port)
            /\ \E n \in Nat : loads' = LoadsRead(Head(backlog), Len(ports) + 1, n)
        BY <1>2, <1>6, <3>2 DEF Receive, TimesOut
      <4>2. Head(backlog) \in Messages
        BY <4>1, HeadTailProperties DEF LaunchInv
      <4>3. ports' \in Seq(Nat) /\ Len(ports') = Len(ports) + 1
        BY <4>1, <4>2, AppendProperties DEF Messages, LaunchInv
      <4> QED
        BY <4>1, <4>2, <4>3, LoadsReadType
    <3> QED
      BY <3>1, <3>2
  <2> QED
    BY <1>1, <2>1, <2>2, <2>3 DEF LaunchInv
<1> QED
  BY <1>3, <1>4, <1>5, <1>6 DEF LauncherStep

LEMMA NextDInv == DInv /\ [DemoNext]_vars => DInv'
<1>1. DInv /\ UNCHANGED vars => DInv'
  BY DEF DInv, ScalerInv, LaunchInv, vars, autoscaler, launching
<1> QED
  BY <1>1, ScalerStep, LauncherStepDInv DEF DemoNext

LEMMA DemoInvariance == DemoSpec => []DInv
  BY InitDInv, NextDInv, PTL DEF DemoSpec

\* LaunchesTotal: for every number of requests, never one too many, and all of
\* them when the launcher ends, whatever loads it is told and whenever a socket
\* times out: min() and the comparison with 5 keep a round between 0 and what is
\* left, so that the count cannot miss zero (jitserver_request_launcher.py 60-72).
THEOREM Launches == DemoSpec => []LaunchesTotal
<1>1. DInv => LaunchesTotal
  BY DemoAssumption DEF DInv, LaunchInv, LaunchesTotal
<1> QED
  BY <1>1, DemoInvariance, PTL
----------------------------------------------------------------------------
(* Whose loads they are *)

\* The message names the loads of the first instances, in the order of their
\* numbers, and of nobody else but perhaps the new one.
Ordered(message) ==
    message.loads = message.report /\ \E r \in Nat : message.report \in [1 .. r -> Nat]

\* Until a message is lost the launcher's ports are the first instances' and the
\* messages on their way name the next ones.
PlaceInv ==
    ~gaps /\ ~finished /\ launcher # "done" =>
        /\ \A k \in 1 .. Len(ports) : ports[k] = k
        /\ \A k \in 1 .. Len(backlog) :
              backlog[k].port = Len(ports) + k /\ Ordered(backlog[k])
        /\ Len(ports) + Len(backlog) = IF scaler = "send" THEN instances - 1
                                                         ELSE instances

LEMMA InitPlaceInv == DemoInit => PlaceInv
  BY EmptySeq DEF DemoInit, PlaceInv

\* Nothing that says whose loads are where has changed.
LEMMA SamePlaces ==
    ASSUME PlaceInv, UNCHANGED <<instances, scaler, gaps, finished, ports>>,
           launcher' # "done" => backlog' = backlog /\ launcher # "done"
    PROVE  PlaceInv'
<1> SUFFICES ASSUME ~gaps', ~finished', launcher' # "done" PROVE PlaceInv'
  BY DEF PlaceInv
<1>1. /\ ~gaps /\ ~finished /\ launcher # "done" /\ backlog' = backlog
      /\ ports' = ports /\ instances' = instances /\ scaler' = scaler
  OBVIOUS
<1>2. /\ \A k \in 1 .. Len(ports) : ports[k] = k
      /\ \A k \in 1 .. Len(backlog) :
            backlog[k].port = Len(ports) + k /\ Ordered(backlog[k])
      /\ Len(ports) + Len(backlog) = IF scaler = "send" THEN instances - 1
                                                       ELSE instances
  BY <1>1 DEF PlaceInv
<1> QED
  BY <1>1, <1>2 DEF PlaceInv, Ordered

LEMMA ScalerPlaces ==
    ASSUME DInv, PlaceInv, SendNewPort \/ Round
    PROVE  PlaceInv'
<1> USE DEF DInv
<1>1. Len(ports) \in Nat /\ Len(backlog) \in Nat /\ instances \in Nat \ {0}
  BY LenProperties DEF ScalerInv, LaunchInv
<1>2. CASE SendNewPort
  <2> SUFFICES ASSUME ~gaps', ~finished, launcher # "done"
               PROVE  PlaceInv'
    BY <1>2 DEF SendNewPort, launching, PlaceInv
  <2>1. /\ ~gaps /\ Listening /\ 1 .. instances - 1 \subseteq DOMAIN report
        /\ backlog' = Append(backlog, Message) /\ UNCHANGED <<instances, ports>>
        /\ scaler = "send" /\ scaler' = "round"
    BY <1>2 DEF SendNewPort, launching
  <2>2. \E r \in Nat : DOMAIN report = 1 .. r
    BY <1>1, <2>1, Initial DEF ScalerInv
  <2>3. Ordered(Message) /\ Message.port = instances
    <3>1. Message.loads = report
      BY <2>2, InOrder
    <3>2. Message.report = report /\ Message.port = instances
      BY DEF Message
    <3> QED
      BY <2>2, <3>1, <3>2 DEF Ordered, ScalerInv
  <2>4. /\ Len(backlog') = Len(backlog) + 1
        /\ \A k \in 1 .. Len(backlog) : backlog'[k] = backlog[k]
        /\ backlog'[Len(backlog) + 1] = Message
    BY <2>1, MessageType, AppendProperties DEF LaunchInv
  <2>5. /\ \A k \in 1 .. Len(ports) : ports[k] = k
        /\ \A k \in 1 .. Len(backlog) :
              backlog[k].port = Len(ports) + k /\ Ordered(backlog[k])
        /\ Len(ports) + Len(backlog) = instances - 1
    BY <2>1 DEF PlaceInv
  <2>6. ASSUME NEW k \in 1 .. Len(backlog')
        PROVE  backlog'[k].port = Len(ports) + k /\ Ordered(backlog'[k])
    <3>1. CASE k \in 1 .. Len(backlog)
      BY <2>4, <2>5, <3>1
    <3>2. CASE k = Len(backlog) + 1
      BY <1>1, <2>3, <2>4, <2>5, <3>2
    <3> QED
      BY <1>1, <2>4, <2>6, <3>1, <3>2
  <2>7. Len(ports) + Len(backlog') = instances
    BY <1>1, <2>4, <2>5
  <2> QED
    BY <2>1, <2>5, <2>6, <2>7 DEF PlaceInv, Ordered
<1>3. CASE Round
  <2>1. UNCHANGED <<ports, backlog, gaps, finished, launcher>> /\ scaler = "round"
    BY <1>3 DEF Round, launching
  <2>2. CASE UNCHANGED <<instances, scaler>>
    <3>1. UNCHANGED <<instances, scaler, gaps, finished, ports>>
      BY <2>1, <2>2
    <3>2. launcher' # "done" => backlog' = backlog /\ launcher # "done"
      BY <2>1
    <3> QED
      BY <3>1, <3>2, SamePlaces
  <2>3. CASE instances' = instances + 1 /\ scaler' = "send"
    <3>1. instances' - 1 = instances
      BY <1>1, <2>3
    <3> QED
      BY <2>1, <2>3, <3>1 DEF PlaceInv, Ordered
  <2> QED
    BY <1>3, <2>2, <2>3 DEF Round
<1> QED
  BY <1>2, <1>3

LEMMA LauncherPlaces ==
    ASSUME DInv, PlaceInv, Start \/ LauncherStep
    PROVE  PlaceInv'
<1> USE DEF DInv
<1>1. UNCHANGED <<instances, scaler, gaps>>
  BY DEF Start, LauncherStep, BeginRound, Fire, Receive, TimesOut, PassOver, autoscaler
<1>2. Len(ports) \in Nat /\ Len(backlog) \in Nat /\ instances \in Nat
  BY LenProperties DEF ScalerInv, LaunchInv
<1>3. CASE \/ Start \/ PassOver \/ BeginRound \/ Fire
  <2>1. /\ ports' = ports /\ finished' = finished
        /\ launcher' # "done" => backlog' = backlog /\ launcher # "done"
    BY <1>3 DEF Start, PassOver, BeginRound, Fire
  <2>2. UNCHANGED <<instances, scaler, gaps, finished, ports>>
    BY <1>1, <2>1
  <2> QED
    BY <2>1, <2>2, SamePlaces
<1>4. CASE TimesOut
  BY <1>4 DEF TimesOut, PlaceInv
<1>5. CASE Receive
  <2> SUFFICES ASSUME ~gaps PROVE PlaceInv'
    BY <1>1 DEF PlaceInv
  <2>1. /\ ~finished /\ launcher # "done" /\ backlog # <<>>
        /\ ports' = Append(ports, Head(backlog).port) /\ backlog' = Tail(backlog)
    BY <1>5 DEF Receive
  <2>2. /\ \A k \in 1 .. Len(ports) : ports[k] = k
        /\ \A k \in 1 .. Len(backlog) :
              backlog[k].port = Len(ports) + k /\ Ordered(backlog[k])
        /\ Len(ports) + Len(backlog) = IF scaler = "send" THEN instances - 1
                                                         ELSE instances
    BY <2>1 DEF PlaceInv
  <2>3. /\ Len(backlog) \in Nat \ {0} /\ Len(backlog') = Len(backlog) - 1
        /\ \A k \in 1 .. Len(backlog) - 1 : backlog'[k] = backlog[k + 1]
        /\ Head(backlog) = backlog[1] /\ Head(backlog) \in Messages
    BY <2>1, EmptySeq, HeadTailProperties DEF LaunchInv
  <2>4. Head(backlog).port = Len(ports) + 1 /\ Head(backlog).port \in Nat
    BY <2>2, <2>3 DEF Messages
  <2>5. /\ Len(ports') = Len(ports) + 1
        /\ \A k \in 1 .. Len(ports) : ports'[k] = ports[k]
        /\ ports'[Len(ports) + 1] = Len(ports) + 1
    BY <2>1, <2>4, AppendProperties DEF LaunchInv
  <2>6. \A k \in 1 .. Len(ports') : ports'[k] = k
    BY <1>2, <2>2, <2>5
  <2>7. ASSUME NEW k \in 1 .. Len(backlog')
        PROVE  backlog'[k].port = Len(ports') + k /\ Ordered(backlog'[k])
    <3>1. k + 1 \in 1 .. Len(backlog) /\ backlog'[k] = backlog[k + 1]
      BY <2>3
    <3>2. backlog[k + 1].port = Len(ports) + (k + 1) /\ Ordered(backlog[k + 1])
      BY <2>2, <3>1
    <3>3. Len(ports) + (k + 1) = Len(ports') + k
      BY <1>2, <2>3, <2>5
    <3> QED
      BY <3>1, <3>2, <3>3
  <2>8. Len(ports') + Len(backlog') = Len(ports) + Len(backlog)
    BY <1>2, <2>3, <2>5
  <2> QED
    BY <1>1, <2>2, <2>6, <2>7, <2>8 DEF PlaceInv, Ordered
<1> QED
  BY <1>3, <1>4, <1>5 DEF LauncherStep

LEMMA NextPlaceInv == DInv /\ PlaceInv /\ [DemoNext]_vars => PlaceInv'
<1>1. PlaceInv /\ UNCHANGED vars => PlaceInv'
  BY SamePlaces DEF vars, autoscaler, launching
<1> QED
  BY <1>1, ScalerPlaces, LauncherPlaces DEF DemoNext

LEMMA ReceivedLoads ==
    ASSUME DInv, PlaceInv, Receive, ~gaps
    PROVE  LET message == Head(backlog)
           IN  \A n \in 1 .. Len(ports') :
                  loads'[n] = IF ports'[n] \in DOMAIN message.report
                              THEN message.report[ports'[n]] ELSE 0
<1> USE DEF DInv
<1> DEFINE message == Head(backlog)
<1>1. /\ ~finished /\ launcher # "done" /\ backlog # <<>> /\ launcher' # "done"
      /\ ports' = Append(ports, message.port) /\ ~finished' /\ ~gaps'
      /\ loads' = LoadsRead(message, Len(ports) + 1, Len(ports) + 1)
  BY DEF Receive
<1>2. Len(backlog) \in Nat \ {0} /\ message = backlog[1] /\ message \in Messages
  BY <1>1, EmptySeq, HeadTailProperties DEF LaunchInv
<1>3. Ordered(message)
  BY <1>1, <1>2 DEF PlaceInv
<1>4. PICK r \in Nat : message.report \in [1 .. r -> Nat]
  BY <1>3 DEF Ordered
<1>5. message.loads = message.report /\ DOMAIN message.report = 1 .. r
  BY <1>3, <1>4 DEF Ordered
<1>6. Len(message.loads) = r
  BY <1>2, <1>4, <1>5, LenProperties DEF Messages
<1>7. Len(ports) \in Nat /\ Len(ports') = Len(ports) + 1
  BY <1>1, <1>2, AppendProperties, LenProperties DEF LaunchInv, Messages
<1>8. \A n \in 1 .. Len(ports') : ports'[n] = n
  BY <1>1, LauncherPlaces DEF LauncherStep, PlaceInv
<1>9. ASSUME NEW n \in 1 .. Len(ports')
      PROVE  loads'[n] = IF n \in 1 .. r THEN message.report[n] ELSE 0
  BY <1>1, <1>4, <1>5, <1>6, <1>7 DEF LoadsRead
<1> QED
  BY <1>5, <1>8, <1>9

\* LoadsBelongToPorts: as long as no message is lost and no load is missing,
\* counting ports on one side and sending loads by metric_ports on the other
\* give every port its own load, for every number of instances.
THEOREM LoadsInPlace == DemoSpec => LoadsBelongToPorts
<1>1. DemoSpec => []PlaceInv
  BY InitPlaceInv, NextPlaceInv, DemoInvariance, PTL DEF DemoSpec
<1>2. DInv /\ PlaceInv /\ [DemoNext]_vars =>
        [Receive /\ ~gaps =>
            LET message == Head(backlog)
            IN  \A n \in 1 .. Len(ports') :
                   loads'[n] = IF ports'[n] \in DOMAIN message.report
                               THEN message.report[ports'[n]] ELSE 0]_vars
  BY ReceivedLoads
<1> QED
  BY <1>1, <1>2, DemoInvariance, PTL DEF DemoSpec, LoadsBelongToPorts
=============================================================================
