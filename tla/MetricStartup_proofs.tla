------------------------ MODULE MetricStartup_proofs ------------------------
(***************************************************************************)
(* Theorems about the start of the server, for every set of arguments,     *)
(* ports and descriptors, with and without SSL.                            *)
(***************************************************************************)
EXTENDS MetricStartup, TLAPS

Starting == {"start", "socket", "setsockopt", "bind", "listen"}

Idle(i) == server[i].fd = NoFd /\ server[i].bound = 0

Listening(i) ==
    /\ server[i].fd \in FD /\ server[i].bound \in PortNos
    /\ server[i].bound = server[i].port /\ Usable(server[i].port)
    /\ listener[server[i].bound] = "server"

\* Every number a Server keeps is its own.
Table ==
    /\ \A i \in 1 .. 2 : server[i].fd \in FD => held[server[i].fd] = "server"
    /\ server[1].fd = server[2].fd => server[1].fd = NoFd

OptionsRead ==
    /\ pc = "options" => \A o \in 1 .. k - 1 : config[o] = Wanted(vmargs, o)
    /\ pc = "context" => k = 1 /\ \A o \in 1 .. 4 : config[o] = Wanted(vmargs, o)
    /\ pc \in {"options", "context"} => Idle(1) /\ Idle(2)
    /\ pc \in Starting \cup {"serving"} =>
          \A i \in 1 .. 2 : server[i].port = Wanted(vmargs, PortOption[i])

\* The servers start in order; the one at hand owns what it has got so far.
Ordered ==
    /\ pc \in Starting \cup {"clear"} => k \in 1 .. L
    /\ pc \in Starting =>
          /\ \A i \in 1 .. k - 1 : Listening(i)
          /\ \A i \in k + 1 .. 2 : Idle(i)
    /\ pc \in {"start", "socket"} => Idle(k)
    /\ pc \in {"setsockopt", "bind"} => server[k].fd \in FD /\ server[k].bound = 0
    /\ pc \in Starting \ {"start"} => Usable(server[k].port)
    /\ pc = "listen" =>
          /\ server[k].fd \in FD /\ server[k].bound \in PortNos
          /\ server[k].bound = server[k].port
          /\ listener[server[k].bound] # "server"
    /\ pc = "serving" => \A i \in 1 .. L : Listening(i)
    /\ (pc \in Starting \cup {"serving"} /\ Listening(1) /\ Listening(2)) =>
          server[1].bound # server[2].bound

SInv == StartupTypeOK /\ Table /\ OptionsRead /\ Ordered

----------------------------------------------------------------------------

LEMMA ArgumentInt ==
    ASSUME NEW args \in VmArgs, NEW o \in 1 .. 4
    PROVE  Wanted(args, o) \in Int
<1>1. Default[o] \in Int
  BY DEF Default
<1>2. args \in [1 .. 4 -> Int \cup {Absent}]
  BY StartupAssumption
<1> QED
  BY <1>1, <1>2 DEF Wanted

LEMMA ArgumentPort ==
    ASSUME NEW args \in VmArgs, NEW i \in 1 .. 2
    PROVE  /\ PortOption[i] \in 1 .. 4
           /\ Wanted(args, PortOption[i]) \in Int
           /\ Usable(Wanted(args, PortOption[i])) =>
                  Wanted(args, PortOption[i]) \in PortNos
<1>1. PortOption[1] = 1 /\ PortOption[2] = 4
  BY DEF PortOption
<1>2. PortOption[i] \in 1 .. 4
  BY <1>1
<1>3. Wanted(args, PortOption[i]) \in Int
  BY <1>2, ArgumentInt
<1> QED
  BY <1>2, <1>3, StartupAssumption

LEMMA OneOrTwo == L \in 1 .. 2 /\ (L = 2 <=> UseSSL)
  BY StartupAssumption DEF L

\* A usable port is the 16 bits of itself.
LEMMA SixteenBits == \A p \in Int : 0 <= p /\ p < 65536 => p % 65536 = p
  BY SMT

LEMMA InitSInv == StartupInit => SInv
<1> SUFFICES ASSUME StartupInit PROVE SInv
  OBVIOUS
<1>1. config \in [1 .. 4 -> Int]
  BY DEF StartupInit, Default
<1>2. StartupTypeOK
  BY <1>1 DEF StartupInit, StartupTypeOK, NewServer
<1> QED
  BY <1>2, StartupAssumption
  DEF StartupInit, SInv, Table, OptionsRead, Ordered, NewServer, Idle, Starting

LEMMA OptionStep ==
    ASSUME SInv, ReadOption \/ ContextFails \/ CreateServers
    PROVE  SInv'
<1> USE DEF SInv
<1>1. CASE ReadOption
  <2> USE <1>1 DEF ReadOption
  <2>1. Wanted(vmargs, k) \in Int /\ k \in 1 .. 4
    BY ArgumentInt DEF StartupTypeOK
  <2>2. StartupTypeOK'
    BY <2>1 DEF StartupTypeOK
  <2>3. Table'
    BY DEF Table
  <2>4. OptionsRead'
    BY <2>1 DEF OptionsRead, StartupTypeOK, Idle, Starting
  <2>5. Ordered'
    BY DEF Ordered, Starting
  <2> QED
    BY <2>2, <2>3, <2>4, <2>5
<1>2. CASE ContextFails
  BY <1>2 DEF ContextFails, StartupTypeOK, Table, OptionsRead, Ordered, Starting
<1>3. CASE CreateServers
  <2> USE <1>3 DEF CreateServers, NewServer
  <2>1. \A i \in 1 .. 2 : /\ PortOption[i] \in 1 .. 4
                          /\ config[PortOption[i]] = Wanted(vmargs, PortOption[i])
                          /\ config[PortOption[i]] \in Int
    BY ArgumentPort DEF OptionsRead, StartupTypeOK
  <2>2. StartupTypeOK'
    BY <2>1 DEF StartupTypeOK
  <2>3. Table'
    <3>1. \A i \in 1 .. 2 : server'[i].fd = NoFd
      OBVIOUS
    <3> QED
      BY <3>1, StartupAssumption DEF Table
  <2>4. OptionsRead'
    BY <2>1 DEF OptionsRead, Starting
  <2>5. Ordered'
    BY OneOrTwo, StartupAssumption DEF Ordered, OptionsRead, Starting, Idle, Listening
  <2> QED
    BY <2>2, <2>3, <2>4, <2>5
<1> QED
  BY <1>1, <1>2, <1>3

LEMMA CheckStep ==
    ASSUME SInv, CheckPort \/ SetOptions \/ SocketFails
    PROVE  SInv'
<1> USE OneOrTwo DEF SInv, CheckPort, SetOptions, SocketFails, Fails, PortOk
<1>1. StartupTypeOK'
  BY DEF StartupTypeOK
<1>2. Table' /\ OptionsRead'
  BY DEF Table, OptionsRead, Idle, Starting
<1>3. Ordered'
  <2>1. pc \in Starting /\ k \in 1 .. 2 /\ server[k].port \in Int
    BY DEF Starting, Ordered, StartupTypeOK
  <2>2. pc' \notin {"listen", "serving"}
    BY DEF Starting
  <2>3. pc' \in Starting \ {"start"} => Usable(server[k].port) /\ k' = k
    BY <2>1 DEF Usable, Ordered, Starting
  <2> QED
    BY <2>1, <2>2, <2>3 DEF Ordered, Idle, Listening, Starting
<1> QED
  BY <1>1, <1>2, <1>3

LEMMA SocketStep ==
    ASSUME SInv, NEW f \in FD, Socket(f)
    PROVE  SInv'
<1> USE OneOrTwo, StartupAssumption DEF SInv, Socket
<1>1. k \in 1 .. 2 /\ server[k].fd = NoFd /\ f # NoFd
  BY DEF Ordered, Starting, Idle
<1>2. StartupTypeOK'
  BY <1>1 DEF StartupTypeOK
<1>3. /\ server'[k] = [server[k] EXCEPT !.fd = f]
      /\ \A i \in 1 .. 2 : i # k => server'[i] = server[i]
  BY <1>1 DEF StartupTypeOK
<1>4. \A i \in 1 .. 2 : server[i].fd \in FD => server[i].fd # f
  BY DEF Table
<1>5. Table'
  BY <1>1, <1>3, <1>4 DEF Table, StartupTypeOK
<1>6. OptionsRead'
  BY <1>1, <1>3 DEF OptionsRead, Starting, StartupTypeOK
<1>7. Ordered'
  BY <1>1, <1>3 DEF Ordered, Idle, Listening, Starting, StartupTypeOK
<1> QED
  BY <1>2, <1>5, <1>6, <1>7

\* The port at hand is bound as it is: it has 16 bits, and is not 0.
LEMMA BoundAsIs ==
    ASSUME SInv, pc = "bind"
    PROVE  BoundTo(server[k].port) = {q \in {server[k].port} : listener[q] = "nobody"}
<1>1. k \in 1 .. 2 /\ server[k].port \in Int /\ Usable(server[k].port)
  BY OneOrTwo DEF SInv, Ordered, Starting, StartupTypeOK
<1>2. server[k].port % 65536 = server[k].port /\ server[k].port # 0
  BY <1>1, SixteenBits DEF Usable
<1> QED
  BY <1>2 DEF BoundTo

LEMMA BindStep ==
    ASSUME SInv, Bind
    PROVE  SInv'
<1> USE OneOrTwo DEF SInv, Bind
<1>1. PICK p \in BoundTo(server[k].port) : server' = [server EXCEPT ![k].bound = p]
  OBVIOUS
<1>2. p = server[k].port /\ listener[p] = "nobody"
  BY BoundAsIs
<1>3. k \in 1 .. 2 /\ server[k].port \in Int /\ Usable(server[k].port)
  BY DEF Ordered, Starting, StartupTypeOK
<1>4. p \in PortNos
  BY <1>2, <1>3, ArgumentPort DEF OptionsRead, Starting, StartupTypeOK
<1>5. StartupTypeOK'
  BY <1>1, <1>2, <1>3 DEF StartupTypeOK
<1>6. /\ server'[k] = [server[k] EXCEPT !.bound = p]
      /\ \A i \in 1 .. 2 : i # k => server'[i] = server[i]
  BY <1>1, <1>3 DEF StartupTypeOK
<1>7. Table' /\ OptionsRead'
  BY <1>3, <1>6 DEF Table, OptionsRead, Starting, StartupTypeOK
<1>8. Ordered'
  BY <1>2, <1>3, <1>4, <1>6 DEF Ordered, Idle, Listening, Starting, StartupTypeOK
<1> QED
  BY <1>5, <1>7, <1>8

LEMMA ListenStep ==
    ASSUME SInv, Listen
    PROVE  SInv'
<1> USE OneOrTwo DEF SInv, Listen
<1>1. k \in 1 .. 2 /\ k <= L /\ server[k].bound \in PortNos
  BY DEF Ordered, Starting
<1>2. StartupTypeOK'
  BY <1>1 DEF StartupTypeOK
<1>3. Table' /\ OptionsRead'
  BY DEF Table, OptionsRead, Starting
<1>4. /\ listener'[server[k].bound] = "server"
      /\ \A p \in PortNos : p # server[k].bound => listener'[p] = listener[p]
  BY <1>1 DEF StartupTypeOK
<1>5. \A i \in 1 .. 2 : i <= k => Listening(i)'
  <2>1. Usable(server[k].port) /\ server[k].fd \in FD /\ server[k].bound = server[k].port
    BY DEF Ordered, Starting
  <2>2. ASSUME NEW i \in 1 .. 2, i < k PROVE Listening(i)
    BY <1>1, <2>2 DEF Ordered, Starting
  <2>3. ASSUME NEW i \in 1 .. 2, i <= k PROVE Listening(i)'
    BY <1>1, <1>4, <2>1, <2>2, <2>3 DEF Listening
  <2> QED
    BY <2>3
<1>6. server[1].bound # server[2].bound \/ k = 1
  <2>1. ASSUME k = 2 PROVE Listening(1)
    BY <2>1 DEF Ordered, Starting
  <2> QED
    BY <1>1, <2>1 DEF Listening
<1>7. ASSUME k = 1 PROVE server[2].bound = 0 /\ 0 \notin PortNos
  BY <1>7, StartupAssumption DEF Ordered, Starting, Idle
<1>8. Ordered'
  <2>1. pc' = "start" => k' = k + 1 /\ k' = 2 /\ Idle(2)
    BY <1>1 DEF Ordered, Starting
  <2>2. pc' \in {"start", "serving"} /\ k' \in 1 .. L
    BY <1>1
  <2>3. pc' = "serving" => k = L
    BY <1>1
  <2>4. ~(Listening(1)' /\ Listening(2)' /\ server[1].bound = server[2].bound)
    BY <1>1, <1>6, <1>7 DEF Listening
  <2>5. \A i \in 1 .. k' - 1 : pc' = "start" => Listening(i)'
    BY <1>1, <1>5, <2>1
  <2>6. \A i \in 1 .. L : pc' = "serving" => Listening(i)'
    BY <1>1, <1>5, <2>3
  <2>7. \A i \in 1 .. L : i \in 1 .. 2
    OBVIOUS
  <2>8. pc' \in Starting => pc' = "start" /\ \A i \in 1 .. k' - 1 : Listening(i)'
    BY <2>2, <2>5 DEF Starting
  <2>9. pc' \in Starting => \A i \in k' + 1 .. 2 : Idle(i)'
    BY <2>1, <2>8
  <2>10. pc' = "start" => server'[k'].fd = NoFd /\ server'[k'].bound = 0
    BY <2>1 DEF Idle
  <2>11. server' = server
    OBVIOUS
  <2> HIDE DEF SInv, Listen
  <2> QED
    BY <2>2, <2>4, <2>6, <2>8, <2>9, <2>10, <2>11 DEF Ordered, Idle, Starting
<1> QED
  BY <1>2, <1>3, <1>8

LEMMA CloseStep ==
    ASSUME SInv, CloseAndFail
    PROVE  SInv'
<1> USE OneOrTwo, StartupAssumption DEF SInv, CloseAndFail, Fails
<1>1. k \in 1 .. 2 /\ pc \in Starting /\ server[k].fd \in FD
  BY DEF Ordered, Starting, CallFails
<1>2. /\ held' = [held EXCEPT ![server[k].fd] = "free"]
      /\ server'[k] = [server[k] EXCEPT !.fd = NoFd]
      /\ \A i \in 1 .. 2 : i # k => server'[i] = server[i]
  BY <1>1 DEF Closed, StartupTypeOK
<1>3. StartupTypeOK'
  BY <1>1, <1>2 DEF StartupTypeOK
<1>4. Table'
  BY <1>1, <1>2 DEF Table, StartupTypeOK
<1>5. OptionsRead' /\ Ordered'
  BY DEF OptionsRead, Ordered, Starting
<1> QED
  BY <1>3, <1>4, <1>5

LEMMA ClearStep ==
    ASSUME SInv, Clear
    PROVE  SInv'
<1> USE OneOrTwo, StartupAssumption DEF SInv, Clear
<1>1. k \in 1 .. 2 /\ k <= L
  BY DEF Ordered
<1>2. /\ server'[k].fd = NoFd
      /\ \A i \in 1 .. 2 : i # k => server'[i] = server[i]
      /\ \A f \in FD : f # server[k].fd => held'[f] = held[f]
  BY <1>1 DEF Closed, StartupTypeOK
<1>3. StartupTypeOK'
  BY <1>1 DEF StartupTypeOK, Closed
<1>4. Table'
  BY <1>1, <1>2 DEF Table
<1>5. OptionsRead' /\ Ordered'
  BY <1>1 DEF OptionsRead, Ordered, Starting
<1> QED
  BY <1>3, <1>4, <1>5

LEMMA OthersStep ==
    ASSUME SInv, (\E f \in FD : OtherThread(f)) \/ (\E p \in PortNos : OtherProcess(p))
    PROVE  SInv'
<1> USE OneOrTwo DEF SInv, OtherThread, OtherProcess
<1>1. StartupTypeOK'
  BY DEF StartupTypeOK
<1>2. Table' /\ OptionsRead'
  BY DEF Table, OptionsRead, Idle, Starting, StartupTypeOK
<1>3. \A p \in PortNos : listener'[p] = "server" <=> listener[p] = "server"
  BY DEF StartupTypeOK
<1>4. Ordered'
  BY <1>3 DEF Ordered, Idle, Listening, Starting
<1> QED
  BY <1>1, <1>2, <1>4

LEMMA NextSInv == SInv /\ [StartupNext]_vars => SInv'
<1> SUFFICES ASSUME SInv, [StartupNext]_vars PROVE SInv'
  OBVIOUS
<1>1. CASE UNCHANGED vars
  BY <1>1 DEF vars, SInv, StartupTypeOK, Table, OptionsRead, Ordered, Idle, Listening
<1>2. CASE HandlerStep
  BY <1>2, OptionStep, CheckStep, SocketStep, BindStep, ListenStep, CloseStep,
     ClearStep DEF HandlerStep
<1>3. CASE (\E f \in FD : OtherThread(f)) \/ (\E p \in PortNos : OtherProcess(p))
  BY <1>3, OthersStep
<1> QED
  BY <1>1, <1>2, <1>3 DEF StartupNext

\* SInv holds from the first option read to the poll loop, or the end.
THEOREM StartupInvariance == StartupSpec => []SInv
  BY InitSInv, NextSInv, PTL DEF StartupSpec

\* The servers that are served listen where the options say.
THEOREM ServesAsConfigured == StartupSpec => []ListensAsConfigured
<1>1. ASSUME SInv, pc = "serving" PROVE ListensAsConfigured
  <2>1. L \in 1 .. 2 /\ \A i \in 1 .. L : i \in 1 .. 2 /\ Listening(i)
    BY <1>1, OneOrTwo DEF SInv, Ordered
  <2>2. ASSUME NEW i \in 1 .. L
        PROVE  /\ server[i].port = Wanted(vmargs, PortOption[i])
               /\ held[server[i].fd] = "server"
    BY <1>1, <2>1 DEF SInv, OptionsRead, Table, Listening
  <2>3. ASSUME NEW i \in 1 .. L, NEW j \in 1 .. L, i # j
        PROVE  server[i].bound # server[j].bound /\ server[i].fd # server[j].fd
    <3>1. Listening(1) /\ Listening(2) /\ {i, j} = {1, 2}
      BY <2>1, <2>3
    <3> QED
      BY <1>1, <3>1, StartupAssumption DEF SInv, Ordered, Table, Listening
  <2> QED
    BY <2>1, <2>2, <2>3 DEF ListensAsConfigured, Listening
<1>2. SInv => ListensAsConfigured
  BY <1>1 DEF ListensAsConfigured
<1> QED
  BY <1>2, StartupInvariance, PTL

\* Cleaning up after a failed start costs no other thread its descriptor.
THEOREM ForeignSafe == StartupSpec => NoForeignClose
<1>1. ASSUME SInv, HandlerStep, NEW f \in FD, held[f] = "foreign"
      PROVE  held'[f] = "foreign"
  <2> USE <1>1 DEF SInv
  <2>1. CASE \E g \in FD : Socket(g)
    BY <2>1 DEF Socket, StartupTypeOK
  <2>2. CASE CloseAndFail \/ Clear
    <3>1. k \in 1 .. 2 /\ held' = Closed(server[k].fd)
      BY <2>2, OneOrTwo DEF CloseAndFail, Clear, CallFails, Ordered, Starting
    <3>2. server[k].fd # f
      BY <3>1 DEF Table
    <3> QED
      BY <3>1, <3>2 DEF Closed, StartupTypeOK
  <2> QED
    BY <2>1, <2>2 DEF HandlerStep, ReadOption, ContextFails, CreateServers,
        CheckPort, SocketFails, SetOptions, Bind, Listen
<1>2. SInv /\ [StartupNext]_vars =>
        [HandlerStep => \A f \in FD : held[f] = "foreign" => held'[f] = "foreign"]_vars
  BY <1>1
<1> QED
  BY <1>2, StartupInvariance, PTL DEF StartupSpec, NoForeignClose

----------------------------------------------------------------------------
(* The abstract specification *)

\* The open ports, told by the place alone.
Before == IF pc = "serving" THEN 1 .. L
          ELSE IF pc \in Starting THEN 1 .. k - 1
          ELSE {}

LEMMA OpenedIs == SInv => Opened = Before
<1> SUFFICES ASSUME SInv, NEW i \in 1 .. L, Phase # "dead"
             PROVE  /\ server[i].fd \in FD /\ server[i].bound \in PortNos
                    /\ listener[server[i].bound] = "server"
                    <=> i \in Before
  <2>1. SInv => Before \subseteq 1 .. L
    BY OneOrTwo DEF Before, SInv, Ordered
  <2>2. Phase = "dead" => Before = {}
    BY DEF Phase, Before, Starting
  <2> QED
    BY <2>1, <2>2 DEF Opened
<1>1. i \in 1 .. 2 /\ NoFd \notin FD /\ 0 \notin PortNos
  BY OneOrTwo, StartupAssumption
<1>2. CASE pc = "serving"
  BY <1>2 DEF SInv, Ordered, Listening, Before
<1>3. CASE pc \in {"options", "context"}
  BY <1>1, <1>3 DEF SInv, OptionsRead, Idle, Before, Starting
<1>4. CASE pc \in Starting
  <2>1. k \in 1 .. 2 /\ (i < k \/ i = k \/ i > k)
    BY <1>1, <1>4, OneOrTwo DEF SInv, Ordered
  <2>2. CASE i < k
    BY <1>1, <1>4, <2>1, <2>2 DEF SInv, Ordered, Listening, Before, Starting
  <2>3. CASE i = k
    BY <1>1, <1>4, <2>1, <2>3 DEF SInv, Ordered, Idle, Before, Starting
  <2>4. CASE i > k
    BY <1>1, <1>4, <2>1, <2>4 DEF SInv, Ordered, Idle, Before, Starting
  <2> QED
    BY <2>1, <2>2, <2>3, <2>4
<1> QED
  BY <1>2, <1>3, <1>4 DEF SInv, StartupTypeOK, Phase, Starting

LEMMA OpenedIsThen == SInv' => (Opened = Before)'
  BY OpenedIs, PTL

LEMMA InitMaps == StartupInit => Service!ServiceInit
<1> SUFFICES ASSUME StartupInit PROVE Service!ServiceInit
  OBVIOUS
<1>1. Phase = "opening" /\ Before = {}
  BY DEF StartupInit, Phase, Before, Starting
<1> QED
  BY <1>1, InitSInv, OpenedIs DEF Service!ServiceInit

Stutter == Phase' = Phase /\ Opened' = Opened

LEMMA Stuttering == Stutter => UNCHANGED Service!svars
  BY DEF Stutter, Service!svars, Service!state

LEMMA Dying ==
    ASSUME SInv', Phase = "opening", Phase' = "dead"
    PROVE  Service!Die
<1>1. Opened' = {}
  BY DEF Opened
<1> QED
  BY <1>1 DEF Service!Die

LEMMA Opening ==
    ASSUME SInv, SInv', Listen
    PROVE  \E p \in 1 .. L : Service!Open(p)
<1>1. k \in 1 .. L /\ L \in 1 .. 2 /\ pc = "listen"
  BY OneOrTwo DEF SInv, Ordered, Starting, Listen
<1>2. Opened = 1 .. k - 1 /\ Phase = "opening"
  BY <1>1, OpenedIs DEF Before, Starting, Phase
<1>3. Opened' = 1 .. k
  <2>1. Opened' = Before'
    BY OpenedIsThen
  <2>2. CASE k < L
    BY <1>1, <2>1, <2>2 DEF Listen, Before, Starting
  <2>3. CASE k = L
    BY <1>1, <2>1, <2>3 DEF Listen, Before
  <2> QED
    BY <1>1, <2>2, <2>3
<1>4. Phase' = IF k < L THEN "opening" ELSE "serving"
  BY <1>1 DEF Listen, Phase
<1>5. (1 .. k = 1 .. L) <=> ~(k < L)
  BY <1>1
<1>6. 1 .. k = (1 .. k - 1) \cup {k} /\ k \notin 1 .. k - 1
  BY <1>1
<1>7. Service!Open(k)
  BY <1>2, <1>3, <1>4, <1>5, <1>6 DEF Service!Open
<1> QED
  BY <1>1, <1>7

LEMMA StepMaps ==
    ASSUME SInv, SInv', [StartupNext]_vars
    PROVE  [Service!ServiceNext]_Service!svars
<1>1. Opened = Before /\ Opened' = Before'
  BY OpenedIs, OpenedIsThen
<1>2. Service!Die \/ (\E p \in 1 .. L : Service!Open(p)) => Service!ServiceNext
  BY DEF Service!ServiceNext, Service!Serve
<1>3. CASE Listen
  BY <1>2, <1>3, Opening
<1>4. CASE UNCHANGED vars
  BY <1>4, Stuttering DEF vars, Stutter, Phase, Opened
<1>5. CASE \/ ReadOption \/ ContextFails \/ CreateServers
           \/ CheckPort \/ SocketFails \/ CloseAndFail
  <2>1. Phase = "opening"
    BY <1>5 DEF ReadOption, ContextFails, CreateServers, CheckPort, SocketFails,
        CloseAndFail, CallFails, Phase
  <2>2. Phase' = "dead" \/ (Phase' = "opening" /\ Before' = Before)
    BY <1>5, OneOrTwo DEF ReadOption, ContextFails, CreateServers, CheckPort,
       SocketFails, CloseAndFail, Fails, Phase, Before, Starting, SInv, OptionsRead
  <2> QED
    BY <1>1, <1>2, <2>1, <2>2, Dying, Stuttering DEF Stutter
<1>6. CASE (\E f \in FD : Socket(f)) \/ SetOptions \/ Bind
  <2>1. Phase' = Phase /\ Before' = Before
    BY <1>6 DEF Socket, SetOptions, Bind, Phase, Before, Starting
  <2> QED
    BY <1>1, <2>1, Stuttering DEF Stutter
<1>7. CASE Clear
  <2>1. Phase = "dead" /\ Phase' = "dead"
    BY <1>7 DEF Clear, Phase
  <2> QED
    BY <2>1, Stuttering DEF Stutter, Opened
<1>8. CASE (\E f \in FD : OtherThread(f)) \/ (\E p \in PortNos : OtherProcess(p))
  <2>1. Phase' = Phase /\ Before' = Before
    BY <1>8 DEF OtherThread, OtherProcess, Phase, Before
  <2> QED
    BY <1>1, <2>1, Stuttering DEF Stutter
<1> QED
  BY <1>3, <1>4, <1>5, <1>6, <1>7, <1>8 DEF StartupNext, HandlerStep

\* The start of the server, call by call, is what the abstract service promises
\* of it: ports open one by one, and it serves with all of them or dies.
THEOREM StartupRefines == StartupSpec => StartupImplementsService
<1>1. StartupSpec => Service!ServiceInit
  BY InitMaps DEF StartupSpec
<1>2. SInv /\ SInv' /\ [StartupNext]_vars => [Service!ServiceNext]_Service!svars
  BY StepMaps
<1> QED
  BY <1>1, <1>2, StartupInvariance, PTL
  DEF StartupSpec, StartupImplementsService, Service!ServiceSpec
=============================================================================
