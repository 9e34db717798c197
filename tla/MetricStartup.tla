--------------------------- MODULE MetricStartup ---------------------------
(***************************************************************************)
(* TR_MetricServerHandlerStart up to its poll loop: the options, the SSL   *)
(* context, and both Servers' serverStart() call by call, with what a      *)
(* failure clears before it ends the JVM.  The JVM's other threads open    *)
(* and close descriptors meanwhile, and other processes come and go on the *)
(* ports.                                                                  *)
(***************************************************************************)
EXTENDS Integers, Sequences

CONSTANTS
    FD,       \* descriptors the process can open
    NoFd,     \* the code's -1
    UseSSL,   \* CommunicationStream::useSSL()
    Absent,   \* an option that is not among the VM's arguments
    VmArgs,   \* the values the four options may be given
    PortNos,  \* ports of the machine
    NoConn,
    Faults    \* calls that may fail for reasons of their own

\* -XX:MetricServerPort=, TimeoutMs=, MaxConnections= and -XX:MetricHttpsPort=
Default == <<7390, 100, 10, 7391>>

L == IF UseSSL THEN 2 ELSE 1

Wanted(args, o) == IF args[o] = Absent THEN Default[o] ELSE args[o]

\* The options that name the ports of the HTTP and the HTTPS server.
PortOption == <<1, 4>>

Usable(p) == 1024 <= p /\ p <= 65535

ASSUME StartupAssumption ==
    /\ NoFd \notin FD /\ UseSSL \in BOOLEAN /\ Absent \notin Int
    /\ VmArgs \subseteq [1 .. 4 -> Int \cup {Absent}]
    /\ \A p \in PortNos : p \in Nat /\ 0 < p /\ p < 65536
    /\ \A args \in VmArgs, i \in 1 .. 2 :
          Usable(Wanted(args, PortOption[i])) =>
              Wanted(args, PortOption[i]) \in PortNos

VARIABLES
    vmargs,   \* the VM's arguments
    config,   \* metricPort, metricTimeout, ... as far as they are read
    pc,
    k,        \* the option, or the server, at hand
    server,   \* _sockfd and _port of both, and the port the kernel has bound
    held,     \* the descriptor table: who holds which number
    listener  \* who listens on which port

vars == <<vmargs, config, pc, k, server, held, listener>>

NewServer(port) == [fd |-> NoFd, port |-> port, bound |-> 0]

StartupInit ==
    /\ vmargs \in VmArgs
    /\ config = Default
    /\ pc = "options" /\ k = 1
    /\ server = [i \in 1 .. 2 |-> NewServer(0)]
    /\ held = [f \in FD |-> "free"]
    /\ listener \in [PortNos -> {"nobody", "other"}]

----------------------------------------------------------------------------
(* Options and context *)

ReadOption ==
    /\ pc = "options"
    /\ config' = [config EXCEPT ![k] = Wanted(vmargs, k)]
    /\ IF vmargs[k] # Absent /\ vmargs[k] <= 0 THEN pc' = "exit" /\ k' = 1
       ELSE IF k = 4 THEN pc' = "context" /\ k' = 1
       ELSE k' = k + 1 /\ UNCHANGED pc
    /\ UNCHANGED <<vmargs, server, held, listener>>

\* createSSLContext() ends the JVM at the first call that fails.
ContextFails ==
    /\ pc = "context" /\ UseSSL /\ "ssl" \in Faults
    /\ pc' = "exit"
    /\ UNCHANGED <<vmargs, config, k, server, held, listener>>

CreateServers ==
    /\ pc = "context"
    /\ server' = [i \in 1 .. 2 |-> NewServer(config[PortOption[i]])]
    /\ pc' = "start"
    /\ UNCHANGED <<vmargs, config, k, held, listener>>

----------------------------------------------------------------------------
(* serverStart() *)

\* Mutant: a server that does not start is done without.
FailsSoftly == pc' = (IF k = 1 THEN "clear" ELSE "serving") /\ k' = 1

\* serverStart() < 0
Fails == pc' = "clear" /\ k' = 1

\* Mutant: the upper bound is the first port that does not exist.
PortOkTo65536(port) == 1024 <= port /\ port <= 65536

PortOk(port) == ~(port < 1024) /\ ~(port > 65535)

CheckPort ==
    /\ pc = "start"
    /\ IF PortOk(server[k].port) THEN pc' = "socket" /\ UNCHANGED k ELSE Fails
    /\ UNCHANGED <<vmargs, config, server, held, listener>>

Socket(f) ==
    /\ pc = "socket" /\ held[f] = "free"
    /\ held' = [held EXCEPT ![f] = "server"]
    /\ server' = [server EXCEPT ![k].fd = f]
    /\ pc' = "setsockopt"
    /\ UNCHANGED <<vmargs, config, k, listener>>

SocketFails ==
    /\ pc = "socket"
    /\ "socket" \in Faults \/ \A f \in FD : held[f] # "free"
    /\ Fails
    /\ UNCHANGED <<vmargs, config, server, held, listener>>

\* SO_REUSEADDR and SO_KEEPALIVE
SetOptions ==
    /\ pc = "setsockopt" /\ pc' = "bind"
    /\ UNCHANGED <<vmargs, config, k, server, held, listener>>

\* sin_port has 16 bits; 0 stands for any port that is free.
BoundTo(port) ==
    LET p == port % 65536
    IN  IF p = 0 THEN {q \in PortNos : listener[q] = "nobody"}
                 ELSE {q \in {p} : listener[q] = "nobody"}

\* With SO_REUSEADDR only a listening socket is in the way.
Bind ==
    /\ pc = "bind"
    /\ \E p \in BoundTo(server[k].port) : server' = [server EXCEPT ![k].bound = p]
    /\ pc' = "listen"
    /\ UNCHANGED <<vmargs, config, k, held, listener>>

Listen ==
    /\ pc = "listen" /\ listener[server[k].bound] = "nobody"
    /\ listener' = [listener EXCEPT ![server[k].bound] = "server"]
    /\ IF k < L THEN pc' = "start" /\ k' = k + 1 ELSE pc' = "serving" /\ k' = 1
    /\ UNCHANGED <<vmargs, config, server, held>>

\* Another process may have come first between bind() and listen().
CallFails ==
    \/ pc = "setsockopt" /\ "setsockopt" \in Faults
    \/ pc = "bind" /\ BoundTo(server[k].port) = {}
    \/ pc = "listen" /\ listener[server[k].bound] # "nobody"

Closed(f) == IF f \in FD THEN [held EXCEPT ![f] = "free"] ELSE held

\* Mutant: the number of the closed descriptor is kept.
CloseAndKeep ==
    /\ CallFails
    /\ held' = Closed(server[k].fd)
    /\ Fails
    /\ UNCHANGED <<vmargs, config, server, listener>>

CloseAndFail ==
    /\ CallFails
    /\ held' = Closed(server[k].fd)
    /\ server' = [server EXCEPT ![k].fd = NoFd]
    /\ Fails
    /\ UNCHANGED <<vmargs, config, listener>>

\* serverClear() of one server after the other, then exit(1).
Clear ==
    /\ pc = "clear"
    /\ held' = Closed(server[k].fd)
    /\ listener' = [p \in PortNos |->
                      IF server[k].fd # NoFd /\ p = server[k].bound
                      THEN "nobody" ELSE listener[p]]
    /\ server' = [server EXCEPT ![k] = [fd |-> NoFd, port |-> -1, bound |-> 0]]
    /\ IF k < L THEN k' = k + 1 /\ UNCHANGED pc ELSE pc' = "exit" /\ k' = 1
    /\ UNCHANGED <<vmargs, config>>

HandlerStep ==
    \/ ReadOption \/ ContextFails \/ CreateServers
    \/ CheckPort
    \/ \E f \in FD : Socket(f)
    \/ SocketFails \/ SetOptions \/ Bind \/ Listen \/ CloseAndFail
    \/ Clear

----------------------------------------------------------------------------
(* The other threads and processes *)

OtherThread(f) ==
    /\ held[f] \in {"free", "foreign"}
    /\ held' = [held EXCEPT ![f] = IF @ = "free" THEN "foreign" ELSE "free"]
    /\ UNCHANGED <<vmargs, config, pc, k, server, listener>>

OtherProcess(p) ==
    /\ listener[p] \in {"nobody", "other"}
    /\ listener' = [listener EXCEPT ![p] = IF @ = "nobody" THEN "other" ELSE "nobody"]
    /\ UNCHANGED <<vmargs, config, pc, k, server, held>>

StartupNext ==
    \/ HandlerStep
    \/ \E f \in FD : OtherThread(f)
    \/ \E p \in PortNos : OtherProcess(p)

StartupSpec == StartupInit /\ [][StartupNext]_vars

----------------------------------------------------------------------------
(* Properties *)

StartupTypeOK ==
    /\ vmargs \in VmArgs /\ config \in [1 .. 4 -> Int]
    /\ pc \in {"options", "context", "start", "socket", "setsockopt", "bind",
               "listen", "serving", "clear", "exit"}
    /\ k \in 1 .. 4
    /\ server \in [1 .. 2 -> [fd : FD \cup {NoFd}, port : Int, bound : Int]]
    /\ held \in [FD -> {"free", "server", "foreign"}]
    /\ listener \in [PortNos -> {"nobody", "other", "server"}]

\* No failure closes a descriptor of another thread: each close of a failing
\* serverStart() forgets the number, and serverClear() looks at it
\* (MetricServerStruct.cpp 64-65, 113, 123).
NoForeignClose ==
    [][HandlerStep => \A f \in FD : held[f] = "foreign" => held'[f] = "foreign"]_vars

\* When the poll loop begins, each server listens on the port its option names,
\* or on its default, with a descriptor of its own; whatever else the arguments
\* say, the two ports differ and are between 1024 and 65535, as
\* src/server/README.md 13, 16 demand.
ListensAsConfigured ==
    pc = "serving" =>
        /\ \A i \in 1 .. L :
              LET p == Wanted(vmargs, PortOption[i])
              IN  /\ Usable(p) /\ server[i].bound = p
                  /\ listener[p] = "server"
                  /\ server[i].fd \in FD /\ held[server[i].fd] = "server"
        /\ \A i, j \in 1 .. L : i # j =>
              server[i].bound # server[j].bound /\ server[i].fd # server[j].fd

\* The ports as the outside sees them.
Phase ==
    CASE pc \in {"clear", "exit"} -> "dead"
      [] pc = "serving"           -> "serving"
      [] OTHER                    -> "opening"

Opened ==
    IF Phase = "dead" THEN {}
    ELSE {i \in 1 .. L : /\ server[i].fd \in FD /\ server[i].bound \in PortNos
                         /\ listener[server[i].bound] = "server"}

Service == INSTANCE MetricService WITH
    Conn <- {}, Ports <- 1 .. L, Limit <- 0,
    phase <- Phase, ports <- Opened, conns <- {}, asking <- NoConn,
    spared <- NoConn, lapsed <- FALSE, stopFlag <- FALSE

\* The ports open one after the other, and nothing is served before all are
\* open: a server that cannot start ends the process (lines 287-310 of
\* MetricServerHandler.cpp).
StartupImplementsService == Service!ServiceSpec
=============================================================================
