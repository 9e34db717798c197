-------------------------------- MODULE Demo --------------------------------
(***************************************************************************)
(* The two demo programs and the port between them.  The autoscaler starts *)
(* JITServer instances, one when a load reaches HighLoad, and tells        *)
(* whoever listens on port 2000 the new instance's port and the loads      *)
(* Prometheus has reported; the launcher spreads a number of compilation   *)
(* requests over the ports it has heard of.  An instance, and each of its  *)
(* ports, is known by its number: instance n has ports 3839 + n,           *)
(* 7388 + 2n and 7389 + 2n.                                                *)
(***************************************************************************)
EXTENDS Integers, Sequences, FiniteSets, Functions

CONSTANTS
    HighLoad,      \* 5
    MaxInstances,  \* 5
    Loads,         \* loads Prometheus may report
    Total          \* requests to launch

ASSUME DemoAssumption ==
    /\ HighLoad \in Nat \ {0} /\ MaxInstances \in Nat \ {0}
    /\ Loads \subseteq Nat /\ Total \in Nat \ {0}

VARIABLES
    instances,  \* number of JITServer instances: len(metric_ports)
    report,     \* get_metrics(): loads of the instances that have answered
    scaler,     \* the autoscaler's place
    backlog,    \* connections to port 2000 that are not accepted yet
    launcher,   \* the launcher's place
    i,          \* the port its round of requests has come to
    maxload,    \* of that round
    ports, loads, finished,
    left,       \* load: requests still to launch
    fired,      \* history: requests launched
    gaps        \* history: a port was not heard of, or a load not reported

autoscaler == <<instances, report, scaler>>
launching  == <<launcher, i, maxload, ports, loads, finished, left, fired>>
vars       == <<autoscaler, backlog, launching, gaps>>

Listening == launcher \notin {"off", "done"} /\ ~finished

DemoInit ==
    /\ instances = 1 /\ report = [n \in {1} |-> 0]
    /\ scaler = "send" /\ backlog = <<>>
    /\ launcher = "off" /\ i = 1 /\ maxload = 0
    /\ ports = <<>> /\ loads = <<>> /\ finished = FALSE
    /\ left = Total /\ fired = 0 /\ gaps = FALSE

----------------------------------------------------------------------------
(* jitserver_autoscaler.py *)

\* Mutant: the newest instance's load is sent first.
ReportedBackwards(n) ==
    CHOOSE m \in DOMAIN report : Cardinality({k \in DOMAIN report : k >= m}) = n

\* The n-th of metric_ports that has a load: the one whose load is sent n-th.
Reported(n) ==
    CHOOSE m \in DOMAIN report : Cardinality({k \in DOMAIN report : k <= m}) = n

Message ==
    [port   |-> instances,
     loads  |-> [n \in 1 .. Cardinality(DOMAIN report) |-> report[Reported(n)]],
     report |-> report]

\* send_new_port(): nobody hears of the port if nobody listens.
SendNewPort ==
    /\ scaler = "send" /\ scaler' = "round"
    /\ backlog' = IF Listening THEN Append(backlog, Message) ELSE backlog
    /\ gaps' = (gaps \/ ~Listening
                     \/ \E n \in 1 .. instances - 1 : n \notin DOMAIN report)
    /\ UNCHANGED <<instances, report, launching>>

\* At most one new instance in a round, whoever is loaded.
Round ==
    /\ scaler = "round"
    /\ \E known \in SUBSET (1 .. instances) : report' \in [known -> Loads]
    /\ IF /\ \E n \in DOMAIN report' : report'[n] >= HighLoad
          /\ instances < MaxInstances
       THEN instances' = instances + 1 /\ scaler' = "send"
       ELSE UNCHANGED <<instances, scaler>>
    /\ UNCHANGED <<backlog, launching, gaps>>

----------------------------------------------------------------------------
(* jitserver_request_launcher.py *)

Start ==
    /\ launcher = "off" /\ launcher' = "receive"
    /\ UNCHANGED <<autoscaler, backlog, i, maxload, ports, loads, finished, left,
                   fired, gaps>>

Lower(m, n) == IF m < n THEN m ELSE n

\* What max(max(loads), 5) is taken of.
Levels == Range(loads) \cup {HighLoad}

BeginRound ==
    /\ launcher = "begin"
    /\ IF ports = <<>> THEN launcher' = "receive" /\ UNCHANGED <<i, maxload>>
       ELSE /\ launcher' = "fire" /\ i' = 1
            /\ \E m \in Levels : (\A n \in Levels : n <= m) /\ maxload' = m
    /\ UNCHANGED <<autoscaler, backlog, ports, loads, finished, left, fired, gaps>>

\* Mutant: not bounded by what is left to launch.
IterationsUnbounded == IF loads[i] >= HighLoad THEN 0 ELSE maxload - loads[i]

Iterations ==
    IF loads[i] >= HighLoad THEN 0 ELSE Lower(maxload - loads[i], left)

\* Mutant: a loaded port is believed to stay so.
NewLoadOnlyIfFired ==
    IF loads[i] >= HighLoad THEN loads ELSE [loads EXCEPT ![i] = HighLoad - 1]

NewLoad == [loads EXCEPT ![i] = HighLoad - 1]

\* The connections that wait when the socket is closed are reset.
Fire ==
    /\ launcher = "fire"
    /\ left' = left - Iterations /\ fired' = fired + Iterations
    /\ IF left' = 0
       THEN launcher' = "done" /\ backlog' = <<>> /\ UNCHANGED <<i, loads>>
       ELSE /\ loads' = NewLoad /\ UNCHANGED backlog
            /\ IF i < Len(ports) THEN i' = i + 1 /\ UNCHANGED launcher
                                 ELSE i' = 1 /\ launcher' = "receive"
    /\ UNCHANGED <<autoscaler, maxload, ports, finished, gaps>>

\* What recv() has not got by the end of the stream is taken for zeros.
LoadsRead(message, size, n) ==
    [m \in 1 .. size |->
        IF m > n THEN (IF m < size THEN loads[m] ELSE 0)
        ELSE IF m <= Len(message.loads) THEN message.loads[m] ELSE 0]

Receive ==
    /\ launcher = "receive" /\ ~finished /\ backlog # <<>>
    /\ LET message == Head(backlog)
           size    == Len(ports) + 1
       IN  /\ ports' = Append(ports, message.port)
           /\ loads' = LoadsRead(message, size, size)
    /\ backlog' = Tail(backlog)
    /\ launcher' = "begin"
    /\ UNCHANGED <<autoscaler, i, maxload, finished, left, fired, gaps>>

\* accept() or recv() times out: nothing more is received, ever.  What has been
\* read of the connection in hand, a port and n loads, stays.
TimesOut ==
    /\ launcher = "receive" /\ ~finished
    /\ finished' = TRUE /\ backlog' = <<>>
    /\ \/ UNCHANGED <<ports, loads>>
       \/ /\ backlog # <<>>
          /\ ports' = Append(ports, Head(backlog).port)
          /\ \E n \in 0 .. Len(ports) :
                loads' = LoadsRead(Head(backlog), Len(ports) + 1, n)
    /\ launcher' = "begin"
    /\ UNCHANGED <<autoscaler, i, maxload, left, fired, gaps>>

PassOver ==
    /\ launcher = "receive" /\ finished
    /\ launcher' = "begin"
    /\ UNCHANGED <<autoscaler, backlog, i, maxload, ports, loads, finished, left,
                   fired, gaps>>

LauncherStep == BeginRound \/ Fire \/ Receive \/ TimesOut \/ PassOver

DemoNext == SendNewPort \/ Round \/ Start \/ LauncherStep

DemoSpec == DemoInit /\ [][DemoNext]_vars

\* Both sockets of the launcher have timeouts: it always goes on.
FairDemo == DemoSpec /\ WF_vars(LauncherStep)

----------------------------------------------------------------------------
(* Properties *)

\* As many requests as were asked for are launched, whatever loads arrive
\* (jitserver_request_launcher.py 62-72).
LaunchesTotal ==
    /\ fired <= Total
    /\ launcher = "done" => fired = Total

\* While every port has been heard of and every load reported, a load the
\* launcher reads is that of the port at the same place: one side counts the
\* ports it knows, the other sends the loads it has (autoscaler 34-39,
\* launcher 36-46).
LoadsBelongToPorts ==
    [][Receive /\ ~gaps =>
          LET message == Head(backlog)
          IN  \A n \in 1 .. Len(ports') :
                 loads'[n] = IF ports'[n] \in DOMAIN message.report
                             THEN message.report[ports'[n]] ELSE 0]_vars

\* A launcher that has heard of one port launches all its requests and ends,
\* though every port may be loaded and nobody sends any more.
LauncherEnds == ports # <<>> ~> launcher = "done"
=============================================================================
