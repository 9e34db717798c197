---------------------------- MODULE MetricSystem ----------------------------
(***************************************************************************)
(* A metric server from start() to stop(): the life cycle of its thread    *)
(* (MetricServer) with the service that thread provides (MetricService) in *)
(* the place of the handler's opaque return.  The two meet at the exit     *)
(* flag, which stop() sets and the service obeys, at the return of         *)
(* TR_MetricServerHandlerStart, which comes when the service is closed,    *)
(* and at exit(1), which ends both.                                        *)
(***************************************************************************)
EXTENDS MetricServer

CONSTANTS Conn, NoConn, Ports, Limit   \* as in MetricService

ASSUME SystemAssumption ==
    /\ NoConn \notin Conn /\ Ports # {} /\ Limit \in Nat
    /\ HandlerGivesUp = TRUE /\ HandlerExits = TRUE

VARIABLES phase, ports, conns, asking, spared, lapsed   \* as in MetricService

Service == INSTANCE MetricService WITH stopFlag <- exitFlag

service == <<phase, ports, conns, asking, spared, lapsed>>
allvars == <<vars, service>>

SystemInit == Init /\ Service!ServiceInit

\* Everything but the time the thread spends in the handler.
ThreadStep ==
    /\ StartStep \/ ServerStep \/ StopStep \/ CallStep
       \/ (\E j \in Joiners : JoinStep(j)) \/ WakeStep \/ Rest
    /\ UNCHANGED service

\* Mutant: the thread runs the handler before it has attached to the VM.
ServeUnattached(step) ==
    /\ Alive /\ pc[Server] \in {"attach", "serve"}
    /\ step
    /\ UNCHANGED <<pc, sync, attached, fields, attachError>>

\* The handler runs: its thread is in TR_MetricServerHandlerStart.
InHandler(step) ==
    /\ Alive /\ pc[Server] = "serve"
    /\ step
    /\ UNCHANGED <<pc, sync, attached, fields, attachError>>

ServeStep == InHandler(Service!Serve)
CloseStep == InHandler(Service!Close)

\* Mutant: the handler returns as soon as it stops serving.
HandlerReturnsClosing ==
    phase \in {"closing", "closed"} /\ HandlerStep /\ UNCHANGED service

HandlerReturn == phase = "closed" /\ HandlerStep /\ UNCHANGED service

ProcessExit == Exit /\ Service!Die

SystemNext == ThreadStep \/ ServeStep \/ CloseStep \/ HandlerReturn \/ ProcessExit

SystemSpec == SystemInit /\ [][SystemNext]_allvars

\* The threads' fairness is MetricServer's.  In the handler one thread runs
\* one loop: a listener is opened or the process ends, what is read is answered
\* or dropped, and the flag is seen again and again until it is obeyed
\* (ShutdownCompletes of MetricServerHandler).
FairSystem ==
    /\ SystemSpec
    /\ WF_allvars(StartStep /\ UNCHANGED service)
    /\ SF_allvars(ServerStep /\ UNCHANGED service)
    /\ WF_allvars(StopStep /\ UNCHANGED service)
    /\ \A j \in Joiners : WF_allvars(JoinStep(j) /\ UNCHANGED service)
    /\ WF_allvars(InHandler(\E p \in Ports : Service!Open(p)))
    /\ WF_allvars(InHandler(Service!Answer))
    /\ SF_allvars(CloseStep)
    /\ WF_allvars(HandlerReturn)

----------------------------------------------------------------------------

\* No port is open, and no connection but the refused one.
Silent == ports = {} /\ conns \subseteq {spared}

\* When stop() or waitForMetricServerExit() has come back from a server that
\* had been started, nobody is connected to it or can connect any more, even
\* if it ended by itself (MetricServer.cpp 149-166; MetricServerHandler.cpp
\* 579-594).
ReturnedMeansSilent ==
    (pc[Stopper] = "returned" /\ exitFlag)
        \/ (\E j \in Joiners : pc[j] = "returned" /\ osThread)
    => Silent

\* A port is open only while stop() can find the server and its thread is
\* attached to the VM whose counters it reads (MetricServer.cpp 82-101).
OpenMeansStoppable ==
    ports # {} \/ ~(conns \subseteq {spared}) =>
        metricServer /\ attached = "attached" /\ ~dead

\* Once stop() waits the server falls silent, even if the stop itself is never
\* woken (stop_hangs).
StopSilences == pc[Stopper] = "wait" ~> Silent
=============================================================================
