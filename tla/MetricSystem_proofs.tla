------------------------- MODULE MetricSystem_proofs -------------------------
(***************************************************************************)
(* Proofs about a server from start() to stop(), for every set of joiners, *)
(* connections and ports and every limit.                                  *)
(*                                                                         *)
(* First about the life cycle of the server's thread (MetricServer), whose *)
(* handler may give up or exit: what start and join promise holds even if  *)
(* any wait() returns without a notification; that the monitor outlives    *)
(* its users needs a stop() that is woken by a notification only.          *)
(*                                                                         *)
(* Then about the composition with the service: it keeps what MetricServer *)
(* states of the threads and what MetricService states of the service, and *)
(* ties the service's end to the return of stop() and of                   *)
(* waitForMetricServerExit().                                              *)
(***************************************************************************)
EXTENDS MetricSystem, FiniteSetTheorems, TLAPS

\* The part of LInv that needs no assumption on wait().
Phases == TypeOK /\ PhaseInv

\* In the initial state every place and every field is in order.
LEMMA InitLInv == Init => LInv
  BY ThreadsAssumption
  DEF Init, LInv, TypeOK, PhaseInv, MonitorInv, Threads, States, Serving, Stopping, Woken

----------------------------------------------------------------------------
(* Places and fields *)

\* The steps of start().
LEMMA StartPhases == ASSUME Phases, StartStep PROVE Phases'
<1> USE ThreadsAssumption
    DEF Phases, TypeOK, PhaseInv, Threads, States, Serving, Stopping, fields, sync, Goto, Alive
<1>1. CASE Alive /\ CreateMonitor
  BY <1>1 DEF CreateMonitor
<1>2. CASE Alive /\ CreateMonitorFails
  BY <1>2 DEF CreateMonitorFails
<1>3. CASE Alive /\ CreateThread
  BY <1>3 DEF CreateThread
<1>4. CASE Alive /\ CreateThreadFails
  BY <1>4 DEF CreateThreadFails
<1>5. CASE Alive /\ Enter(Starter, "enter", "check")
  BY <1>5 DEF Enter
<1>6. CASE Alive /\ CheckAttached
  BY <1>6 DEF CheckAttached
<1>7. CASE Alive /\ Reenter(Starter, "check")
  BY <1>7 DEF Reenter, Enter
<1>8. CASE Alive /\ LeaveStart
  BY <1>8 DEF LeaveStart
<1>9. CASE Alive /\ ReportAttach
  BY <1>9 DEF ReportAttach
<1> QED
  BY <1>1, <1>2, <1>3, <1>4, <1>5, <1>6, <1>7, <1>8, <1>9 DEF StartStep

\* The steps of metricServerProc(), the handler's return and exit among them.
LEMMA ServerPhases ==
    ASSUME Phases, ServerStep \/ HandlerStep \/ Exit
    PROVE  Phases'
<1> USE ThreadsAssumption
    DEF Phases, TypeOK, PhaseInv, Threads, States, Serving, Stopping, fields, sync, Goto, Alive
<1>1. CASE Alive /\ \E outcome \in {"attached", "failed"} : Attach(outcome)
  BY <1>1 DEF Attach
<1>2. CASE Alive /\ Enter(Server, "enter", "publish")
  BY <1>2 DEF Enter
<1>3. CASE Alive /\ Publish
  BY <1>3 DEF Publish
<1>4. CASE Alive /\ Detach
  BY <1>4 DEF Detach
<1>5. CASE Alive /\ Enter(Server, "enterLast", "finish")
  BY <1>5 DEF Enter
<1>6. CASE Alive /\ Finish
  BY <1>6 DEF Finish
<1>7. CASE HandlerStep
  BY <1>7 DEF HandlerStep, HandlerReturns
<1>8. CASE Exit
  BY <1>8 DEF Exit
<1> QED
  BY <1>1, <1>2, <1>3, <1>4, <1>5, <1>6, <1>7, <1>8 DEF ServerStep

\* The steps of stop() after its look at _metricServer.
LEMMA StopPhases == ASSUME Phases, StopStep PROVE Phases'
<1> USE ThreadsAssumption
    DEF Phases, TypeOK, PhaseInv, Threads, States, Serving, Stopping, fields, sync, Goto, Alive
<1>1. CASE Alive /\ Enter(Stopper, "enter", "flag")
  BY <1>1 DEF Enter
<1>2. CASE Alive /\ SetFlagAndWait
  BY <1>2 DEF SetFlagAndWait
<1>3. CASE Alive /\ Reenter(Stopper, "leave")
  BY <1>3 DEF Reenter, Enter
<1>4. CASE Alive /\ LeaveStop
  BY <1>4 DEF LeaveStop
<1>5. CASE Alive /\ DestroyMonitor
  BY <1>5 DEF DestroyMonitor
<1> QED
  BY <1>1, <1>2, <1>3, <1>4, <1>5 DEF StopStep

\* The calls of stop() and of the joiners, joins, and wake-ups.
LEMMA OtherPhases ==
    ASSUME Phases,
           CallStep \/ (\E j \in Joiners : JoinStep(j)) \/ WakeStep \/ Rest
               \/ UNCHANGED vars
    PROVE  Phases'
<1> USE ThreadsAssumption
    DEF Phases, TypeOK, PhaseInv, Threads, States, Serving, Stopping, fields, sync, Goto, Alive
<1>1. CASE Alive /\ Stop
  BY <1>1 DEF Stop
<1>2. CASE Alive /\ \E j \in Joiners : WaitForExit(j)
  BY <1>2 DEF WaitForExit
<1>3. CASE \E j \in Joiners : JoinStep(j)
  BY <1>3 DEF JoinStep, Join
<1>4. CASE WakeStep
  BY <1>4 DEF WakeStep, WakeSpuriously
<1>5. CASE Rest \/ UNCHANGED vars
  BY <1>5 DEF Rest, vars
<1> QED
  BY <1>1, <1>2, <1>3, <1>4, <1>5 DEF CallStep

\* Every step keeps them.
LEMMA NextPhases == Phases /\ [Next]_vars => Phases'
  BY StartPhases, ServerPhases, StopPhases, OtherPhases DEF Next

LEMMA PhasesInvariant == Spec => []Phases
<1>1. Init => Phases
  BY InitLInv DEF LInv, Phases
<1> QED
  BY <1>1, NextPhases, PTL DEF Spec

\* Every field, flag and place of start(), stop(), the joiners and the server's
\* thread keeps its type, with any thread's wait() returning without reason.
THEOREM LifecycleTypes == Spec => []TypeOK
<1>1. Phases => TypeOK
  BY DEF Phases
<1> QED
  BY <1>1, PhasesInvariant, PTL

----------------------------------------------------------------------------
(* Who wakes stop() *)

\* When stop() returns from wait() on a notification only, every step keeps
\* MonitorInv: the one notification that can reach it is Finish, since Publish
\* comes before the server is published and stop() waits only after that.
LEMMA NextMonitorInv ==
    ASSUME Stopper \notin SpuriousWakeups, LInv, Phases', [Next]_vars
    PROVE  MonitorInv'
<1> USE ThreadsAssumption
    DEF LInv, TypeOK, PhaseInv, MonitorInv, Threads, Serving, Stopping, Woken,
        fields, sync, Goto, Alive
<1>1. CASE StartStep
  BY <1>1 DEF StartStep, CreateMonitor, CreateMonitorFails, CreateThread,
              CreateThreadFails, Enter, CheckAttached, Reenter, LeaveStart,
              ReportAttach
<1>2. CASE ServerStep
  BY <1>2 DEF ServerStep, Attach, Enter, Publish, Detach, Finish
<1>3. CASE HandlerStep \/ Exit
  BY <1>3 DEF HandlerStep, HandlerReturns, Exit
<1>4. CASE StopStep
  BY <1>4 DEF StopStep, Enter, SetFlagAndWait, Reenter, LeaveStop, DestroyMonitor
<1>5. CASE CallStep
  BY <1>5 DEF CallStep, Stop, WaitForExit
<1>6. CASE \E j \in Joiners : JoinStep(j)
  BY <1>6 DEF JoinStep, Join
<1>7. CASE WakeStep
  BY <1>7 DEF WakeStep, WakeSpuriously
<1>8. CASE Rest \/ UNCHANGED vars
  BY <1>8 DEF Rest, vars
<1> QED
  BY <1>1, <1>2, <1>3, <1>4, <1>5, <1>6, <1>7, <1>8 DEF Next

----------------------------------------------------------------------------
(* What start() and waitForMetricServerExit() promise *)

\* StartedMeansAttempted: when start() has come back, the thread it created
\* has made its attempt, even if start()'s wait() returns without reason.
THEOREM Started == Spec => []StartedMeansAttempted
<1>1. Phases => StartedMeansAttempted
  BY ThreadsAssumption
  DEF Phases, TypeOK, PhaseInv, Serving, Stopping, StartedMeansAttempted
<1> QED
  BY <1>1, PhasesInvariant, PTL

\* JoinedMeansGone: whoever has joined finds no server, and a detached thread.
THEOREM Joined == Spec => []JoinedMeansGone
<1>1. Phases => JoinedMeansGone
  BY ThreadsAssumption
  DEF Phases, TypeOK, PhaseInv, Serving, Stopping, JoinedMeansGone
<1> QED
  BY <1>1, PhasesInvariant, PTL

\* AttachErrorExplained: the message of a failed attach is never printed of a
\* server that runs.
THEOREM Reported == Spec => []AttachErrorExplained
<1>1. Phases => AttachErrorExplained
  BY ThreadsAssumption
  DEF Phases, TypeOK, PhaseInv, Serving, Stopping, AttachErrorExplained
<1> QED
  BY <1>1, PhasesInvariant, PTL

----------------------------------------------------------------------------
(* What stop() promises *)

\* LInv: the inductive invariant, for a stop() that only a notification wakes.
THEOREM LifecycleInvariance ==
    ASSUME Stopper \notin SpuriousWakeups
    PROVE  Spec => []LInv
<1>1. LInv /\ [Next]_vars => LInv'
  <2> SUFFICES ASSUME LInv, [Next]_vars PROVE LInv'
    OBVIOUS
  <2>1. Phases'
    BY NextPhases DEF Phases, LInv
  <2>2. MonitorInv'
    BY <2>1, NextMonitorInv
  <2> QED
    BY <2>1, <2>2 DEF Phases, LInv
<1> QED
  BY <1>1, InitLInv, PTL DEF Spec

\* MonitorOutlivesUsers: the monitor is destroyed when nobody will enter it.
THEOREM MonitorSafe ==
    ASSUME Stopper \notin SpuriousWakeups
    PROVE  Spec => []MonitorOutlivesUsers
<1>1. LInv => MonitorOutlivesUsers
  BY ThreadsAssumption
  DEF LInv, TypeOK, PhaseInv, MonitorInv, Serving, Stopping, MonitorOutlivesUsers,
      UsesMonitor, Threads
<1>2. Spec => []LInv
  BY LifecycleInvariance
<1> QED
  BY <1>1, <1>2, PTL

\* StoppedMeansEnded: a stop() that found a server returns after its thread.
THEOREM Stopped ==
    ASSUME Stopper \notin SpuriousWakeups
    PROVE  Spec => []StoppedMeansEnded
<1>1. LInv => StoppedMeansEnded
  BY ThreadsAssumption
  DEF LInv, TypeOK, PhaseInv, MonitorInv, Serving, Stopping, Woken, StoppedMeansEnded
<1>2. Spec => []LInv
  BY LifecycleInvariance
<1> QED
  BY <1>1, <1>2, PTL

----------------------------------------------------------------------------
(* The composition: the threads and the service *)

\* What the place of the server's thread says of its service: nothing is open
\* before the handler runs, and nothing but the refused connection after it.
HandlerInv ==
    /\ phase \in {"closed", "dead"} => Silent
    /\ pc[Server] \in {"idle", "attach", "enter", "publish"}
           \/ (pc[Server] = "returned" /\ attached = "failed")
       => phase = "opening" /\ Silent
    /\ pc[Server] \in {"detach", "enterLast", "finish"}
           \/ (pc[Server] = "returned" /\ attached = "detached")
       => phase = "closed"
    /\ dead => phase = "dead"

LEMMA InitHandlerInv == SystemInit => HandlerInv
  BY ThreadsAssumption
  DEF SystemInit, Init, Service!ServiceInit, HandlerInv, Silent, Threads

\* The composition's steps are the threads' or leave the threads alone.
LEMMA SystemStep == [SystemNext]_allvars => [Next]_vars
  BY DEF SystemNext, ThreadStep, ServeStep, CloseStep, InHandler, HandlerReturn,
     ProcessExit, Next, allvars, vars, Alive

\* In the handler's steps the service closes only by Shut, which leaves it
\* silent.
LEMMA HandlerStepInv ==
    ASSUME Phases, HandlerInv, ServeStep \/ CloseStep
    PROVE  HandlerInv'
<1>1. /\ pc[Server] = "serve" /\ ~dead
      /\ UNCHANGED <<pc, attached, dead>>
  BY DEF ServeStep, CloseStep, InHandler, Alive
<1>2. CASE ServeStep
  <2>1. Service!Serve
    BY <1>2 DEF ServeStep, InHandler
  <2>2. phase' \notin {"closed", "dead"} \/ (phase' = phase /\ Silent')
    BY <2>1 DEF Service!Serve, Service!Open, Service!Take, Service!Read, Service!Answer,
       Service!Drop, Service!Lapse, Service!Recover, Service!GiveUp, HandlerInv, Silent
  <2> QED
    BY <1>1, <2>2 DEF HandlerInv
<1>3. CASE CloseStep
  <2>1. Service!Close
    BY <1>3 DEF CloseStep, InHandler
  <2>2. phase' \in {"closed", "dead"} => Silent'
    BY <2>1 DEF Service!Close, Service!Obey, Service!Shed, Service!Shut, Silent
  <2> QED
    BY <1>1, <2>2 DEF HandlerInv
<1> QED
  BY <1>2, <1>3

\* The threads' steps leave the service alone, and reach the handler by
\* Publish and the end of the thread through Detach only.
LEMMA ThreadStepInv ==
    ASSUME Phases, HandlerInv, ThreadStep
    PROVE  HandlerInv'
<1> USE ThreadsAssumption
    DEF Phases, TypeOK, PhaseInv, Threads, Serving, HandlerInv, fields, sync, Goto, Alive
<1>1. UNCHANGED service /\ Silent' = Silent
  BY DEF ThreadStep, service, Silent
<1>2. CASE StartStep
  BY <1>1, <1>2 DEF service, StartStep, CreateMonitor, CreateMonitorFails, CreateThread,
              CreateThreadFails, Enter, CheckAttached, Reenter, LeaveStart, ReportAttach
<1>3. CASE ServerStep
  BY <1>1, <1>3 DEF service, ServerStep, Attach, Enter, Publish, Detach, Finish
<1>4. CASE StopStep
  BY <1>1, <1>4 DEF service, StopStep, Enter, SetFlagAndWait, Reenter, LeaveStop,
              DestroyMonitor
<1>5. CASE CallStep \/ (\E j \in Joiners : JoinStep(j))
  BY <1>1, <1>5 DEF service, CallStep, Stop, WaitForExit, JoinStep, Join
<1>6. CASE WakeStep \/ Rest
  BY <1>1, <1>6 DEF service, WakeStep, WakeSpuriously, Rest, vars
<1> QED
  BY <1>2, <1>3, <1>4, <1>5, <1>6 DEF ThreadStep

LEMMA NextHandlerInv ==
    ASSUME Phases, HandlerInv, [SystemNext]_allvars
    PROVE  HandlerInv'
<1>1. CASE HandlerReturn
  BY <1>1, ThreadsAssumption
     DEF HandlerReturn, HandlerStep, HandlerReturns, service, Goto, Alive, HandlerInv,
         Silent, Phases, TypeOK, PhaseInv, Threads, fields, sync
<1>2. CASE ProcessExit
  <2>1. pc[Server] = "serve" /\ UNCHANGED <<pc, attached>> /\ phase' = "dead"
        /\ Silent'
    BY <1>2 DEF ProcessExit, Exit, Service!Die, Silent
  <2> QED
    BY <2>1 DEF HandlerInv
<1>3. CASE UNCHANGED allvars
  BY <1>3 DEF allvars, vars, service, HandlerInv, Silent
<1> QED
  BY <1>1, <1>2, <1>3, ThreadStepInv, HandlerStepInv DEF SystemNext

LEMMA SystemInvariance == SystemSpec => [](Phases /\ HandlerInv)
<1>1. SystemInit => Phases /\ HandlerInv
  BY InitLInv, InitHandlerInv DEF SystemInit, LInv, Phases
<1>2. Phases /\ HandlerInv /\ [SystemNext]_allvars => (Phases /\ HandlerInv)'
  BY SystemStep, NextPhases, NextHandlerInv
<1> QED
  BY <1>1, <1>2, PTL DEF SystemSpec

----------------------------------------------------------------------------

\* The composition implements the life cycle: with a real service in place of
\* the opaque handler, start(), stop() and the joiners do nothing new.
THEOREM SystemImplementsLifecycle == SystemSpec => Spec
<1>1. SystemInit => Init
  BY DEF SystemInit
<1> QED
  BY <1>1, SystemStep, PTL DEF SystemSpec, Spec

\* OpenMeansStoppable: whoever can connect talks to a thread that is attached
\* and that stop() finds.
THEOREM Stoppable == SystemSpec => []OpenMeansStoppable
<1>1. Phases /\ HandlerInv => OpenMeansStoppable
  BY ThreadsAssumption
  DEF Phases, TypeOK, PhaseInv, Serving, HandlerInv, OpenMeansStoppable, Silent
<1> QED
  BY <1>1, SystemInvariance, PTL

\* ReturnedMeansSilent: nobody is served once stop() or a join has returned,
\* when stop() returns from its wait on a notification only.
THEOREM SilentAfterStop ==
    ASSUME Stopper \notin SpuriousWakeups
    PROVE  SystemSpec => []ReturnedMeansSilent
<1>1. Phases /\ HandlerInv /\ StoppedMeansEnded => ReturnedMeansSilent
  <2> SUFFICES ASSUME Phases, HandlerInv, StoppedMeansEnded,
                      (pc[Stopper] = "returned" /\ exitFlag)
                          \/ (\E j \in Joiners : pc[j] = "returned" /\ osThread)
               PROVE  Silent
    BY DEF ReturnedMeansSilent
  <2>1. pc[Server] = "returned"
    BY DEF StoppedMeansEnded, Phases, PhaseInv
  <2> QED
    BY <2>1 DEF Phases, PhaseInv, HandlerInv
<1>2. SystemSpec => []StoppedMeansEnded
  BY SystemImplementsLifecycle, Stopped, PTL
<1> QED
  BY <1>1, <1>2, SystemInvariance, PTL

\* The composition implements the service: whatever the threads do, it is served,
\* stopped and left as MetricService says, and it is told to stop once, by stop().
THEOREM SystemImplementsService == SystemSpec => Service!ServiceSpec
<1>1. SystemInit => Service!ServiceInit
  BY DEF SystemInit
<1>2. ASSUME Phases, [SystemNext]_allvars
      PROVE  [Service!ServiceNext]_(Service!svars)
  <2>1. CASE ThreadStep
    <3>1. UNCHANGED Service!state
      BY <2>1 DEF ThreadStep, service, Service!state
    <3>2. exitFlag' = exitFlag \/ (~exitFlag /\ exitFlag' = TRUE)
      <4>1. CASE StartStep
        BY <4>1 DEF StartStep, CreateMonitor, CreateMonitorFails, CreateThread,
           CreateThreadFails, Enter, CheckAttached, Reenter, LeaveStart, ReportAttach,
           fields
      <4>2. CASE ServerStep
        BY <4>2 DEF ServerStep, Attach, Enter, Publish, Detach, Finish, fields
      <4>3. CASE StopStep
        BY <4>3 DEF StopStep, Enter, SetFlagAndWait, Reenter, LeaveStop, DestroyMonitor,
           fields, Phases, PhaseInv, TypeOK
      <4>4. CASE CallStep \/ (\E j \in Joiners : JoinStep(j)) \/ WakeStep \/ Rest
        BY <4>4 DEF CallStep, Stop, WaitForExit, JoinStep, Join, WakeStep,
           WakeSpuriously, Rest, vars, fields
      <4> QED
        BY <2>1, <4>1, <4>2, <4>3, <4>4 DEF ThreadStep
    <3> QED
      BY <3>1, <3>2 DEF Service!ServiceNext, Service!RequestStop, Service!svars
  <2>2. CASE ServeStep \/ CloseStep
    BY <2>2 DEF ServeStep, CloseStep, InHandler, Service!ServiceNext
  <2>3. CASE HandlerReturn
    BY <2>3 DEF HandlerReturn, HandlerStep, HandlerReturns, fields, service,
       Service!svars, Service!state
  <2>4. CASE ProcessExit
    BY <2>4 DEF ProcessExit, Service!ServiceNext
  <2>5. CASE UNCHANGED allvars
    BY <2>5 DEF allvars, vars, fields, service, Service!svars, Service!state
  <2> QED
    BY <1>2, <2>1, <2>2, <2>3, <2>4, <2>5 DEF SystemNext
<1> QED
  BY <1>1, <1>2, SystemInvariance, PTL DEF SystemSpec, Service!ServiceSpec

\* The service counts as we do: FiniteSets is instantiated along with it.
LEMMA SameCardinality == \A S : Service!Cardinality(S) = Cardinality(S)
  BY Zenon DEF Service!Cardinality, Cardinality, Service!IsFiniteSet, IsFiniteSet

\* Whoever implements the service has one connection more than its limit open at
\* most, the refused one.
ServiceBound == IsFiniteSet(conns) /\ Cardinality(conns) <= Limit + 1

\* What the handler was shown to implement, and MetricSystem is built on, does not
\* let the number of connections grow.
LEMMA ServiceStepBound ==
    ASSUME ServiceBound, [Service!ServiceNext]_(Service!svars)
    PROVE  ServiceBound'
<1> USE SystemAssumption DEF ServiceBound
<1>1. Cardinality(conns) \in Nat
  BY FS_CardinalityType
<1>2. ASSUME NEW c \in Conn, Service!Take(c) PROVE ServiceBound'
  <2>1. conns' = conns \cup {c} /\ ~(Cardinality(conns) > Limit) /\ c \notin conns
    BY <1>2, SameCardinality DEF Service!Take, Service!Overfull
  <2>2. IsFiniteSet(conns') /\ Cardinality(conns') = Cardinality(conns) + 1
    BY <2>1, FS_AddElement
  <2> QED
    BY <1>1, <2>1, <2>2, FS_CardinalityType
<1>3. CASE \E S : conns' = conns \ S
  <2>1. PICK S : conns' = conns \ S
    BY <1>3
  <2>2. IsFiniteSet(conns') /\ Cardinality(conns') <= Cardinality(conns)
    BY <2>1, FS_Subset
  <2> QED
    BY <1>1, <2>1, <2>2, FS_CardinalityType
<1>4. (\E c \in Conn : Service!Take(c)) \/ conns' = conns \/ \E S : conns' = conns \ S
  BY DEF Service!ServiceNext, Service!Serve, Service!Close, Service!Open, Service!Read,
     Service!Answer, Service!Drop, Service!Lapse, Service!Recover, Service!GiveUp,
     Service!Obey, Service!Shed,
     Service!Shut, Service!Die, Service!RequestStop, Service!svars, Service!state
<1> QED
  BY <1>2, <1>3, <1>4

\* The fields of the service keep their types in the composition, the exit flag
\* that stop() writes among them.
THEOREM SystemServiceTypes == SystemSpec => []Service!ServiceTypeOK
<1> USE SystemAssumption DEF Service!ServiceTypeOK
<1>1. Service!ServiceInit => Service!ServiceTypeOK
  BY DEF Service!ServiceInit
<1>2. ASSUME Service!ServiceTypeOK, [Service!ServiceNext]_(Service!svars)
      PROVE  Service!ServiceTypeOK'
  <2>1. CASE Service!Serve
    BY <1>2, <2>1 DEF Service!Serve, Service!Open, Service!Take, Service!Read,
       Service!Answer, Service!Drop, Service!Lapse, Service!Recover, Service!GiveUp
  <2>2. CASE Service!Close
    BY <1>2, <2>2 DEF Service!Close, Service!Obey, Service!Shed, Service!Shut
  <2>3. CASE Service!Die \/ Service!RequestStop \/ UNCHANGED Service!svars
    BY <1>2, <2>3 DEF Service!Die, Service!RequestStop, Service!svars, Service!state
  <2> QED
    BY <1>2, <2>1, <2>2, <2>3 DEF Service!ServiceNext
<1>3. Service!ServiceSpec => []Service!ServiceTypeOK
  BY <1>1, <1>2, PTL DEF Service!ServiceSpec
<1> QED
  BY <1>3, SystemImplementsService, PTL

\* For the whole life of a server, started and stopped from anywhere: never more
\* than Limit + 1 connections are open, which for the handler's Limit are two more
\* than metricMaxConnections (MetricServerHandler.cpp 420, 451).
THEOREM SystemLimit == SystemSpec => [](Cardinality(conns) <= Limit + 1)
<1>1. Service!ServiceInit => ServiceBound
  BY SystemAssumption, FS_EmptySet DEF Service!ServiceInit, ServiceBound
<1>2. Service!ServiceSpec => []ServiceBound
  BY <1>1, ServiceStepBound, PTL DEF Service!ServiceSpec
<1>3. ServiceBound => Cardinality(conns) <= Limit + 1
  BY DEF ServiceBound
<1> QED
  BY <1>2, <1>3, SystemImplementsService, PTL
=============================================================================
