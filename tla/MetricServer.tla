---------------------------- MODULE MetricServer ----------------------------
(***************************************************************************)
(* TR_MetricServer: the thread that runs the metric server, from start()   *)
(* to stop() and waitForMetricServerExit().  The thread that starts the    *)
(* server, the server's own thread, the one that stops it and those that   *)
(* join it share the fields of one object and its monitor.                 *)
(*                                                                         *)
(* The handler (module MetricServerHandler) is seen from outside: it runs, *)
(* and it returns once it sees the exit flag, or by itself when a          *)
(* connection exceeds the limit, or it ends the process.                   *)
(***************************************************************************)
EXTENDS Integers, FiniteSets

CONSTANTS
    Starter,          \* calls start() once
    Server,           \* runs metricServerProc
    Stopper,          \* calls stop() once, after start() has returned
    Joiners,          \* call waitForMetricServerExit() after start()
    Nobody,           \* owner of a free monitor
    SpuriousWakeups,  \* threads whose wait() may return without a notification
    HandlerGivesUp,   \* TRUE when the limit on connections may be exceeded
    HandlerExits      \* TRUE when the handler may call exit(1)

Threads == {Starter, Server, Stopper} \cup Joiners

ASSUME ThreadsAssumption ==
    /\ Starter # Server /\ Starter # Stopper /\ Server # Stopper
    /\ Joiners \cap {Starter, Server, Stopper} = {}
    /\ Nobody \notin Threads
    /\ SpuriousWakeups \subseteq Threads
    /\ {HandlerGivesUp, HandlerExits} \subseteq BOOLEAN

VARIABLES
    pc,              \* where each thread is
    monitor,         \* _metricServerMonitor: "null", "live" or "destroyed"
    owner,           \* the thread that has entered the monitor
    waiting,         \* threads in wait() that nobody has woken
    attached,        \* the Server thread: "no", "attached", "failed", "detached"
    metricServer,    \* _metricServer is not NULL
    osThread,        \* _metricServerOSThread is not NULL
    attachAttempted, \* _metricServerAttachAttempted
    exitFlag,        \* _metricServerExitFlag
    attachError,     \* start() printed that the attach failed
    dead             \* the process has called exit(1)

fields == <<metricServer, osThread, attachAttempted, exitFlag>>
sync == <<monitor, owner, waiting>>
vars == <<pc, sync, attached, fields, attachError, dead>>

States == {"idle", "create", "thread", "enter", "check", "wait", "leave", "report",
           "attach", "publish", "serve", "detach", "enterLast", "finish",
           "flag", "destroy", "join", "returned"}

TypeOK ==
    /\ pc \in [Threads -> States]
    /\ monitor \in {"null", "live", "destroyed"}
    /\ owner \in Threads \cup {Nobody}
    /\ waiting \subseteq Threads
    /\ attached \in {"no", "attached", "failed", "detached"}
    /\ {metricServer, osThread, attachAttempted, exitFlag} \subseteq BOOLEAN
    /\ {attachError, dead} \subseteq BOOLEAN

Init ==
    /\ pc = [t \in Threads |-> IF t = Starter THEN "create" ELSE "idle"]
    /\ monitor = "null" /\ owner = Nobody /\ waiting = {}
    /\ attached = "no"
    /\ metricServer = FALSE /\ osThread = FALSE
    /\ attachAttempted = FALSE /\ exitFlag = FALSE
    /\ attachError = FALSE /\ dead = FALSE

Goto(t, s) == pc' = [pc EXCEPT ![t] = s]

----------------------------------------------------------------------------
(* The monitor *)

\* enter(): from position s to position next, once the monitor is free.
Enter(t, s, next) ==
    /\ pc[t] = s /\ owner = Nobody
    /\ owner' = t
    /\ Goto(t, next)
    /\ UNCHANGED <<monitor, waiting, attached, fields, attachError>>

\* wait() returns: t has been woken and enters the monitor again.
Reenter(t, next) == t \notin waiting /\ Enter(t, "wait", next)

\* wait() may return unnotified, where the platform allows it.
WakeSpuriously(t) ==
    /\ t \in SpuriousWakeups \cap waiting
    /\ waiting' = waiting \ {t}
    /\ UNCHANGED <<pc, monitor, owner, attached, fields, attachError>>

----------------------------------------------------------------------------
(* start() *)

CreateMonitor ==
    /\ pc[Starter] = "create"
    /\ monitor' = "live"
    /\ Goto(Starter, "thread")
    /\ UNCHANGED <<owner, waiting, attached, fields, attachError>>

CreateMonitorFails ==
    /\ pc[Starter] = "create"
    /\ Goto(Starter, "returned")
    /\ UNCHANGED <<sync, attached, fields, attachError>>

CreateThread ==
    /\ pc[Starter] = "thread"
    /\ osThread' = TRUE
    /\ pc' = [pc EXCEPT ![Starter] = "enter", ![Server] = "attach"]
    /\ UNCHANGED <<sync, attached, metricServer, attachAttempted, exitFlag, attachError>>

\* The monitor is destroyed and its pointer reset.
CreateThreadFails ==
    /\ pc[Starter] = "thread"
    /\ monitor' = "null"
    /\ Goto(Starter, "returned")
    /\ UNCHANGED <<owner, waiting, attached, fields, attachError>>

\* Mutant: the starter does not wait for the attempt.
CheckAttachedOnce ==
    /\ pc[Starter] = "check"
    /\ Goto(Starter, "leave")
    /\ UNCHANGED <<sync, attached, fields, attachError>>

\* while (!getAttachAttempted()) wait();
CheckAttached ==
    /\ pc[Starter] = "check"
    /\ IF attachAttempted
          THEN Goto(Starter, "leave") /\ UNCHANGED <<owner, waiting>>
          ELSE /\ owner' = Nobody /\ waiting' = waiting \cup {Starter}
               /\ Goto(Starter, "wait")
    /\ UNCHANGED <<monitor, attached, fields, attachError>>

LeaveStart ==
    /\ pc[Starter] = "leave"
    /\ owner' = Nobody
    /\ Goto(Starter, "report")
    /\ UNCHANGED <<monitor, waiting, attached, fields, attachError>>

\* getMetricServer() outside the monitor: NULL is reported as a failed attach.
ReportAttach ==
    /\ pc[Starter] = "report"
    /\ attachError' = ~metricServer
    /\ Goto(Starter, "returned")
    /\ UNCHANGED <<sync, attached, fields>>

----------------------------------------------------------------------------
(* metricServerProc() *)

\* internalAttachCurrentThread(), with or without success.
Attach(outcome) ==
    /\ pc[Server] = "attach"
    /\ attached' = outcome
    /\ Goto(Server, "enter")
    /\ UNCHANGED <<sync, fields, attachError>>

\* Mutant: the starter is not notified.
PublishSilently ==
    /\ pc[Server] = "publish"
    /\ attachAttempted' = TRUE
    /\ metricServer' = (attached = "attached")
    /\ owner' = Nobody
    /\ Goto(Server, IF attached = "attached" THEN "serve" ELSE "returned")
    /\ UNCHANGED <<monitor, waiting, attached, osThread, exitFlag, attachError>>

\* setAttachAttempted, setMetricServer, notifyAll and exit in the monitor; a
\* thread that is not attached ends here.
Publish ==
    /\ pc[Server] = "publish"
    /\ attachAttempted' = TRUE
    /\ metricServer' = (attached = "attached")
    /\ waiting' = {} /\ owner' = Nobody
    /\ Goto(Server, IF attached = "attached" THEN "serve" ELSE "returned")
    /\ UNCHANGED <<monitor, attached, osThread, exitFlag, attachError>>

\* TR_MetricServerHandlerStart() returns: it has seen the flag, or a
\* connection too many has ended its loop.
HandlerReturns ==
    /\ pc[Server] = "serve"
    /\ exitFlag \/ HandlerGivesUp
    /\ Goto(Server, "detach")
    /\ UNCHANGED <<sync, attached, fields, attachError>>

Detach ==
    /\ pc[Server] = "detach"
    /\ attached' = "detached"
    /\ Goto(Server, "enterLast")
    /\ UNCHANGED <<sync, fields, attachError>>

\* Mutant: the thread leaves without waking whoever stops it.
FinishSilently ==
    /\ pc[Server] = "finish"
    /\ metricServer' = FALSE
    /\ owner' = Nobody
    /\ Goto(Server, "returned")
    /\ UNCHANGED <<monitor, waiting, attached, osThread, attachAttempted, exitFlag,
                   attachError>>

\* setMetricServer(NULL), notifyAll(), and j9thread_exit(), which releases
\* the monitor and ends the thread in one.
Finish ==
    /\ pc[Server] = "finish"
    /\ metricServer' = FALSE
    /\ waiting' = {} /\ owner' = Nobody
    /\ Goto(Server, "returned")
    /\ UNCHANGED <<monitor, attached, osThread, attachAttempted, exitFlag, attachError>>

----------------------------------------------------------------------------
(* stop() and waitForMetricServerExit(), called once start() has returned *)

\* getMetricServer() outside the monitor: without a server nothing is done.
Stop ==
    /\ pc[Stopper] = "idle" /\ pc[Starter] = "returned"
    /\ Goto(Stopper, IF metricServer THEN "enter" ELSE "returned")
    /\ UNCHANGED <<sync, attached, fields, attachError>>

\* Mutant: the flag is set, and nobody waits for the thread.
SetFlagAndGo ==
    /\ pc[Stopper] = "flag"
    /\ exitFlag' = TRUE
    /\ Goto(Stopper, "leave")
    /\ UNCHANGED <<sync, attached, metricServer, osThread, attachAttempted, attachError>>

\* Mutant: stop() waits without giving the monitor up.
SetFlagHoldingMonitor ==
    /\ pc[Stopper] = "flag"
    /\ exitFlag' = TRUE
    /\ waiting' = waiting \cup {Stopper}
    /\ Goto(Stopper, "wait")
    /\ UNCHANGED <<monitor, owner, attached, metricServer, osThread, attachAttempted,
                   attachError>>

\* setMetricServerExitFlag() and one wait(), whatever the thread has done.
SetFlagAndWait ==
    /\ pc[Stopper] = "flag"
    /\ exitFlag' = TRUE
    /\ owner' = Nobody /\ waiting' = waiting \cup {Stopper}
    /\ Goto(Stopper, "wait")
    /\ UNCHANGED <<monitor, attached, metricServer, osThread, attachAttempted, attachError>>

LeaveStop ==
    /\ pc[Stopper] = "leave"
    /\ owner' = Nobody
    /\ Goto(Stopper, "destroy")
    /\ UNCHANGED <<monitor, waiting, attached, fields, attachError>>

DestroyMonitor ==
    /\ pc[Stopper] = "destroy"
    /\ monitor' = "destroyed"
    /\ Goto(Stopper, "returned")
    /\ UNCHANGED <<owner, waiting, attached, fields, attachError>>

WaitForExit(j) ==
    /\ pc[j] = "idle" /\ pc[Starter] = "returned"
    /\ Goto(j, IF osThread THEN "join" ELSE "returned")
    /\ UNCHANGED <<sync, attached, fields, attachError>>

\* Mutant: joining ends with the handler, not with the thread.
JoinEarly(j) ==
    /\ pc[j] = "join" /\ pc[Server] \in {"detach", "enterLast", "finish", "returned"}
    /\ Goto(j, "returned")
    /\ UNCHANGED <<sync, attached, fields, attachError>>

Join(j) ==
    /\ pc[j] = "join" /\ pc[Server] = "returned"
    /\ Goto(j, "returned")
    /\ UNCHANGED <<sync, attached, fields, attachError>>

----------------------------------------------------------------------------

\* The process has not exited.
Alive == ~dead /\ dead' = dead

StartStep ==
    /\ Alive
    /\ \/ CreateMonitor \/ CreateMonitorFails \/ CreateThread \/ CreateThreadFails
       \/ Enter(Starter, "enter", "check")
       \/ CheckAttached
       \/ Reenter(Starter, "check")
       \/ LeaveStart \/ ReportAttach

\* metricServerProc() but for the time it spends in the handler.
ServerStep ==
    /\ Alive
    /\ \/ \E outcome \in {"attached", "failed"} : Attach(outcome)
       \/ Enter(Server, "enter", "publish")
       \/ Publish
       \/ Detach
       \/ Enter(Server, "enterLast", "finish")
       \/ Finish

HandlerStep == Alive /\ HandlerReturns

StopStep ==
    /\ Alive
    /\ \/ Enter(Stopper, "enter", "flag")
       \/ SetFlagAndWait
       \/ Reenter(Stopper, "leave")
       \/ LeaveStop \/ DestroyMonitor

\* Somebody calls stop() or waitForMetricServerExit().
CallStep == Alive /\ (Stop \/ \E j \in Joiners : WaitForExit(j))

JoinStep(j) == Alive /\ Join(j)

WakeStep == Alive /\ \E t \in Threads : WakeSpuriously(t)

\* exit(1) in the handler.
Exit ==
    /\ ~dead /\ HandlerExits /\ pc[Server] = "serve"
    /\ dead' = TRUE
    /\ UNCHANGED <<pc, sync, attached, fields, attachError>>

\* The process is gone, or every thread has returned or was never created.
Rest ==
    /\ dead \/ \A t \in Threads : pc[t] = "returned" \/ (t = Server /\ pc[t] = "idle")
    /\ UNCHANGED vars

Next ==
    \/ StartStep \/ ServerStep \/ HandlerStep \/ StopStep \/ CallStep
    \/ \E j \in Joiners : JoinStep(j)
    \/ WakeStep \/ Exit \/ Rest

Spec == Init /\ [][Next]_vars

\* Every thread that can run is run, and the server's thread gets a monitor
\* that a starter, woken without reason, keeps taking and releasing; nobody is obliged to call stop(), and
\* the handler's return is owed only once the flag is set: that it comes then
\* is ShutdownCompletes of module MetricServerHandler.
FairSpec ==
    /\ Spec
    /\ WF_vars(StartStep) /\ SF_vars(ServerStep) /\ WF_vars(StopStep)
    /\ WF_vars(exitFlag /\ HandlerStep)
    /\ \A j \in Joiners : WF_vars(JoinStep(j))

----------------------------------------------------------------------------
(* Safety *)

\* From here on the thread will enter the monitor, or is in it.
UsesMonitor(t) ==
    \/ t = Server /\ pc[t] \in {"attach", "enter", "publish", "serve", "detach",
                                "enterLast", "finish"}
    \/ t = Starter /\ pc[t] \in {"enter", "check", "wait", "leave"}
    \/ t = Stopper /\ pc[t] \in {"enter", "flag", "wait", "leave", "destroy"}

\* stop() destroys the monitor (MetricServer.cpp 163) only when no thread will
\* touch it again; the server's thread enters it after its handler (98).
MonitorOutlivesUsers == \A t \in Threads : UsesMonitor(t) => monitor = "live"

\* When stop() has returned from a server it found, the server's thread has
\* ended, has detached from the VM and is no longer published (156-166).
StoppedMeansEnded ==
    pc[Stopper] = "returned" /\ exitFlag =>
        pc[Server] = "returned" /\ attached = "detached" /\ ~metricServer

\* start() does not come back before the thread it created has told whether it
\* could attach (131-136), even if wait() returns without reason.
StartedMeansAttempted ==
    pc[Starter] \in {"report", "returned"} /\ osThread =>
        attachAttempted /\ pc[Server] \notin {"idle", "attach", "enter", "publish"}

\* When waitForMetricServerExit() has returned there is no server to be found
\* and the thread is not attached to the VM (149-154 against 97-101).
JoinedMeansGone ==
    \A j \in Joiners : pc[j] = "returned" /\ osThread =>
        ~metricServer /\ attached \in {"failed", "detached"}

\* When start() prints that the attach failed (137-140), the thread did not
\* attach, or it has attached and ended by then; it is not serving.
AttachErrorExplained ==
    attachError => pc[Server] = "returned" /\ attached \in {"failed", "detached"}

\* The server is published from the attach to the end of its thread.
Serving == pc[Server] \in {"serve", "detach", "enterLast", "finish"}

\* stop() has found a server and has not come back.
Stopping == pc[Stopper] \in {"enter", "flag", "wait", "leave", "destroy"}

\* stop() has been woken, or has destroyed the monitor.
Woken ==
    \/ pc[Stopper] \in {"leave", "destroy"}
    \/ pc[Stopper] = "wait" /\ Stopper \notin waiting
    \/ pc[Stopper] = "returned" /\ exitFlag

\* Where the threads can be, and what each place tells of the others.
PhaseInv ==
    /\ pc[Starter] \in {"create", "thread", "enter", "check", "wait", "leave",
                        "report", "returned"}
    /\ Serving \/ pc[Server] \in {"idle", "attach", "enter", "publish", "returned"}
    /\ Stopping \/ pc[Stopper] \in {"idle", "returned"}
    /\ \A j \in Joiners : pc[j] \in {"idle", "join", "returned"}
    /\ pc[Starter] # "returned" =>
          pc[Stopper] = "idle" /\ \A j \in Joiners : pc[j] = "idle"
    /\ pc[Starter] \in {"create", "thread"} => pc[Server] = "idle"
    /\ pc[Starter] = "thread" => monitor = "live"
    /\ osThread /\ pc[Stopper] = "idle" => monitor = "live"
    /\ osThread <=> pc[Server] # "idle"
    /\ metricServer <=> Serving
    /\ attachAttempted <=> Serving \/ pc[Server] = "returned"
    /\ pc[Server] \in {"enter", "publish"} => attached \in {"attached", "failed"}
    /\ pc[Server] \in {"serve", "detach"} => attached = "attached"
    /\ pc[Server] \in {"enterLast", "finish"} => attached = "detached"
    /\ pc[Server] = "returned" => attached \in {"failed", "detached"}
    /\ pc[Starter] \in {"leave", "report"} => attachAttempted
    /\ pc[Starter] \in {"enter", "check", "wait", "leave", "report"} => osThread
    /\ pc[Starter] = "returned" /\ osThread => attachAttempted
    /\ attachError => pc[Server] = "returned"
    /\ Stopping =>
          /\ Serving \/ pc[Server] = "returned"
          /\ attached # "failed" /\ monitor = "live"
    /\ exitFlag =>
          /\ pc[Stopper] \in {"wait", "leave", "destroy", "returned"}
          /\ attached # "failed"
    /\ \A j \in Joiners :
          pc[j] \in {"join", "returned"} /\ osThread =>
              pc[j] = "join" \/ pc[Server] = "returned"

\* stop() is woken by the end of the server's thread and by nothing else, and
\* that thread has the monitor for as long as it lives.
MonitorInv ==
    /\ Woken => pc[Server] = "returned"
    /\ pc[Server] \notin {"idle", "returned"} => monitor = "live"

\* The inductive invariant behind the safety properties above.
LInv == TypeOK /\ PhaseInv /\ MonitorInv

----------------------------------------------------------------------------
(* Liveness *)

\* start() returns, whether or not monitor, thread and attachment come about.
StartCompletes == <>(pc[Starter] = "returned" \/ dead)

\* A stop() that waits while the server's thread is still there is woken, even
\* when the handler did not return on its account.
WaitingStopReturns ==
    pc[Stopper] = "wait" /\ pc[Server] # "returned"
        ~> pc[Stopper] = "returned" \/ dead

\* Whoever joins the thread comes back after the flag is set.
JoinCompletes ==
    \A j \in Joiners : pc[j] = "join" /\ exitFlag ~> pc[j] = "returned" \/ dead

(* What the documentation says, and the code does not do *)

\* "Stop it with the stop() function" (MetricServer.hpp 34): stop() comes back.
\* The thread may have ended by itself between stop()'s look at _metricServer
\* and its wait (157-161).
StopReturns == pc[Stopper] = "enter" ~> pc[Stopper] = "returned" \/ dead
=============================================================================
