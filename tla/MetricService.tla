---------------------------- MODULE MetricService ----------------------------
(***************************************************************************)
(* What the metric server's thread promises whoever sees it from outside:  *)
(* its peers, the caller of stop() and the process it runs in.  It opens   *)
(* its ports, takes connections up to a limit, reads one request at a time *)
(* and answers it before it turns to another connection, and drops         *)
(* connections one by one.  It stops serving when it is told to, or when   *)
(* one connection too many has been taken; it is closed when its ports are *)
(* and every connection but that one.  A connection that is lost while it  *)
(* is taken may count all the same: as long as it does (lapsed), the limit *)
(* may be reached early and the connection left open may be any or none.   *)
(*                                                                         *)
(* Module MetricServerHandler implements this (ServiceSpec there), and     *)
(* module MetricSystem builds the whole life of a server on it.            *)
(***************************************************************************)
EXTENDS Integers, FiniteSets

CONSTANTS
    Conn,     \* connections, named by what the server holds of them
    NoConn,   \* no connection
    Ports,    \* the listeners to open
    Limit     \* connections served at the same time

VARIABLES
    phase,     \* "opening", "serving", "closing", "closed" or "dead"
    ports,     \* the listeners that are open
    conns,     \* the connections the server has open
    asking,    \* the connection whose request has been read, not answered
    spared,    \* the connection that is left open for good
    lapsed,    \* a lost connection counts among those taken
    stopFlag   \* the server has been told to stop

state == <<phase, ports, conns, asking, spared, lapsed>>
svars == <<state, stopFlag>>

ServiceTypeOK ==
    /\ phase \in {"opening", "serving", "closing", "closed", "dead"}
    /\ ports \subseteq Ports
    /\ conns \subseteq Conn
    /\ {asking, spared} \subseteq Conn \cup {NoConn}
    /\ {lapsed, stopFlag} \subseteq BOOLEAN

ServiceInit ==
    /\ phase = "opening" /\ ports = {}
    /\ conns = {} /\ asking = NoConn /\ spared = NoConn
    /\ lapsed = FALSE /\ stopFlag = FALSE

Open(p) ==
    /\ phase = "opening" /\ p \notin ports
    /\ ports' = ports \cup {p}
    /\ phase' = IF ports' = Ports THEN "serving" ELSE "opening"
    /\ UNCHANGED <<conns, asking, spared, lapsed, stopFlag>>

\* A connection above the limit is taken before it is counted.
Overfull == Cardinality(conns) > Limit

Take(c) ==
    /\ phase = "serving" /\ asking = NoConn /\ ~Overfull
    /\ c \notin conns
    /\ conns' = conns \cup {c}
    /\ UNCHANGED <<phase, ports, asking, spared, lapsed, stopFlag>>

\* A connection is lost while it is taken, and counts for some time.
Lapse ==
    /\ phase = "serving" /\ asking = NoConn /\ ~lapsed
    /\ lapsed' = TRUE
    /\ UNCHANGED <<phase, ports, conns, asking, spared, stopFlag>>

Recover ==
    /\ phase = "serving" /\ asking = NoConn /\ lapsed
    /\ lapsed' = FALSE
    /\ UNCHANGED <<phase, ports, conns, asking, spared, stopFlag>>

Read(c) ==
    /\ phase = "serving" /\ asking = NoConn /\ c \in conns
    /\ asking' = c
    /\ UNCHANGED <<phase, ports, conns, spared, lapsed, stopFlag>>

\* The connection is kept, at least until its next request.
Answer ==
    /\ asking # NoConn
    /\ asking' = NoConn
    /\ UNCHANGED <<phase, ports, conns, spared, lapsed, stopFlag>>

\* Nobody but the one whose request was read is dropped before the answer.
Drop(c) ==
    /\ phase = "serving" /\ c \in conns
    /\ asking \in {NoConn, c}
    /\ conns' = conns \ {c}
    /\ asking' = NoConn
    /\ UNCHANGED <<phase, ports, spared, lapsed, stopFlag>>

\* Mutant: the flag is looked at only while nobody is connected.
ObeyWhenIdle ==
    /\ phase = "serving" /\ stopFlag /\ conns = {}
    /\ phase' = "closing"
    /\ UNCHANGED <<ports, conns, asking, spared, lapsed, stopFlag>>

\* Between two requests, on demand; every connection is to be closed then.
Obey ==
    /\ phase = "serving" /\ stopFlag /\ asking = NoConn
    /\ phase' = "closing"
    /\ UNCHANGED <<ports, conns, asking, spared, lapsed, stopFlag>>

\* By itself: the connection that exceeds the limit is forgotten open, unless it
\* is one of those that were lost.
GiveUp ==
    /\ phase = "serving" /\ asking = NoConn
    /\ Overfull \/ lapsed
    /\ phase' = "closing"
    /\ \E c \in IF lapsed THEN Conn ELSE conns : spared' = c
    /\ UNCHANGED <<ports, conns, asking, lapsed, stopFlag>>

Shed(c) ==
    /\ phase = "closing" /\ c \in conns
    /\ c # spared \/ lapsed
    /\ conns' = conns \ {c}
    /\ UNCHANGED <<phase, ports, asking, spared, lapsed, stopFlag>>

Shut ==
    /\ phase = "closing" /\ conns \subseteq {spared}
    /\ ports' = {}
    /\ phase' = "closed"
    /\ UNCHANGED <<conns, asking, spared, lapsed, stopFlag>>

\* The process ends, and takes everything with it.
Die ==
    /\ phase \in {"opening", "serving"}
    /\ phase' = "dead" /\ ports' = {}
    /\ conns' = {} /\ asking' = NoConn /\ spared' = NoConn /\ lapsed' = FALSE
    /\ UNCHANGED stopFlag

RequestStop ==
    /\ ~stopFlag /\ stopFlag' = TRUE
    /\ UNCHANGED state

Serve ==
    \/ \E p \in Ports : Open(p)
    \/ \E c \in Conn : Take(c) \/ Read(c) \/ Drop(c)
    \/ Answer \/ Lapse \/ Recover \/ GiveUp

Close == Obey \/ (\E c \in Conn : Shed(c)) \/ Shut

ServiceNext == Serve \/ Close \/ Die \/ RequestStop

ServiceSpec == ServiceInit /\ [][ServiceNext]_svars
=============================================================================
