--------------------------- MODULE MetricDatabase ---------------------------
(***************************************************************************)
(* class MetricDatabase and the sources it asks.  A metric is known by the *)
(* source it comes from: all metrics of one source are set under the same  *)
(* condition, and an entry, once set, is only ever overwritten.  Of a      *)
(* value the module keeps what matters to whoever asks for it: whether it  *)
(* was read before or after the question.                                  *)
(***************************************************************************)
EXTENDS Integers, Sequences

CONSTANT Fallible   \* the sources that may stop answering

VARIABLES
    mdb,      \* _mdb: for each source, when its metrics were last set
    working,  \* the sources that answer at the moment
    broken,   \* history: those that failed since the question was put
    next      \* where update() is in its list of sources

database == <<mdb, working, broken, next>>

\* JITServer's counters, numberOfClearedCaches, CpuUtilization, getrusage and
\* sysinfo, in the order update() asks them.
Sources == <<"jit", "caches", "cpu", "thread", "machine">>

Source == {Sources[i] : i \in 1 .. Len(Sources)}

\* JITServer's counters can always be read, and once a cache has been cleared
\* the number of cleared caches is positive for good.
ASSUME FallibleAssumption == Fallible \subseteq Source \ {"jit", "caches"}

DatabaseTypeOK ==
    /\ mdb \in [Source -> {"none", "old", "new"}]
    /\ working \subseteq Source /\ broken \subseteq Source
    /\ next \in 1 .. Len(Sources) + 1

\* update() is called for the first time before the server starts; no cache
\* has been cleared yet.
DatabaseInit ==
    /\ mdb = [s \in Source |-> "none"]
    /\ working = Source \ {"caches"} /\ broken = {"caches"}
    /\ next = 1

\* Mutant: insert() alone, which leaves an entry that is there as it is.
SetOnce(s) == IF mdb[s] = "none" THEN [mdb EXCEPT ![s] = "new"] ELSE mdb

\* A metric for the first time, or again: setMetric().
Set(s) == [mdb EXCEPT ![s] = "new"]

\* update(), source by source, while the JVM's other threads go on.  A source
\* that does not answer leaves the entries as they are.
Ask ==
    /\ next \in 1 .. Len(Sources)
    /\ mdb' = IF Sources[next] \in working THEN Set(Sources[next]) ELSE mdb
    /\ next' = next + 1
    /\ UNCHANGED <<working, broken>>

Updated == next > Len(Sources)

\* Whoever puts a question finds what was read before it.
Question ==
    /\ mdb' = [s \in Source |-> IF mdb[s] = "none" THEN "none" ELSE "old"]
    /\ broken' = Source \ working

----------------------------------------------------------------------------
(* The sources                                                               *)

Break(s) ==
    /\ s \in Fallible \cap working
    /\ working' = working \ {s} /\ broken' = broken \cup {s}
    /\ UNCHANGED <<mdb, next>>

Recover(s) ==
    /\ s \in Source \ working
    /\ working' = working \cup {s}
    /\ UNCHANGED <<mdb, broken, next>>
=============================================================================
