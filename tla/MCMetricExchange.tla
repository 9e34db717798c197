-------------------------- MODULE MCMetricExchange --------------------------
(***************************************************************************)
(* Requests for TLC: whole and beyond the buffer's size, for each answer,  *)
(* with "keep-alive" (3 letters here), parts of it, an empty Connection    *)
(* value and none at all.                                                  *)
(***************************************************************************)
EXTENDS MetricExchange

Req(m, p, copied, agree, size) ==
    [method |-> m, path |-> p, copied |-> copied, agree |-> agree, size |-> size]

MCRequests ==
    {Req("GET", "metrics", 3, {1, 2, 3}, 2),
     Req("GET", "metrics", 1, {1}, 1),
     Req("GET", "cut", 0, {}, 3),
     Req("GET", "neither", 3, {2, 3}, 1),
     Req("GET", "liveness", 2, {1}, 4),
     Req("other", "liveness", 1, {1}, 2)}

MCFallible == {"cpu"}
=============================================================================
