-------------------------- MODULE MCMetricStartup --------------------------
(***************************************************************************)
(* The values TLC gives the options: none, 0, one below and one above the  *)
(* ports' range, its upper end, and ports that the other server has by     *)
(* default.                                                                *)
(***************************************************************************)
EXTENDS MetricStartup

Given(S) == S \cup {Absent}

MCVmArgs ==
    {<<port, timeout, limit, https>> :
        port    \in Given({0, 1023, 7391, 65535, 65536}),
        timeout \in Given({-1, 1}),
        limit   \in Given({0, 10}),
        https   \in Given({7390, 65535})}

MCPortNos == {7390, 7391, 65535}
=============================================================================
