----------------------- MODULE MCMetricServerHandler -----------------------
(* Small instances of MetricServerHandler for TLC *)
EXTENDS MetricServerHandler, TLC

OneListener  == <<3>>
TwoListeners == <<3, 4>>

\* The descriptors are interchangeable in Spec (runs without liveness).
Symmetry == Permutations(FD)
=============================================================================
