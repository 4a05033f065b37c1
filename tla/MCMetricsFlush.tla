--------------------------- MODULE MCMetricsFlush ---------------------------
(***************************************************************************)
(* Instances of MetricsFlush for TLC, without symmetry: the run checks a   *)
(* liveness property.                                                      *)
(***************************************************************************)
EXTENDS MetricsFlush
=============================================================================
