--------------------------- MODULE MCMetricsStream ----------------------------
(* Small instances of MetricsStream. *)
EXTENDS MetricsStream

CONSTANTS p1, p2, t1, t2
=============================================================================
