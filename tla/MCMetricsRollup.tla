--------------------------- MODULE MCMetricsRollup ---------------------------
(***************************************************************************)
(* An instance of MetricsRollup: days of two hours.                        *)
(***************************************************************************)
EXTENDS MetricsRollup
=============================================================================
