--------------------------- MODULE MCAlertManager ---------------------------
(* Two rules, years of two time units and a table of at most two rows, so   *)
(* that both purges, ties and a turn of the year happen within MaxClock.    *)
EXTENDS AlertManager
=============================================================================
