-------------------------------- MODULE MCReaders -------------------------------
(* Values for checking the readers of histories on small instances. *)
EXTENDS HistoryReaders, MCTimers
================================================================================
