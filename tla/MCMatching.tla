------------------------------- MODULE MCMatching -------------------------------
(* Values for checking the Matching service on small instances. *)
EXTENDS MatchingProperties, TLC
================================================================================
