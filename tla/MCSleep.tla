-------------------------------- MODULE MCSleep ---------------------------------
(* Values for checking Smart Sleep on small instances. *)
EXTENDS SleepProperties, TLC

ProcessorSymmetry == Permutations(Processors)
================================================================================
