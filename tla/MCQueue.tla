------------------------------- MODULE MCQueue -------------------------------
(* Queue for TLC: the bounds are in the configuration files.               *)
EXTENDS Queue

==============================================================================
