------------------------------- MODULE MCGraph -------------------------------
(* Graph for TLC: the bounds are in the configuration files.               *)
EXTENDS Graph

==============================================================================
