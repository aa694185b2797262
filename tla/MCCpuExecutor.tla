---------------------------- MODULE MCCpuExecutor ----------------------------
(* CpuExecutor for TLC: the bounds are in the configuration files.         *)
EXTENDS CpuExecutor

==============================================================================
