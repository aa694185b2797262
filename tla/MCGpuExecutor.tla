---------------------------- MODULE MCGpuExecutor ----------------------------
(* GpuExecutor for TLC: the bounds are in the configuration files.         *)
EXTENDS GpuExecutor

==============================================================================
