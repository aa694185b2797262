------------------------------ MODULE MCSurface ------------------------------
(* Surface for TLC: the bounds are in the configuration files.             *)
EXTENDS Surface

==============================================================================
