----------------------------- MODULE MCRenderer ------------------------------
(* Renderer for TLC: the bounds are in the configuration files.            *)
EXTENDS Renderer

==============================================================================
