---------------------------- MODULE MCFileLists ----------------------------
(* Two projects, one of which may get an include directory, a server, a    *)
(* process that stops it and one that races to start another, and a run    *)
(* that is not in watch mode.                                              *)
EXTENDS FileLists

CONSTANTS s1, s2, s3, p1, p2, none, start, batch

MCCommand == [c \in Procs |-> IF c = s2 THEN "stop" ELSE "start"]
MCBatchOrder == <<p1>>
MCSites == {<<p1, "src">>, <<p1, "include">>, <<p2, "src">>}
=============================================================================
