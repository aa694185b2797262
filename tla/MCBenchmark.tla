---------------------------- MODULE MCBenchmark ----------------------------
(* Two branches, one of which is at a commit that is also asked for alone. *)
EXTENDS Benchmark

MCTip == "main" :> "c1" @@ "topic" :> "c2"
=============================================================================
