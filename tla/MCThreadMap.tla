----------------------------- MODULE MCThreadMap -----------------------------
(* ThreadMap for TLC: the bounds are in the configuration file. Threads    *)
(* are interchangeable.                                                    *)
EXTENDS ThreadMap, TLC

ThreadSymmetry == Permutations(Threads)

==============================================================================
