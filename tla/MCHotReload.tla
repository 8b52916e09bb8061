---------------------------- MODULE MCHotReload ----------------------------
(* HotReload on small instances.                                            *)
EXTENDS HotReload, TLC

WorkerSymmetry == Permutations(Workers)
=============================================================================
