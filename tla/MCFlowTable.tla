---------------------------- MODULE MCFlowTable ----------------------------
(* FlowTable on small instances.                                            *)
EXTENDS FlowTable, TLC

KeySymmetry == Permutations(Keys)
WorkerSymmetry == Permutations(Workers)
Symmetry == KeySymmetry \cup WorkerSymmetry
=============================================================================
