----------------------------- MODULE MCImageTask -----------------------------
(* Instances of ImageTask for TLC.                                          *)
EXTENDS ImageTask, TLC

Symmetry == Permutations(Workers) \cup Permutations(Callers) \cup Permutations(Deleters)
              \cup Permutations(Tasks) \cup Permutations(Inputs)
===============================================================================
