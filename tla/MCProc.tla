------------------------------- MODULE MCProc -------------------------------
(* Instances of Proc and ProcRefinement for TLC. *)
EXTENDS ProcRefinement, TLC

(* The CPUs are interchangeable: no action or property names one of them. *)
CPUSymmetry == Permutations(CPUs)
=============================================================================
