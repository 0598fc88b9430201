---------------------------- MODULE MCMRTKernel -----------------------------
(***************************************************************************)
(* MRTKernel for TLC.  Tasks are ranked anywhere and CPUs are taken in any *)
(* order: none is distinguished from another.                              *)
(***************************************************************************)
EXTENDS MRTKernel, TLC

Symmetry == Permutations(Tasks) \cup Permutations(CPUs)
=============================================================================
