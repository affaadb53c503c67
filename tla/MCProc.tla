--------------------------------- MODULE MCProc ---------------------------------
(* Instances of Proc for TLC.                                              *)
EXTENDS Proc, TLC

\* The structs do_fork hands out are interchangeable in the safety runs.
Symmetry == Permutations(UserProcs)
=============================================================================
