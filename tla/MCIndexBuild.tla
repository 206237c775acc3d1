---------------------------- MODULE MCIndexBuild ----------------------------
(* Instances of IndexBuild for TLC: the calls are interchangeable. *)
EXTENDS IndexBuildCatalog, TLC

TaskSymmetry == Permutations(Tasks)
=============================================================================
