--------------------------- MODULE MCCleanupQueue ---------------------------
(* CleanupQueue for model checking: servers and threads are interchangeable. *)
EXTENDS CleanupQueue, TLC

Symmetry ==
  Permutations(Servers) \cup Permutations(Callers) \cup Permutations(Workers)

=============================================================================
