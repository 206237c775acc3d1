--------------------------- MODULE MCCleanupBatch ---------------------------
(* CleanupBatch for model checking. *)
EXTENDS CleanupBatch

=============================================================================
