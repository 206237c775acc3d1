-------------------------- MODULE MCBrowseSessions --------------------------
(* Small instances of BrowseSessions. *)
EXTENDS BrowseSessions, TLC

Symmetry == Permutations(Calls) \cup Permutations(Ids)
=============================================================================
