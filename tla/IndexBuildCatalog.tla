-------------------------- MODULE IndexBuildCatalog --------------------------
(***************************************************************************)
(* IndexBuild implements IndexCatalog.                                     *)
(***************************************************************************)
EXTENDS IndexBuild

NoIndex == [none |-> TRUE]

(* What search and status show of a server: its active generation. *)
Served(s) ==
  IF ~HasActive(s) THEN NoIndex
  ELSE LET g == CHOOSE h \in Gens : gens[s][h] = "active"
       IN  [items |-> rows[s][g], size |-> count[s][g]]

(* Builds whose inventory is complete and which may still promote it. *)
Surveyed(t) == end[t] = "complete" /\ pc[t] \in {"settle", "promote"}
Surveys(s) == {sent[t] : t \in {u \in Tasks : srv[u] = s /\ Surveyed(u)}}

Catalog == INSTANCE IndexCatalog
           WITH served <- [s \in Servers |-> Served(s)],
                surveys <- [s \in Servers |-> Surveys(s)]

(* The build pipeline of enrollment.rs, traversal.rs and store.rs, with its  *)
(* tasks, transactions, deletions, errors and restarts, implements the       *)
(* catalogue that searches see: an index is replaced as a whole by a         *)
(* complete inventory with its exact size, and never lost otherwise.         *)
ImplementsCatalog == Catalog!Spec
=============================================================================
