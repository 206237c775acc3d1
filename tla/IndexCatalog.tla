---------------------------- MODULE IndexCatalog ----------------------------
(***************************************************************************)
(* What the namespace index promises to those who search it: every server  *)
(* has one index or none, it is the result of one complete inventory, it   *)
(* is replaced as a whole, and it is there until it is replaced or         *)
(* withdrawn.  Failed, cancelled and interrupted builds, cleanup, retries  *)
(* and restarts do not show.                                               *)
(*                                                                         *)
(* Code: what crates/opcda-bridge-gateway/src/index/query.rs and status.rs *)
(* read from the store, over the life of a server's generations.           *)
(***************************************************************************)
EXTENDS Naturals, FiniteSets

CONSTANTS Servers, Items, NoIndex

VARIABLES
  served,     \* the index of each server, and the size status reports for it
  surveys     \* complete inventories that are not published yet

vars == <<served, surveys>>

Index(items) == [items |-> items, size |-> Cardinality(items)]

Init ==
  /\ served = [s \in Servers |-> NoIndex]
  /\ surveys = [s \in Servers |-> {}]

(* An inventory is complete. *)
Survey(s) ==
  /\ \E items \in SUBSET Items : surveys' = [surveys EXCEPT ![s] = @ \cup {items}]
  /\ UNCHANGED served

(* A complete inventory becomes the index, and the old one is gone. *)
Publish(s) ==
  \E items \in surveys[s] :
    /\ served' = [served EXCEPT ![s] = Index(items)]
    /\ surveys' = [surveys EXCEPT ![s] = @ \ {items}]

(* A complete inventory is not used. *)
Abandon(s) ==
  /\ \E items \in surveys[s] : surveys' = [surveys EXCEPT ![s] = @ \ {items}]
  /\ UNCHANGED served

(* The index is deleted, or does not fit the server's browse profile; never  *)
(* while the result of a build waits to replace it.                          *)
Withdraw(s) ==
  /\ surveys[s] = {}
  /\ served' = [served EXCEPT ![s] = NoIndex]
  /\ UNCHANGED surveys

Restart ==
  /\ surveys' = [s \in Servers |-> {}]
  /\ UNCHANGED served

Next ==
  \/ \E s \in Servers : Survey(s) \/ Publish(s) \/ Abandon(s) \/ Withdraw(s)
  \/ Restart

Spec == Init /\ [][Next]_vars
=============================================================================
