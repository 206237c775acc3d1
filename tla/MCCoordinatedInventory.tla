----------------------- MODULE MCCoordinatedInventory -----------------------
(* An instance of CoordinatedInventory: a branch and a branch that is an    *)
(* item as well, with an item that is reached through both, beside a branch *)
(* without an item_id.                                                      *)
EXTENDS CoordinatedInventory, TLC

MCNodes == {"A", "B", "unnamed"}
MCNamed == {"A", "B"}
MCKind == [A |-> "branch", B |-> "both", unnamed |-> "branch"]
MCBelow == [A |-> {"shared"}, B |-> {"shared", "B.x"}, unnamed |-> {"hidden"}]

OneItemBelow == [MCBelow EXCEPT !.B = {"shared"}]

Symmetry == Permutations(Workers)
=============================================================================
