--------------------------- MODULE MCBrowseClients ---------------------------
(* A root with a branch and two items; the branch holds one item again. *)
EXTENDS BrowseClients

CONSTANTS a, s

MCParents == {"root", "branch"}
MCListing == [p \in MCParents |-> IF p = "root" THEN <<"branch", "x", "y">> ELSE <<"again">>]
MCItems == [n \in {"branch", "x", "y", "again"} |->
              IF n = "branch" THEN NoItem ELSE IF n = "y" THEN "Y" ELSE "X"]
Request(results, visits, branches, temporary, refresh) ==
  [results |-> results, visits |-> visits, branches |-> branches,
   temporary |-> temporary, refresh |-> refresh]
MCSearches == {Request(9, 9, FALSE, FALSE, TRUE), Request(9, 9, TRUE, TRUE, FALSE),
               Request(1, 9, TRUE, TRUE, FALSE), Request(9, 3, FALSE, TRUE, FALSE)}
MCMatching == {"branch", "x", "again"}
=============================================================================
