---------------------------- MODULE MCQueryCache ----------------------------
(* Small instances of QueryCache, and of the answers it remembers. *)
EXTENDS QueryCache, IndexRanking

Symmetry == Permutations(Searches) \cup Permutations(Keys)

(* Entries that share a name, an item id or both, at every rank of a query. *)
Entry(id, name, item) == [id |-> id, name |-> name, item |-> item]
MCEntries ==
  {Entry(1, <<1>>, <<3>>), Entry(2, <<1>>, <<3>>), Entry(3, <<3, 3>>, <<1>>),
   Entry(4, <<4>>, <<1>>), Entry(5, <<3>>, <<1>>), Entry(6, <<1, 3>>, <<4>>),
   Entry(7, <<4>>, <<1, 3>>), Entry(8, <<3, 1>>, <<4, 4>>)}
MCTables == {t \in SUBSET MCEntries : Cardinality(t) <= 3}

(* The answers are right over all these tables, queries and limits. *)
ASSUME AnswersAssumption == RangeIsPrefix /\ MergedIsBest /\ HeapIsBest
=============================================================================
