---------------------------- MODULE IndexRanking ----------------------------
(***************************************************************************)
(* Which matches of an indexed search are answered, and in which order.    *)
(* The code never sorts all matches: two limited queries are merged, or a  *)
(* heap of bounded size is filled from a scan.                             *)
(*                                                                         *)
(* Code: index/query.rs (IndexDb::search_exact, search_prefix,             *)
(* search_full_text, search_rank, prefix_upper_bound; IndexManager::search)*)
(*                                                                         *)
(* A string is a sequence of code points, which SQLite compares in binary. *)
(* Names and item ids are normalized, so two entries may share both; they  *)
(* differ in the id, the item id as it was spelt.  What MATCH finds in the *)
(* full-text table is external: any set of entries, in any order.          *)
(***************************************************************************)
EXTENDS Integers, SequencesExt

CONSTANTS
  LastChar,        \* U+10FFFF
  FirstSurrogate,  \* U+D800
  LastSurrogate,   \* U+DFFF
  MaxLength,       \* bound on the length of strings
  Tables,          \* sets of entries [id, name, item]
  Limits           \* results asked for

(* Code points that are no characters. *)
Surrogates == FirstSurrogate..LastSurrogate

Chars == (0..LastChar) \ Surrogates
Strings == BoundedSeq(Chars, MaxLength)
Queries == Strings \ {<<>>}

ASSUME RankingAssumption ==
  /\ FirstSurrogate \in Nat /\ LastSurrogate \in Nat /\ LastChar \in Nat
  /\ 0 < FirstSurrogate /\ FirstSurrogate <= LastSurrogate /\ LastSurrogate < LastChar
  /\ Limits \subseteq Nat \ {0}
  /\ \A table \in Tables : \A e, f \in table : e.id = f.id => e = f

-----------------------------------------------------------------------------
(* The order of strings, and of entries: SearchRank, then the item id. *)
Less(s, t) ==
  \E n \in 0..Len(s) :
    /\ n < Len(t) /\ SubSeq(s, 1, n) = SubSeq(t, 1, n)
    /\ n < Len(s) => s[n + 1] < t[n + 1]

Within(q, s) == \E i \in 1..(Len(s) - Len(q) + 1) : SubSeq(s, i, i + Len(q) - 1) = q

SearchRank(q, e) ==
  LET tiers == <<e.name = q, e.item = q, IsPrefix(q, e.name), IsPrefix(q, e.item),
                 Within(q, e.name), Within(q, e.item)>>
  IN  Min({i - 1 : i \in {j \in DOMAIN tiers : tiers[j]}} \cup {Len(tiers)})

ByItem(e, f) == Less(e.item, f.item) \/ (e.item = f.item /\ e.id < f.id)

ByName(e, f) ==
  \/ Len(e.name) < Len(f.name)
  \/ Len(e.name) = Len(f.name) /\ Less(e.name, f.name)
  \/ e.name = f.name /\ ByItem(e, f)

Before(q, e, f) ==
  \/ SearchRank(q, e) < SearchRank(q, f)
  \/ SearchRank(q, e) = SearchRank(q, f) /\ ByName(e, f)

FirstOf(s, n) == SubSeq(s, 1, IF Len(s) < n THEN Len(s) ELSE n)

(* SELECT ... ORDER BY ... LIMIT n *)
Select(rows, Order(_, _), n) == FirstOf(SetToSortSeq(rows, Order), n)

(* The candidates are sorted and cut to limit + 1, from which has_more is    *)
(* known.                                                                    *)
Sorted(q, candidates, limit) ==
  Select(candidates, LAMBDA e, f : Before(q, e, f), limit + 1)

-----------------------------------------------------------------------------
(* prefix_upper_bound: the least string above all that begin with a prefix;  *)
(* <<>> if there is none.                                                    *)
NextChar(c) == IF c + 1 = FirstSurrogate THEN LastSurrogate + 1 ELSE c + 1

PrefixUpperBound(q) ==
  LET raisable == {i \in DOMAIN q : q[i] # LastChar} IN
  IF raisable = {} THEN <<>>
  ELSE LET i == Max(raisable) IN Append(SubSeq(q, 1, i - 1), NextChar(q[i]))

InRange(q, s) ==
  /\ ~Less(s, q)
  /\ IF PrefixUpperBound(q) = <<>> THEN SubSeq(s, 1, IF Len(q) < Len(s) THEN Len(q) ELSE Len(s)) = q
     ELSE Less(s, PrefixUpperBound(q))

(* search_prefix: the best of either column, merged by item id. *)
SearchPrefix(table, q, limit) ==
  LET named == {e \in table : InRange(q, e.name)}
      items == {e \in table : InRange(q, e.item)}
  IN  Sorted(q, ToSet(Sorted(q, named, limit)) \cup ToSet(Sorted(q, items, limit)), limit)

(* search_exact: the second query is left out when the first one fills the   *)
(* answer.                                                                   *)
SearchExact(table, q, limit) ==
  LET named == Select({e \in table : e.name = q}, ByItem, limit + 1)
      items == Select({e \in table : e.item = q /\ e.name # q}, ByName, limit + 1)
  IN  Sorted(q, ToSet(named) \cup (IF Len(named) > limit THEN {} ELSE ToSet(items)), limit)

(* search_full_text: a heap of limit + 1 candidates, the worst on top; the   *)
(* rows of those that are left are then looked up in the entries.            *)
Worst(q, heap) == CHOOSE e \in heap : \A f \in heap \ {e} : Before(q, f, e)

Push(q, heap, e, limit) ==
  IF Cardinality(heap) <= limit THEN heap \cup {e}
  ELSE IF Before(q, e, Worst(q, heap)) THEN (heap \ {Worst(q, heap)}) \cup {e} ELSE heap

Heap(q, scan, limit) ==
  LET heap[i \in 0..Len(scan)] ==
        IF i = 0 THEN {} ELSE Push(q, heap[i - 1], scan[i], limit)
  IN heap[Len(scan)]

SearchFullText(scan, table, q, limit) ==
  SelectSeq(Sorted(q, Heap(q, scan, limit), limit), LAMBDA e : e \in table)

(* IndexManager::search *)
Answer(matches, limit) ==
  [matches |-> FirstOf(matches, limit), has_more |-> Len(matches) > limit]

-----------------------------------------------------------------------------
(* What an answer should be: of all that match, the best, and whether there  *)
(* are more.                                                                 *)
Best(q, matching, limit) ==
  LET all == SetToSortSeq(matching, LAMBDA e, f : Before(q, e, f))
  IN  [matches |-> FirstOf(all, limit), has_more |-> Cardinality(matching) > limit]

(* query.rs, prefix_upper_bound: the range of the index scan holds exactly   *)
(* the strings that begin with the query, also at the last character and     *)
(* beside the surrogates, which are no characters.                           *)
RangeIsPrefix ==
  \A q \in Queries, s \in Strings : InRange(q, s) <=> IsPrefix(q, s)

(* query.rs, search_exact and search_prefix: although every query is cut at  *)
(* limit + 1 before the merge, the answer is the best of all matches, and    *)
(* has_more is true exactly if some are left out.                            *)
MergedIsBest ==
  \A table \in Tables, q \in Queries, limit \in Limits :
    /\ Answer(SearchExact(table, q, limit), limit)
         = Best(q, {e \in table : e.name = q \/ e.item = q}, limit)
    /\ Answer(SearchPrefix(table, q, limit), limit)
         = Best(q, {e \in table : IsPrefix(q, e.name) \/ IsPrefix(q, e.item)}, limit)

(* query.rs, search_full_text: the heap holds the best of all hits, in       *)
(* whichever order the scan returns them.                                    *)
HeapIsBest ==
  \A table \in Tables, q \in Queries, limit \in Limits : \A scan \in SetToSeqs(table) :
    Answer(SearchFullText(scan, table, q, limit), limit) = Best(q, table, limit)
=============================================================================
