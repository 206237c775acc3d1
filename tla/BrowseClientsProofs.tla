------------------------ MODULE BrowseClientsProofs ------------------------
(***************************************************************************)
(* What a browse command prints and what a live search reports, for every   *)
(* namespace, page size, cache size and number of commands.                 *)
(***************************************************************************)
EXTENDS BrowseClients, FiniteSetTheorems, SequenceTheorems, WellFoundedInduction, TLAPS

-----------------------------------------------------------------------------
(* Types *)

MaybeToken == {None} \cup Tokens

PageType == [nodes : Seq(AllNodes), next : MaybeToken, complete : BOOLEAN, fetch : MaybeToken]
BindingType == [token : Tokens, parent : Parents, size : Nat, offset : Nat]
KeyType == [parent : Parents, token : MaybeToken, size : Nat]
EntryType == [key : KeyType, page : PageType]

CallPc == {"none", "lookup", "await", "native", "store", "page", "error"}
CallType ==
  [pc : CallPc, parent : Parents, token : MaybeToken, size : Nat, refresh : BOOLEAN,
   offset : Nat, page : PageType]

PagingType ==
  /\ alive \in BOOLEAN /\ nodes \in Nat /\ fetches \in 0..MaxFetches
  /\ bound \in Seq(BindingType) /\ cached \in Seq(EntryType)
  /\ req \in [Clients -> CallType]

CommandType ==
  [pc : {"idle", "asking", "printed", "failed"}, all : BOOLEAN, size : Nat \ {0},
   cap : Nat \ {0}, refresh : BOOLEAN, rows : Seq(AllNodes), next : MaybeToken,
   complete : BOOLEAN, oldest : MaybeToken, since : MaybeToken]

Walking == {"scope", "page", "nodes", "turn"}
ScopeType == [parent : Parents, refresh : BOOLEAN]
Event ==
  {Progress, SearchError} \cup {Match(n) : n \in AllNodes}
    \cup {Completed(complete, truncated) : complete \in BOOLEAN, truncated \in BOOLEAN}

KnownItems == {ItemOf[n] : n \in AllNodes}

SearchType ==
  [pc : Walking \cup {"stop", "close", "closed"}, scopes : Seq(ScopeType), parent : Parents,
   todo : Seq(AllNodes), next : MaybeToken, matched : SUBSET KnownItems,
   matches : Nat, visited : Nat, outbox : Seq(Event), request : Searches]

ReaderType == [state : {"reading", "ok", "failed", "gone"}, events : Seq(Event)]

-----------------------------------------------------------------------------
(* A token stands for a place in a listing.  Once its binding is evicted the *)
(* gateway no longer knows which, but clients still hold the token and pages *)
(* cached under it are still served: the invariant is about some assignment  *)
(* T of places to the tokens given out so far.                               *)
Places == [parent : Parents, size : Nat, offset : Nat]

Place(T, token) == IF token = None THEN 0 ELSE T[token].offset

(* The token, if any, is one of the first n and was made for this parent and *)
(* page size.                                                                *)
Fits(T, n, key) ==
  key.token # None =>
    key.token <= n /\ T[key.token].parent = key.parent /\ T[key.token].size = key.size

(* The page holds the children from the place of the key on, and its own     *)
(* token stands for the place after it.                                      *)
PageFits(T, n, key, page) ==
  LET from == Place(T, key.token)
      to == from + Len(page.nodes) IN
  /\ page.nodes = SubSeq(Listing[key.parent], from + 1, to)
  /\ to <= Len(Listing[key.parent])
  /\ page.fetch \in 1..n /\ key.token < page.fetch
  /\ page.next = None => to = Len(Listing[key.parent])
  /\ page.next # None =>
       /\ page.next = page.fetch
       /\ T[page.next] = [parent |-> key.parent, size |-> key.size, offset |-> to]

BindingOK(T, n, b) ==
  b.token <= n /\ T[b.token] = [parent |-> b.parent, size |-> b.size, offset |-> b.offset]

EntryOK(T, n, e) == Fits(T, n, e.key) /\ PageFits(T, n, e.key, e.page) /\ Consistent(e.page)

CallOK(T, n, r) ==
  /\ r.refresh => r.token = None
  /\ r.pc = "lookup" => r.offset = 0
  /\ r.pc \in {"await", "native", "store", "page"} => Fits(T, n, PageKey(r))
  /\ r.pc \in {"await", "native", "store"} => r.offset = Place(T, r.token)
  /\ r.pc \in {"store", "page"} => PageFits(T, n, PageKey(r), r.page)
  /\ r.pc = "page" => Consistent(r.page)

PagingOK(T) ==
  /\ \A t \in 1..fetches : T[t].offset <= Len(Listing[T[t].parent])
  /\ \A b \in Contents(bound) : BindingOK(T, fetches, b)
  /\ \A e \in Contents(cached) : EntryOK(T, fetches, e)
  /\ \A c \in Clients : CallOK(T, fetches, req[c])

(* The command's rows reach up to the place its next page starts at.         *)
RowsOK(k) ==
  /\ k.rows = SubSeq(Listing["root"], 1, Len(k.rows)) /\ Len(k.rows) <= Len(Listing["root"])
  /\ k.all => Len(k.rows) <= k.cap
  /\ k.pc \in {"idle", "failed"} => k.rows = <<>>
  /\ k.pc = "printed" =>
       /\ k.complete => k.rows = Listing["root"]
       /\ k.all => k.complete \/ Len(k.rows) = k.cap
  /\ k.refresh => k.since < k.oldest \/ (k.oldest = MaxFetches /\ k.rows = <<>>)

AskingOK(T, n, k, r) ==
  /\ k.since <= n /\ (k.all => Len(k.rows) < k.cap)
  /\ k.next = None => k.rows = <<>>
  /\ k.next # None =>
       /\ k.next <= n /\ (k.refresh => k.since < k.next)
       /\ T[k.next].parent = "root" /\ T[k.next].offset = Len(k.rows)
  /\ r.pc # "none"
  /\ r.pc # "error" =>
       /\ r.parent = "root" /\ r.token = k.next
       /\ k.refresh /\ k.next = None => r.refresh
       /\ k.refresh /\ r.pc \in {"store", "page"} => k.since < r.page.fetch

CommandOK(T, n, k, r) == RowsOK(k) /\ (k.pc = "asking" => AskingOK(T, n, k, r))

-----------------------------------------------------------------------------
(* What a search has emitted is a log L; its client has read a prefix, the   *)
(* channel holds the next part and the task the rest.                        *)
Delivered(L, read, sent, outbox) ==
  \E i, j \in 0..Len(L) :
    /\ i <= j
    /\ read = SubSeq(L, 1, i) /\ sent = SubSeq(L, i + 1, j)
    /\ outbox = SubSeq(L, j + 1, Len(L))

(* What the request q asks for, and what the log reports. *)
Asked(q, n) == n \in Matching /\ (ItemOf[n] # NoItem \/ q.branches)
Item(L, i) == ItemOf[L[i].node]
Items(L) == {Item(L, i) : i \in MatchesIn(L)}

(* Every match is wanted, and no item was reported twice. *)
Truthful(q, L) ==
  /\ \A i \in MatchesIn(L) : L[i].node \in AllNodes /\ Asked(q, L[i].node)
  /\ \A i, j \in MatchesIn(L) : Item(L, i) = Item(L, j) /\ i # j => Item(L, i) = NoItem

(* Everything asked for is reported. *)
Whole(q, L) == Items(L) = {ItemOf[n] : n \in {m \in AllNodes : Asked(q, m)}}

(* The first m children of p are reported if asked for, and walked or to be  *)
(* walked if they have children.  D: the parents that are done.              *)
Pending(s) ==
  {scope.parent : scope \in Contents(s.scopes)}
    \cup (IF s.pc = "scope" THEN {} ELSE {s.parent})

Seen(s, L, D, p, m) ==
  \A x \in 1..m : LET n == Listing[p][x] IN
    /\ Asked(s.request, n) => ItemOf[n] \in Items(L)
    /\ n \in Parents => n \in D \cup Pending(s)

(* How far the search has come in the listing it walks. *)
PageEnd(T, s) == IF s.next = None THEN Len(Listing[s.parent]) ELSE T[s.next].offset
Reached(T, s) ==
  IF s.pc = "page" THEN Place(T, s.next) ELSE PageEnd(T, s) - Len(s.todo)

(* The log agrees with the counters of the search. *)
LogOK(s, L) ==
  /\ \A i \in DOMAIN L : L[i].kind \in {"progress", "match"}
  /\ Truthful(s.request, L)
  /\ s.matches = Cardinality(MatchesIn(L)) /\ s.matches < s.request.results
  /\ s.matched = Items(L) \ {NoItem}

(* Where the search stands in the namespace. *)
WalkOK(s, L, D) ==
  /\ "root" \in D \cup Pending(s)
  /\ \A p \in D : Seen(s, L, D, p, Len(Listing[p]))

(* Where it stands in the listing of its parent. *)
PlaceOK(T, n, s, L, D) ==
  /\ s.pc = "scope" => s.next = None
  /\ s.pc # "scope" => Seen(s, L, D, s.parent, Reached(T, s))
  /\ s.pc # "scope" /\ s.next # None => s.next <= n /\ T[s.next].parent = s.parent
  /\ s.pc \in {"nodes", "turn"} =>
       /\ Len(s.todo) <= PageEnd(T, s)
       /\ s.todo = SubSeq(Listing[s.parent], Reached(T, s) + 1, PageEnd(T, s))
  /\ s.pc = "turn" => s.todo = <<>>

(* The call it waits for. *)
PageAsked(s, r) ==
  s.pc = "page" =>
    /\ s.outbox = <<>> /\ r.pc # "none"
    /\ r.pc # "error" => r.parent = s.parent /\ r.token = s.next

(* The log of a search that has come to its verdict. *)
Settled(q, L) ==
  /\ L # <<>>
  /\ \A i \in 1..(Len(L) - 1) : L[i].kind \in {"progress", "match"}
  /\ L[Len(L)].kind \in {"completed", "error"}
  /\ Cardinality(MatchesIn(L)) <= q.results
  /\ L[Len(L)].kind = "completed" =>
       /\ L[Len(L)].complete => Truthful(q, L) /\ Whole(q, L)
       /\ L[Len(L)].truncated <=> ~L[Len(L)].complete

(* The search task and its call. *)
TaskOK(T, n, s, r, L, D, gone) ==
  /\ s.pc \in Walking =>
       LogOK(s, L) /\ WalkOK(s, L, D) /\ PlaceOK(T, n, s, L, D) /\ PageAsked(s, r)
  /\ s.pc \notin Walking /\ ~gone => Settled(s.request, L)
  /\ s.pc \in {"close", "closed"} => s.outbox = <<>>

SearchTypes == search \in SearchType /\ channel \in Seq(Event) /\ reader \in ReaderType

SearchOK(T, L, D) ==
  /\ L \in Seq(Event) /\ D \in SUBSET Parents
  /\ TaskOK(T, fetches, search, req[Searcher], L, D, Gone)
  /\ ~Gone => Delivered(L, reader.events, channel, search.outbox)
  /\ Gone => reader.events = <<>>
  /\ \A i \in DOMAIN reader.events : reader.events[i].kind # "error"
  /\ reader.state = "ok" => channel = <<>> /\ search.pc = "closed"

-----------------------------------------------------------------------------
(* Sequences *)

(* Induction, from the least element of the numbers that are not in S. *)
LEMMA NatInduct ==
  ASSUME NEW S, 0 \in S, \A n \in Nat : n \in S => n + 1 \in S
  PROVE  \A n \in Nat : n \in S
  <1> DEFINE R == OpToRel(<, Nat)
             B == Nat \ S
  <1> SUFFICES ASSUME B # {} PROVE FALSE
    OBVIOUS
  <1>1. IsWellFoundedOn(R, Nat) BY NatLessThanWellFounded
  <1>2. \A x, y \in Nat : x < y => <<x, y>> \in R BY DEF OpToRel
  <1>3. B \subseteq Nat OBVIOUS
  <1>4. \A x \in Nat : x \in B <=> x \notin S OBVIOUS
  <1> HIDE DEF R, B
  <1>5. PICK n \in B : \A y \in B : ~(<<y, n>> \in R) BY <1>1, <1>3, WFMin
  <1>6. n \in Nat /\ n # 0 /\ n \notin S BY <1>3, <1>4
  <1>7. n - 1 \in Nat /\ n - 1 < n /\ (n - 1) + 1 = n BY <1>6
  <1>8. n - 1 \in S BY <1>2, <1>4, <1>5, <1>6, <1>7
  <1> QED BY <1>6, <1>7, <1>8

(* The equation Retain recurs by. *)
RetainStep(s, K, f, i) ==
  IF i = 0 THEN <<>> ELSE IF s[i] \in K THEN Append(f[i - 1], s[i]) ELSE f[i - 1]

(* The recursion of Retain has a solution, built up one index at a time. *)
LEMMA RetainDef ==
  ASSUME NEW s, NEW K, Len(s) \in Nat
  PROVE  \E f : f = [i \in 0..Len(s) |-> RetainStep(s, K, f, i)] /\ Retain(s, K) = f[Len(s)]
  <1> DEFINE Q(n) == \E f : f = [i \in 0..n |-> RetainStep(s, K, f, i)]
             S == {n \in Nat : Q(n)}
  <1>1. Q(0)
    <2> DEFINE f == [i \in 0..0 |-> <<>>]
    <2>1. f = [i \in 0..0 |-> RetainStep(s, K, f, i)] BY DEF RetainStep
    <2> QED BY <2>1
  <1>2. ASSUME NEW n \in Nat, Q(n) PROVE Q(n + 1)
    <2>1. PICK f : f = [i \in 0..n |-> RetainStep(s, K, f, i)] BY <1>2
    <2> DEFINE g == [i \in 0..n+1 |-> IF i <= n THEN f[i] ELSE RetainStep(s, K, f, i)]
    <2>2. ASSUME NEW i \in 0..n+1 PROVE g[i] = RetainStep(s, K, g, i)
      <3>1. CASE i = 0 BY <3>1, <2>1 DEF RetainStep
      <3>2. CASE i # 0
        <4>1. i - 1 \in 0..n /\ g[i - 1] = f[i - 1] BY <3>2
        <4>2. g[i] = RetainStep(s, K, f, i) BY <2>1
        <4> QED BY <4>1, <4>2 DEF RetainStep
      <3> QED BY <3>1, <3>2
    <2>3. g = [i \in 0..n+1 |-> RetainStep(s, K, g, i)]
      BY <2>2
    <2> QED BY <2>3
  <1>3. \A n \in Nat : Q(n)
    <2>1. 0 \in S BY <1>1
    <2>2. \A n \in Nat : n \in S => n + 1 \in S BY <1>2
    <2>3. \A n \in Nat : n \in S
      <3> HIDE DEF S
      <3> QED BY <2>1, <2>2, NatInduct
    <2> QED BY <2>3
  <1>4. Q(Len(s)) BY <1>3
  <1> QED BY <1>4 DEF Retain, RetainStep

(* What is retained was there before and passed the test. *)
LEMMA RetainType ==
  ASSUME NEW X, NEW s \in Seq(X), NEW K
  PROVE  Retain(s, K) \in Seq(X \cap K) /\ Len(Retain(s, K)) <= Len(s)
  <1>0. Len(s) \in Nat OBVIOUS
  <1>1. PICK f : f = [i \in 0..Len(s) |-> RetainStep(s, K, f, i)] /\ Retain(s, K) = f[Len(s)]
    BY <1>0, RetainDef
  <1> DEFINE P(n) == n <= Len(s) => f[n] \in Seq(X \cap K) /\ Len(f[n]) <= n
             S == {n \in Nat : P(n)}
  <1>2. P(0)
    <2>1. f[0] = <<>> BY <1>0, <1>1 DEF RetainStep
    <2> QED BY <2>1
  <1>3. ASSUME NEW n \in Nat, P(n) PROVE P(n + 1)
    <2> SUFFICES ASSUME n + 1 <= Len(s)
                 PROVE  f[n + 1] \in Seq(X \cap K) /\ Len(f[n + 1]) <= n + 1
      OBVIOUS
    <2>1. f[n] \in Seq(X \cap K) /\ Len(f[n]) <= n BY <1>0, <1>3
    <2>2. n + 1 \in 1..Len(s) BY <1>0
    <2>3. s[n + 1] \in X BY <2>2, ElementOfSeq
    <2>4. f[n + 1] = IF s[n + 1] \in K THEN Append(f[n], s[n + 1]) ELSE f[n]
      <3>1. n + 1 \in 0..Len(s) /\ n + 1 # 0 /\ (n + 1) - 1 = n BY <2>2
      <3>2. f[n + 1] = RetainStep(s, K, f, n + 1) BY <1>1, <3>1
      <3> QED BY <3>1, <3>2 DEF RetainStep
    <2> QED BY <2>1, <2>3, <2>4
  <1>4. \A n \in Nat : n \in S
    <2>1. 0 \in S BY <1>2
    <2>2. \A n \in Nat : n \in S => n + 1 \in S BY <1>3
    <2> HIDE DEF S
    <2> QED BY <2>1, <2>2, NatInduct
  <1> QED BY <1>0, <1>1, <1>4

(* The elements of a sequence. *)
LEMMA ContentsType ==
  ASSUME NEW X, NEW s \in Seq(X)
  PROVE  Contents(s) \subseteq X /\ s \in Seq(Contents(s))
  BY ElementOfSeq DEF Contents

(* One element more. *)
LEMMA ContentsAppend ==
  ASSUME NEW X, NEW s \in Seq(X), NEW e \in X
  PROVE  Contents(Append(s, e)) \subseteq Contents(s) \cup {e}
  <1>1. Append(s, e) \in Seq(X) /\ Len(Append(s, e)) = Len(s) + 1
    OBVIOUS
  <1>2. \A i \in 1..(Len(s) + 1) : Append(s, e)[i] = IF i <= Len(s) THEN s[i] ELSE e
    OBVIOUS
  <1> QED BY <1>1, <1>2 DEF Contents

(* The elements that are retained. *)
LEMMA RetainContents ==
  ASSUME NEW X, NEW s \in Seq(X), NEW K
  PROVE  /\ Retain(s, K) \in Seq(X) /\ Len(Retain(s, K)) <= Len(s)
         /\ Contents(Retain(s, K)) \subseteq Contents(s) \cap K
  <1>1. s \in Seq(Contents(s)) BY ContentsType
  <1>2. Retain(s, K) \in Seq(Contents(s) \cap K) BY <1>1, RetainType
  <1>3. Contents(Retain(s, K)) \subseteq Contents(s) \cap K BY <1>2, ContentsType
  <1>4. Retain(s, K) \in Seq(X \cap K) /\ Len(Retain(s, K)) <= Len(s) BY RetainType
  <1>5. Retain(s, K) \in Seq(X) BY <1>4, SeqMonotonic, X \cap K \subseteq X
  <1> QED BY <1>3, <1>4, <1>5

(* The newest elements are the end of a sequence. *)
LEMMA NewestType ==
  ASSUME NEW X, NEW s \in Seq(X), NEW n \in Nat
  PROVE  /\ Newest(s, n) \in Seq(X) /\ Len(Newest(s, n)) <= n
         /\ Contents(Newest(s, n)) \subseteq Contents(s)
  <1>1. CASE Len(s) > n
    <2> DEFINE d == Len(s) - n
    <2>1. d \in Nat /\ d + 1 \in 1..Len(s) + 1 /\ Newest(s, n) = SubSeq(s, d + 1, Len(s))
      BY <1>1 DEF Newest, Drop
    <2>2. /\ Newest(s, n) \in Seq(X) /\ Len(Newest(s, n)) = n
          /\ \A i \in 1..n : Newest(s, n)[i] = s[d + i]
      <3>1. \A i \in d + 1..Len(s) : s[i] \in X BY <2>1, ElementOfSeq
      <3>2. Len(s) - (d + 1) + 1 = n /\ \A i \in 1..n : (d + 1) + i - 1 = d + i BY <1>1
      <3> HIDE DEF d
      <3>3. /\ SubSeq(s, d + 1, Len(s)) \in Seq(X)
            /\ Len(SubSeq(s, d + 1, Len(s))) = IF d + 1 <= Len(s) THEN Len(s) - (d + 1) + 1 ELSE 0
            /\ \A i \in 1..Len(s) - (d + 1) + 1 :
                  SubSeq(s, d + 1, Len(s))[i] = s[(d + 1) + i - 1]
        BY <3>1, <2>1, SubSeqProperties
      <3> QED BY <2>1, <3>2, <3>3
    <2>3. \A i \in 1..n : d + i \in 1..Len(s)
      BY <1>1
    <2>4. DOMAIN Newest(s, n) = 1..n /\ DOMAIN s = 1..Len(s)
      BY <2>2, LenProperties
    <2> HIDE DEF d
    <2>5. Contents(Newest(s, n)) \subseteq Contents(s)
      BY <2>2, <2>3, <2>4 DEF Contents
    <2> QED BY <2>2, <2>5
  <1>2. CASE ~(Len(s) > n)
    BY <1>2 DEF Newest
  <1> QED BY <1>1, <1>2

(* A slice of a sequence and what it holds. *)
LEMMA Slice ==
  ASSUME NEW X, NEW s \in Seq(X), NEW a \in Nat, NEW b \in Nat, a <= b, b <= Len(s)
  PROVE  /\ SubSeq(s, a + 1, b) \in Seq(X) /\ Len(SubSeq(s, a + 1, b)) = b - a
         /\ \A i \in 1..(b - a) : SubSeq(s, a + 1, b)[i] = s[a + i]
  <1>1. \A i \in a + 1..b : s[i] \in X
    BY ElementOfSeq
  <1>2. /\ SubSeq(s, a + 1, b) \in Seq(X)
        /\ Len(SubSeq(s, a + 1, b)) = IF a + 1 <= b THEN b - (a + 1) + 1 ELSE 0
        /\ \A i \in 1..b - (a + 1) + 1 : SubSeq(s, a + 1, b)[i] = s[(a + 1) + i - 1]
    BY <1>1, SubSeqProperties
  <1>3. b - (a + 1) + 1 = b - a /\ \A i \in 1..(b - a) : (a + 1) + i - 1 = a + i
    OBVIOUS
  <1> QED BY <1>2, <1>3

(* A sequence whose elements agree with a part of another is a slice of it. *)
LEMMA IsSlice ==
  ASSUME NEW X, NEW s \in Seq(X), NEW t \in Seq(X), NEW a \in Nat, a + Len(t) <= Len(s)
  PROVE  (\A i \in 1..Len(t) : t[i] = s[a + i]) => t = SubSeq(s, a + 1, a + Len(t))
  <1>1. PICK b \in Nat : b = a + Len(t)
    OBVIOUS
  <1>2. a <= b /\ b <= Len(s) /\ b - a = Len(t)
    BY <1>1
  <1>3. /\ SubSeq(s, a + 1, b) \in Seq(X) /\ Len(SubSeq(s, a + 1, b)) = b - a
        /\ \A i \in 1..(b - a) : SubSeq(s, a + 1, b)[i] = s[a + i]
    BY <1>2, Slice
  <1>4. PICK u \in Seq(X) : /\ u = SubSeq(s, a + 1, b) /\ Len(u) = Len(t)
                            /\ \A i \in 1..Len(t) : u[i] = s[a + i]
    BY <1>2, <1>3
  <1> HAVE \A i \in 1..Len(t) : t[i] = s[a + i]
  <1>5. \A i \in 1..Len(t) : t[i] = u[i]
    BY <1>4
  <1>6. t = u BY <1>4, <1>5, SeqEqual
  <1> QED BY <1>1, <1>4, <1>6

(* Adjacent slices. *)
LEMMA SliceConcat ==
  ASSUME NEW X, NEW s \in Seq(X), NEW a \in Nat, NEW b \in Nat, a <= b, b <= Len(s)
  PROVE  SubSeq(s, 1, a) \o SubSeq(s, a + 1, b) = SubSeq(s, 1, b)
  <1> DEFINE p == SubSeq(s, 0 + 1, a)
             q == SubSeq(s, a + 1, b)
  <1>1. p \in Seq(X) /\ Len(p) = a /\ \A i \in 1..a : p[i] = s[i]
    <2>1. /\ p \in Seq(X) /\ Len(p) = a - 0
          /\ \A i \in 1..(a - 0) : p[i] = s[0 + i]
      BY Slice
    <2> HIDE DEF p
    <2> QED BY <2>1
  <1>2. q \in Seq(X) /\ Len(q) = b - a /\ \A i \in 1..(b - a) : q[i] = s[a + i]
    BY Slice
  <1>3. p = SubSeq(s, 1, a) OBVIOUS
  <1> HIDE DEF p, q
  <1>4. /\ p \o q \in Seq(X) /\ Len(p \o q) = b
        /\ \A i \in 1..b : (p \o q)[i] = IF i <= a THEN p[i] ELSE q[i - a]
    <2>1. p \in Seq(X) /\ q \in Seq(X) /\ Len(p) = a /\ Len(q) = b - a
      BY <1>1, <1>2
    <2>2. /\ p \o q \in Seq(X) /\ Len(p \o q) = Len(p) + Len(q)
          /\ \A i \in 1..Len(p) + Len(q) :
                (p \o q)[i] = IF i <= Len(p) THEN p[i] ELSE q[i - Len(p)]
      BY <2>1, ConcatProperties
    <2>3. Len(p) + Len(q) = b BY <2>1
    <2> QED BY <2>1, <2>2, <2>3
  <1>5. \A i \in 1..b : (p \o q)[i] = s[0 + i]
    <2> TAKE i \in 1..b
    <2>1. CASE i <= a BY <2>1, <1>1, <1>4
    <2>2. CASE ~(i <= a)
      <3>1. i - a \in 1..(b - a) /\ a + (i - a) = i BY <2>2
      <3> QED BY <3>1, <2>2, <1>2, <1>4
    <2> QED BY <2>1, <2>2
  <1>6. p \o q = SubSeq(s, 0 + 1, 0 + b)
    <2> DEFINE t == p \o q
    <2>1. t \in Seq(X) /\ Len(t) = b /\ 0 + Len(t) <= Len(s) /\ \A i \in 1..Len(t) : t[i] = s[0 + i]
      BY <1>4, <1>5
    <2> HIDE DEF t
    <2>2. t = SubSeq(s, 0 + 1, 0 + Len(t)) BY <2>1, IsSlice
    <2> QED BY <2>1, <2>2 DEF t
  <1>7. SubSeq(s, 0 + 1, 0 + b) = SubSeq(s, 1, b) OBVIOUS
  <1> QED BY <1>3, <1>6, <1>7 DEF q

(* The first element of a slice and the others. *)
LEMMA SliceHead ==
  ASSUME NEW X, NEW s \in Seq(X), NEW a \in Nat, NEW b \in Nat, a < b, b <= Len(s)
  PROVE  /\ Head(SubSeq(s, a + 1, b)) = s[a + 1] /\ s[a + 1] \in X
         /\ Tail(SubSeq(s, a + 1, b)) = SubSeq(s, (a + 1) + 1, b)
         /\ SubSeq(s, a + 1, b) # <<>>
  <1> DEFINE t == SubSeq(s, a + 1, b)
             u == Tail(t)
  <1>1. t \in Seq(X) /\ Len(t) = b - a /\ \A i \in 1..(b - a) : t[i] = s[a + i]
    BY Slice
  <1> HIDE DEF t
  <1>2. Len(t) > 0 /\ t # <<>> BY <1>1
  <1>3. Head(t) = s[a + 1] BY <1>1, <1>2
  <1>4. u \in Seq(X) /\ Len(u) = b - (a + 1) /\ \A i \in 1..Len(u) : u[i] = t[i + 1]
    BY <1>1, <1>2
  <1>5. \A i \in 1..Len(u) : u[i] = s[(a + 1) + i]
    BY <1>1, <1>4
  <1>6. (a + 1) + Len(u) = b BY <1>4
  <1> HIDE DEF u
  <1>7. u = SubSeq(s, (a + 1) + 1, (a + 1) + Len(u)) BY <1>4, <1>5, <1>6, IsSlice, SMTT(30)
  <1>8. s[a + 1] \in X BY ElementOfSeq
  <1> QED BY <1>2, <1>3, <1>6, <1>7, <1>8 DEF t, u

(* A slice of the rest of a sequence. *)
LEMMA SliceOfRest ==
  ASSUME NEW X, NEW s \in Seq(X), NEW o \in Nat, NEW m \in Nat, o + m <= Len(s)
  PROVE  /\ Len(SubSeq(s, o + 1, Len(s))) = Len(s) - o
         /\ SubSeq(SubSeq(s, o + 1, Len(s)), 1, m) = SubSeq(s, o + 1, o + m)
         /\ SubSeq(SubSeq(s, o + 1, Len(s)), 1, m) \in Seq(X)
         /\ Len(SubSeq(SubSeq(s, o + 1, Len(s)), 1, m)) = m
  <1> DEFINE rest == SubSeq(s, o + 1, Len(s))
             t == SubSeq(rest, 0 + 1, m)
  <1>1. /\ rest \in Seq(X) /\ Len(rest) = Len(s) - o
        /\ \A i \in 1..(Len(s) - o) : rest[i] = s[o + i]
    BY Slice
  <1> HIDE DEF rest
  <1>2. rest \in Seq(X) /\ m <= Len(rest) BY <1>1
  <1>3. t \in Seq(X) /\ Len(t) = m - 0 /\ \A i \in 1..(m - 0) : t[i] = rest[0 + i]
    BY <1>2, Slice
  <1>4. t = SubSeq(rest, 1, m) OBVIOUS
  <1> HIDE DEF t
  <1>5. Len(t) = m BY <1>3
  <1>6. \A i \in 1..Len(t) : t[i] = s[o + i]
    <2> TAKE i \in 1..Len(t)
    <2>1. i \in 1..(m - 0) /\ i \in 1..(Len(s) - o) /\ 0 + i = i BY <1>5
    <2>2. t[i] = rest[i] BY <1>3, <2>1
    <2>3. rest[i] = s[o + i] BY <1>1, <2>1
    <2> QED BY <2>2, <2>3
  <1>7. t = SubSeq(s, o + 1, o + Len(t)) BY <1>3, <1>5, <1>6, IsSlice
  <1>8. t = SubSeq(s, o + 1, o + m) BY <1>5, <1>7
  <1> QED BY <1>1, <1>3, <1>4, <1>5, <1>8 DEF rest

(* The empty slices. *)
LEMMA SliceEmpty ==
  ASSUME NEW X, NEW s \in Seq(X), NEW a \in Nat, NEW b \in Nat, a <= b, b <= Len(s)
  PROVE  SubSeq(s, a + 1, b) = <<>> <=> a = b
  BY Slice

-----------------------------------------------------------------------------
(* The pages *)

(* Tokens given out earlier keep their places. *)
Continues(T, U, n) == U \in [Tokens -> Places] /\ \A t \in 1..n : U[t] = T[t]

(* What a step of the gateway does to the call r it serves. *)
Served(n, r, r1) ==
  /\ r.pc \in {"lookup", "await", "native", "store"} /\ r1.pc # "none"
  /\ r1.pc # "error" => r1.parent = r.parent /\ r1.token = r.token /\ r1.refresh = r.refresh
  /\ r1.pc \in {"store", "page"} =>
       \/ r.pc = "store" /\ r1.page = r.page
       \/ n < r1.page.fetch
       \/ ~r.refresh /\ r.token < r1.page.fetch

(* The native listings. *)
LEMMA ListingType ==
  /\ "root" \in Parents
  /\ \A p \in Parents : Listing[p] \in Seq(AllNodes) /\ Len(Listing[p]) \in Nat
  BY PagingAssumption

(* Tokens are numbers. *)
LEMMA TokenType ==
  /\ MaxFetches \in Nat /\ MaxBound \in Nat /\ MaxCached \in Nat
  /\ \A t : t \in MaybeToken <=> t \in 0..MaxFetches
  /\ \A t : t \in Tokens <=> t \in 1..MaxFetches
  BY PagingAssumption DEF MaybeToken, Tokens, None

(* A call that asks for nothing. *)
LEMMA NoRequestType == NoPage \in PageType /\ NoRequest \in CallType
  <1>1. NoPage \in PageType
    BY TokenType DEF NoPage, PageType, None
  <1> QED BY <1>1, ListingType, TokenType DEF NoRequest, CallType, CallPc, None

(* The key of a call. *)
LEMMA KeyOfCall ==
  ASSUME NEW r \in CallType
  PROVE  /\ PageKey(r) \in KeyType /\ PageKey(r).token = r.token
         /\ PageKey(r).parent = r.parent /\ PageKey(r).size = r.size
  BY DEF CallType, KeyType, PageKey

(* A key that fits goes on fitting. *)
LEMMA FitsStays ==
  ASSUME NEW T, NEW U, NEW n \in Nat, NEW m \in Nat, n <= m, Continues(T, U, n),
         NEW key \in KeyType, Fits(T, n, key)
  PROVE  Fits(U, m, key) /\ Place(U, key.token) = Place(T, key.token)
  <1>1. key.token \in Nat BY TokenType DEF KeyType
  <1>2. CASE key.token = None BY <1>2 DEF Fits, Place
  <1>3. CASE key.token # None
    <2>1. key.token \in 1..n BY <1>1, <1>3 DEF Fits, None
    <2>2. U[key.token] = T[key.token] BY <2>1 DEF Continues
    <2> QED BY <1>1, <1>3, <2>1, <2>2 DEF Fits, Place
  <1> QED BY <1>2, <1>3

(* So does a page. *)
LEMMA PageFitsStays ==
  ASSUME NEW T, NEW U, NEW n \in Nat, NEW m \in Nat, n <= m, Continues(T, U, n),
         NEW key \in KeyType, NEW page \in PageType, Fits(T, n, key), PageFits(T, n, key, page)
  PROVE  PageFits(U, m, key, page)
  <1>1. Place(U, key.token) = Place(T, key.token) BY FitsStays
  <1>2. page.fetch \in 1..n BY DEF PageFits
  <1>3. page.next # None => U[page.next] = T[page.next]
    BY <1>2 DEF PageFits, Continues
  <1>4. page.fetch \in 1..m BY <1>2
  <1> QED BY <1>1, <1>3, <1>4 DEF PageFits

(* And a call. *)
LEMMA CallStays ==
  ASSUME NEW T, NEW U, NEW n \in Nat, NEW m \in Nat, n <= m, Continues(T, U, n),
         NEW r \in CallType, CallOK(T, n, r)
  PROVE  CallOK(U, m, r)
  <1>1. PageKey(r) \in KeyType /\ r.page \in PageType /\ PageKey(r).token = r.token
    BY KeyOfCall DEF CallType
  <1>2. r.pc \in {"await", "native", "store", "page"} =>
          Fits(U, m, PageKey(r)) /\ Place(U, r.token) = Place(T, r.token)
    BY <1>1, FitsStays DEF CallOK
  <1>3. r.pc \in {"store", "page"} => PageFits(U, m, PageKey(r), r.page)
    BY <1>1, PageFitsStays DEF CallOK
  <1> QED BY <1>2, <1>3 DEF CallOK

(* And what a command remembers, while its call is not touched. *)
LEMMA CommandStays ==
  ASSUME NEW T, NEW U, NEW n \in Nat, NEW m \in Nat, n <= m, Continues(T, U, n),
         NEW k \in CommandType, NEW r \in CallType, CommandOK(T, n, k, r)
  PROVE  CommandOK(U, m, k, r)
  <1>1. k.next \in Nat /\ k.since \in Nat BY TokenType DEF CommandType
  <1>2. k.pc = "asking" /\ k.next # None => U[k.next] = T[k.next]
    BY <1>1 DEF CommandOK, AskingOK, Continues, None
  <1> QED BY <1>1, <1>2 DEF CommandOK, AskingOK

(* Bindings and cached pages. *)
LEMMA StoreStays ==
  ASSUME NEW T, NEW U, NEW n \in Nat, NEW m \in Nat, n <= m, Continues(T, U, n)
  PROVE  /\ \A b \in BindingType : BindingOK(T, n, b) => BindingOK(U, m, b)
         /\ \A e \in EntryType : EntryOK(T, n, e) => EntryOK(U, m, e)
  <1>1. ASSUME NEW b \in BindingType, BindingOK(T, n, b) PROVE BindingOK(U, m, b)
    <2>1. b.token \in 1..n BY <1>1, TokenType DEF BindingType, BindingOK
    <2> QED BY <1>1, <2>1 DEF BindingOK, Continues
  <1>2. ASSUME NEW e \in EntryType, EntryOK(T, n, e) PROVE EntryOK(U, m, e)
    <2>1. e.key \in KeyType /\ e.page \in PageType BY DEF EntryType
    <2> QED BY <1>2, <2>1, FitsStays, PageFitsStays DEF EntryOK
  <1> QED BY <1>1, <1>2

(* One call changes, and the session keeps no more than it had. *)
LEMMA PagingFrame ==
  ASSUME PagingType, NEW T \in [Tokens -> Places], PagingOK(T), NEW c \in Clients,
         NEW r1 \in CallType, req' = [req EXCEPT ![c] = r1], CallOK(T, fetches, r1),
         bound' \in Seq(BindingType), Contents(bound') \subseteq Contents(bound),
         cached' \in Seq(EntryType), Contents(cached') \subseteq Contents(cached),
         alive' \in BOOLEAN, nodes' \in Nat, fetches' = fetches
  PROVE  /\ PagingType' /\ PagingOK(T)' /\ req'[c] = r1
         /\ \A d \in Clients : d # c => req'[d] = req[d]
  <1>1. req' \in [Clients -> CallType] /\ req'[c] = r1
    BY DEF PagingType
  <1>2. \A d \in Clients : d # c => req'[d] = req[d]
    BY DEF PagingType
  <1>3. PagingType'
    BY <1>1 DEF PagingType
  <1>4. \A d \in Clients : CallOK(T, fetches, req'[d])
    BY <1>1, <1>2 DEF PagingOK
  <1>5. PagingOK(T)'
    <2>1. \A b \in Contents(bound') : BindingOK(T, fetches, b)
      BY DEF PagingOK
    <2>2. \A e \in Contents(cached') : EntryOK(T, fetches, e)
      BY DEF PagingOK
    <2>3. \A t \in 1..fetches : T[t].offset <= Len(Listing[T[t].parent])
      BY DEF PagingOK
    <2> QED BY <1>4, <2>1, <2>2, <2>3 DEF PagingOK, Contents
  <1> QED BY <1>1, <1>2, <1>3, <1>5

(* A call that fails or is done, and one that begins. *)
LEMMA FreshCall ==
  ASSUME NEW T, NEW n
  PROVE  /\ NoRequest \in CallType /\ CallOK(T, n, NoRequest) /\ NoRequest.pc = "none"
         /\ [NoRequest EXCEPT !.pc = "error"] \in CallType
         /\ CallOK(T, n, [NoRequest EXCEPT !.pc = "error"])
         /\ [NoRequest EXCEPT !.pc = "error"].pc = "error"
  <1>1. NoRequest \in CallType /\ NoRequest.pc = "none" /\ NoRequest.refresh = FALSE
    BY NoRequestType DEF NoRequest
  <1>2. PICK e : e = [NoRequest EXCEPT !.pc = "error"]
    OBVIOUS
  <1>3. e \in CallType /\ e.pc = "error" /\ e.refresh = FALSE
    BY <1>1, <1>2 DEF CallType, CallPc
  <1>4. CallOK(T, n, NoRequest) /\ CallOK(T, n, e)
    BY <1>1, <1>3 DEF CallOK
  <1> QED BY <1>1, <1>2, <1>3, <1>4

(* The answer to a call that is found in the cache. *)
LEMMA CachedAnswer ==
  ASSUME PagingType, NEW T \in [Tokens -> Places], PagingOK(T), NEW c \in Clients,
         Hits(req[c]) # {}, ~req[c].refresh, req[c].pc \in {"lookup", "await"},
         Answer(c, (CHOOSE e \in Hits(req[c]) : TRUE).page)
  PROVE  \E r1 \in CallType :
           /\ req' = [req EXCEPT ![c] = r1] /\ CallOK(T, fetches, r1)
           /\ Served(fetches, req[c], r1)
  <1> DEFINE r == req[c]
  <1>1. PICK e \in Hits(r) : e = CHOOSE x \in Hits(r) : TRUE
    OBVIOUS
  <1>2. /\ e \in Contents(cached) /\ e.key = PageKey(r) /\ e \in EntryType
        /\ EntryOK(T, fetches, e)
    BY <1>1, ContentsType DEF Hits, PagingType, PagingOK
  <1>3. r \in CallType /\ e.page \in PageType
    BY <1>2 DEF PagingType, EntryType
  <1>4. PICK r1 : r1 = [r EXCEPT !.pc = "page", !.page = e.page]
    OBVIOUS
  <1>5. req' = [req EXCEPT ![c] = r1]
    BY <1>1, <1>4 DEF Answer, PagingType
  <1>6. /\ r1 \in CallType /\ r1.pc = "page" /\ r1.page = e.page /\ r1.refresh = r.refresh
        /\ r1.parent = r.parent /\ r1.token = r.token /\ r1.size = r.size
    BY <1>3, <1>4 DEF CallType, CallPc
  <1>7. PageKey(r1) = e.key
    BY <1>2, <1>6 DEF PageKey
  <1>8. CallOK(T, fetches, r1)
    BY <1>2, <1>6, <1>7 DEF CallOK, EntryOK
  <1>9. r.token < e.page.fetch
    <2>1. e.key.token = r.token BY <1>2, <1>3, KeyOfCall
    <2> QED BY <1>2, <2>1 DEF EntryOK, PageFits
  <1> QED BY <1>5, <1>6, <1>8, <1>9 DEF Served

(* A call that goes on without an answer yet. *)
LEMMA WaitingCall ==
  ASSUME NEW T, NEW n \in Nat, NEW r \in CallType, NEW r1 \in CallType, r.pc \in {"lookup", "await"},
         r.refresh => r.token = None, Fits(T, n, PageKey(r)),
         r1.pc \in {"await", "native"}, r1.offset = Place(T, r.token),
         r1.parent = r.parent, r1.token = r.token, r1.size = r.size, r1.refresh = r.refresh
  PROVE  CallOK(T, n, r1) /\ Served(n, r, r1)
  <1>1. PageKey(r1) = PageKey(r)
    BY DEF PageKey
  <1> QED BY <1>1 DEF CallOK, Served

(* A token that is honoured fits the call. *)
LEMMA HonouredToken ==
  ASSUME PagingType, NEW T \in [Tokens -> Places], PagingOK(T), NEW c \in Clients,
         req[c].token # None => Bindings(req[c]) # {}
  PROVE  /\ Fits(T, fetches, PageKey(req[c])) /\ Offset(req[c]) = Place(T, req[c].token)
         /\ Offset(req[c]) \in Nat
  <1> DEFINE r == req[c]
  <1>1. r \in CallType /\ PageKey(r).token = r.token /\ PageKey(r).parent = r.parent
        /\ PageKey(r).size = r.size
    BY KeyOfCall DEF PagingType
  <1>2. CASE r.token = None
    BY <1>1, <1>2 DEF Fits, Offset, Place
  <1>3. CASE r.token # None
    <2>1. PICK b \in Bindings(r) : b = CHOOSE x \in Bindings(r) : TRUE
      BY <1>3
    <2>2. /\ b \in Contents(bound) /\ b.token = r.token /\ b.size = r.size
          /\ b.parent = r.parent /\ b \in BindingType /\ BindingOK(T, fetches, b)
      BY <2>1, ContentsType DEF Bindings, PagingType, PagingOK
    <2>3. Offset(r) = b.offset /\ b.offset \in Nat
      BY <1>3, <2>1, <2>2 DEF Offset, BindingType
    <2>4. /\ r.token <= fetches /\ T[r.token].parent = r.parent /\ T[r.token].size = r.size
          /\ T[r.token].offset = b.offset
      BY <2>2 DEF BindingOK
    <2> QED BY <1>1, <1>3, <2>3, <2>4 DEF Fits, Place
  <1> QED BY <1>2, <1>3

(* The conclusion of the following lemmas. *)
StepOK(T, c) ==
  /\ PagingType' /\ fetches <= fetches'
  /\ \A d \in Clients : d # c => req'[d] = req[d]
  /\ \E U : Continues(T, U, fetches) /\ PagingOK(U)'

(* browse_existing before the operation lock. *)
LEMMA LookupOK ==
  ASSUME PagingType, NEW T \in [Tokens -> Places], PagingOK(T), NEW c \in Clients, Lookup(c)
  PROVE  StepOK(T, c) /\ Served(fetches, req[c], req'[c])
  <1> DEFINE r == req[c]
             keeps == /\ bound' \in Seq(BindingType) /\ Contents(bound') \subseteq Contents(bound)
                      /\ cached' \in Seq(EntryType) /\ Contents(cached') \subseteq Contents(cached)
             call(r1) == /\ r1 \in CallType /\ req' = [req EXCEPT ![c] = r1]
                         /\ CallOK(T, fetches, r1) /\ Served(fetches, r, r1)
  <1>1. /\ r \in CallType /\ r.pc = "lookup" /\ fetches \in Nat
        /\ CallOK(T, fetches, r) /\ Continues(T, T, fetches)
        /\ alive' = alive /\ nodes' = nodes /\ fetches' = fetches
    BY DEF Lookup, PagingType, PagingOK, Continues
  <1>2. keeps /\ \E r1 : call(r1)
    <2>1. CASE /\ ~alive \/ (r.token # None /\ Bindings(r) = {})
               /\ Fail(c) /\ UNCHANGED <<bound, cached>>
      <3>1. keeps BY <2>1 DEF PagingType, Contents
      <3>2. PICK r1 : r1 = [NoRequest EXCEPT !.pc = "error"] OBVIOUS
      <3>3. call(r1)
        BY <1>1, <2>1, <3>2, FreshCall DEF Fail, Served
      <3> QED BY <3>1, <3>3
    <2>2. CASE /\ alive /\ (r.token # None => Bindings(r) # {}) /\ r.refresh
               /\ InvalidateParent(r.parent)
               /\ req' = [req EXCEPT ![c].pc = "await"]
      <3>1. keeps BY <2>2, RetainContents DEF InvalidateParent, PagingType
      <3>2. Fits(T, fetches, PageKey(r)) /\ r.token = None /\ Place(T, r.token) = 0
        BY <1>1, <2>2, HonouredToken DEF CallOK, Place
      <3>3. PICK r1 : r1 = [r EXCEPT !.pc = "await"] OBVIOUS
      <3>4. /\ r1 \in CallType /\ r1.pc = "await" /\ r1.offset = r.offset /\ r1.token = r.token
            /\ r1.parent = r.parent /\ r1.size = r.size /\ r1.refresh = r.refresh
        BY <1>1, <3>3 DEF CallType, CallPc
      <3>5. req' = [req EXCEPT ![c] = r1]
        BY <2>2, <3>3 DEF PagingType
      <3>6. r1.offset = Place(T, r.token) /\ (r.refresh => r.token = None)
        BY <1>1, <3>2, <3>4 DEF CallOK
      <3>7. call(r1)
        BY <1>1, <3>2, <3>4, <3>5, <3>6, WaitingCall
      <3> QED BY <3>1, <3>7
    <2>3. CASE /\ alive /\ (r.token # None => Bindings(r) # {}) /\ ~r.refresh
               /\ IF Hits(r) # {} THEN Answer(c, (CHOOSE e \in Hits(r) : TRUE).page)
                  ELSE req' = [req EXCEPT ![c].pc = "await", ![c].offset = Offset(r)]
               /\ UNCHANGED <<bound, cached>>
      <3>1. keeps BY <2>3 DEF PagingType, Contents
      <3>2. CASE Hits(r) # {}
        BY <1>1, <2>3, <3>1, <3>2, CachedAnswer
      <3>3. CASE Hits(r) = {}
        <4>1. Fits(T, fetches, PageKey(r)) /\ Offset(r) = Place(T, r.token) /\ Offset(r) \in Nat
          BY <2>3, HonouredToken
        <4>2. PICK r1 : r1 = [r EXCEPT !.pc = "await", !.offset = Offset(r)] OBVIOUS
        <4>3. req' = [req EXCEPT ![c] = r1]
          BY <2>3, <3>3, <4>2 DEF PagingType
        <4>4. /\ r1 \in CallType /\ r1.pc = "await" /\ r1.offset = Offset(r)
              /\ r1.token = r.token /\ r1.parent = r.parent /\ r1.size = r.size
              /\ r1.refresh = r.refresh
          BY <1>1, <4>1, <4>2 DEF CallType, CallPc
        <4>5. call(r1)
          BY <1>1, <2>3, <4>1, <4>3, <4>4, WaitingCall
        <4> QED BY <3>1, <4>5
      <3> QED BY <3>2, <3>3
    <2> QED BY <2>1, <2>2, <2>3 DEF Lookup
  <1>3. PICK r1 : call(r1) BY <1>2
  <1>4. /\ PagingType' /\ PagingOK(T)' /\ req'[c] = r1
        /\ \A d \in Clients : d # c => req'[d] = req[d]
    <2>1. alive' \in BOOLEAN /\ nodes' \in Nat BY <1>1 DEF PagingType
    <2> QED BY <1>1, <1>2, <1>3, <2>1, PagingFrame
  <1> QED BY <1>1, <1>3, <1>4 DEF StepOK

(* browse_existing once the operation lock is won. *)
LEMMA RecheckOK ==
  ASSUME PagingType, NEW T \in [Tokens -> Places], PagingOK(T), NEW c \in Clients, Recheck(c)
  PROVE  StepOK(T, c) /\ Served(fetches, req[c], req'[c])
  <1> DEFINE r == req[c]
             call(r1) == /\ r1 \in CallType /\ req' = [req EXCEPT ![c] = r1]
                         /\ CallOK(T, fetches, r1) /\ Served(fetches, r, r1)
  <1>1. /\ r \in CallType /\ r.pc = "await" /\ fetches \in Nat
        /\ CallOK(T, fetches, r) /\ Continues(T, T, fetches)
        /\ alive' = alive /\ nodes' = nodes /\ fetches' = fetches
        /\ bound' = bound /\ cached' = cached
    BY DEF Recheck, PagingType, PagingOK, Continues
  <1>2. \E r1 : call(r1)
    <2>1. CASE ~alive /\ Fail(c)
      <3>1. PICK r1 : r1 = [NoRequest EXCEPT !.pc = "error"] OBVIOUS
      <3>2. call(r1)
        BY <1>1, <2>1, <3>1, FreshCall DEF Fail, Served
      <3> QED BY <3>2
    <2>2. CASE /\ ~r.refresh /\ Hits(r) # {}
               /\ Answer(c, (CHOOSE e \in Hits(r) : TRUE).page)
      BY <1>1, <2>2, CachedAnswer
    <2>3. CASE req' = [req EXCEPT ![c].pc = "native"]
      <3>1. PICK r1 : r1 = [r EXCEPT !.pc = "native"] OBVIOUS
      <3>2. /\ r1 \in CallType /\ r1.pc = "native" /\ r1.offset = r.offset /\ r1.token = r.token
            /\ r1.parent = r.parent /\ r1.size = r.size /\ r1.refresh = r.refresh
        BY <1>1, <3>1 DEF CallType, CallPc
      <3>3. req' = [req EXCEPT ![c] = r1]
        BY <2>3, <3>1 DEF PagingType
      <3>4. /\ r1.offset = Place(T, r.token) /\ (r.refresh => r.token = None)
            /\ Fits(T, fetches, PageKey(r))
        BY <1>1, <3>2 DEF CallOK
      <3>5. call(r1)
        BY <1>1, <3>2, <3>3, <3>4, WaitingCall
      <3> QED BY <3>5
    <2> QED BY <2>1, <2>2, <2>3 DEF Recheck
  <1>3. PICK r1 : call(r1) BY <1>2
  <1>4. /\ PagingType' /\ PagingOK(T)' /\ req'[c] = r1
        /\ \A d \in Clients : d # c => req'[d] = req[d]
    <2>1. /\ alive' \in BOOLEAN /\ nodes' \in Nat
          /\ bound' \in Seq(BindingType) /\ Contents(bound') \subseteq Contents(bound)
          /\ cached' \in Seq(EntryType) /\ Contents(cached') \subseteq Contents(cached)
      BY <1>1 DEF PagingType, Contents
    <2> QED BY <1>1, <1>3, <2>1, PagingFrame
  <1> QED BY <1>1, <1>3, <1>4 DEF StepOK

(* What the OPC server returns: the next children of the cursor. *)
LEMMA NativePage ==
  ASSUME NEW r \in CallType, fetches \in Nat, fetches < MaxFetches,
         r.offset <= Len(Listing[r.parent]), NEW page \in NativePages(r)
  PROVE  LET to == r.offset + Len(page.nodes) IN
         /\ page \in PageType /\ page.fetch = fetches + 1
         /\ page.nodes = SubSeq(Listing[r.parent], r.offset + 1, to)
         /\ to <= Len(Listing[r.parent]) /\ to \in Nat
         /\ page.next = None => to = Len(Listing[r.parent])
         /\ page.next # None => page.next = fetches + 1
  <1> DEFINE s == Listing[r.parent]
             rest == SubSeq(s, r.offset + 1, Len(s))
             m == Least(r.size, Len(rest))
             t == SubSeq(rest, 1, m)
  <1>1. s \in Seq(AllNodes) /\ Len(s) \in Nat /\ r.offset \in Nat /\ r.size \in Nat
    BY ListingType DEF CallType
  <1> HIDE DEF s
  <1>2. Len(rest) = Len(s) - r.offset
    BY <1>1, Slice DEF s
  <1>3. /\ m \in Nat /\ r.offset + m <= Len(s)
        /\ ~(Len(rest) > r.size) => r.offset + m = Len(s)
    BY <1>1, <1>2, SMTT(30) DEF Least, s
  <1>4. PICK next \in {fetches + 1} \cup (IF Len(rest) > r.size THEN {} ELSE {None}),
             complete \in BOOLEAN :
          page = [nodes |-> t, next |-> next, complete |-> complete, fetch |-> fetches + 1]
    <2>1. rest = Drop(Listing[r.parent], r.offset) BY DEF Drop, s
    <2> HIDE DEF rest
    <2> DEFINE nexts == {fetches + 1} \cup (IF Len(rest) > r.size THEN {} ELSE {None})
    <2>2. page \in {[nodes |-> t, next |-> next, complete |-> complete, fetch |-> fetches + 1] :
                      next \in nexts, complete \in BOOLEAN}
      BY <2>1 DEF NativePages
    <2> HIDE DEF t, nexts
    <2>3. \E next \in nexts, complete \in BOOLEAN :
            page = [nodes |-> t, next |-> next, complete |-> complete, fetch |-> fetches + 1]
      BY <2>2
    <2> QED BY <2>3 DEF nexts
  <1>5. t = SubSeq(s, r.offset + 1, r.offset + m) /\ t \in Seq(AllNodes) /\ Len(t) = m
    <2>1. /\ s \in Seq(AllNodes) /\ r.offset \in Nat /\ m \in Nat
          /\ r.offset + m <= Len(s)
      BY <1>1, <1>3
    <2>2. PICK o \in Nat, k \in Nat : o = r.offset /\ k = m
      BY <2>1
    <2>3. o + k <= Len(s)
      BY <2>1, <2>2
    <2>4. /\ SubSeq(SubSeq(s, o + 1, Len(s)), 1, k) = SubSeq(s, o + 1, o + k)
          /\ SubSeq(SubSeq(s, o + 1, Len(s)), 1, k) \in Seq(AllNodes)
          /\ Len(SubSeq(SubSeq(s, o + 1, Len(s)), 1, k)) = k
      <3> HIDE DEF m
      <3> QED BY <2>1, <2>3, SliceOfRest
    <2> QED BY <2>2, <2>4
  <1> HIDE DEF m, t, rest
  <1>6. /\ page.nodes = t /\ page.next = next /\ page.complete = complete
        /\ page.fetch = fetches + 1
    BY <1>4
  <1>7. fetches + 1 \in MaybeToken /\ None \in MaybeToken
    BY TokenType DEF None
  <1>8. page \in PageType
    BY <1>4, <1>5, <1>6, <1>7 DEF PageType
  <1>9. page.next = None => r.offset + m = Len(s)
    BY <1>1, <1>3, <1>4, <1>6 DEF None
  <1>10. page.next # None => page.next = fetches + 1
    BY <1>4, <1>6
  <1> DEFINE to == r.offset + Len(page.nodes)
  <1>11. to = r.offset + m BY <1>5, <1>6
  <1>12. page.nodes = SubSeq(s, r.offset + 1, to)
    BY <1>5, <1>6, <1>11
  <1>13. to <= Len(s) /\ to \in Nat /\ (page.next = None => to = Len(s))
    BY <1>1, <1>3, <1>9, <1>11
  <1> QED BY <1>6, <1>8, <1>10, <1>12, <1>13 DEF s

(* The native call: a fetch gives the next token its place. *)
LEMMA NativeBrowseOK ==
  ASSUME PagingType, NEW T \in [Tokens -> Places], PagingOK(T), NEW c \in Clients,
         NativeBrowse(c)
  PROVE  StepOK(T, c) /\ Served(fetches, req[c], req'[c])
  <1> DEFINE r == req[c]
  <1>1. /\ r \in CallType /\ r.pc = "native" /\ fetches \in Nat
        /\ CallOK(T, fetches, r) /\ Continues(T, T, fetches)
        /\ alive' = alive /\ nodes' = nodes /\ bound' = bound /\ cached' = cached
    BY DEF NativeBrowse, PagingType, PagingOK, Continues
  <1>2. CASE Fail(c) /\ fetches' = fetches
    <2>1. PICK r1 : r1 = [NoRequest EXCEPT !.pc = "error"] OBVIOUS
    <2>2. r1 \in CallType /\ req' = [req EXCEPT ![c] = r1] /\ CallOK(T, fetches, r1)
          /\ Served(fetches, r, r1)
      BY <1>1, <1>2, <2>1, FreshCall DEF Fail, Served
    <2>3. /\ alive' \in BOOLEAN /\ nodes' \in Nat
          /\ bound' \in Seq(BindingType) /\ Contents(bound') \subseteq Contents(bound)
          /\ cached' \in Seq(EntryType) /\ Contents(cached') \subseteq Contents(cached)
      BY <1>1 DEF PagingType, Contents
    <2>4. /\ PagingType' /\ PagingOK(T)' /\ req'[c] = r1
          /\ \A d \in Clients : d # c => req'[d] = req[d]
      BY <1>2, <2>2, <2>3, PagingFrame
    <2> QED BY <1>1, <1>2, <2>2, <2>4 DEF StepOK
  <1>3. ASSUME fetches < MaxFetches, fetches' = fetches + 1, NEW page \in NativePages(r),
               req' = [req EXCEPT ![c].pc = "store", ![c].page = page]
        PROVE  StepOK(T, c) /\ Served(fetches, r, req'[c])
    <2> DEFINE n == fetches + 1
               to == r.offset + Len(page.nodes)
    <2>1. /\ r.parent \in Parents /\ r.size \in Nat /\ r.offset \in Nat /\ r.token \in Nat
          /\ Len(Listing[r.parent]) \in Nat /\ n \in Tokens /\ n \in Nat
      BY <1>1, <1>3, ListingType, TokenType DEF CallType
    <2>2. r.offset = Place(T, r.token) /\ Fits(T, fetches, PageKey(r)) /\ r.token <= fetches
      BY <1>1, <2>1, KeyOfCall DEF CallOK, Fits, None
    <2>3. r.offset <= Len(Listing[r.parent])
      <3>1. CASE r.token = None BY <2>1, <2>2, <3>1 DEF Place
      <3>2. CASE r.token # None
        <4>1. r.token \in 1..fetches BY <1>1, <2>1, <2>2, <3>2 DEF None
        <4>2. T[r.token].parent = r.parent /\ T[r.token].offset = r.offset
          BY <1>1, <2>2, <3>2, KeyOfCall DEF Fits, Place
        <4> QED BY <4>1, <4>2 DEF PagingOK
      <3> QED BY <3>1, <3>2
    <2>4. /\ page \in PageType /\ page.fetch = n
          /\ page.nodes = SubSeq(Listing[r.parent], r.offset + 1, to)
          /\ to <= Len(Listing[r.parent]) /\ to \in Nat
          /\ page.next = None => to = Len(Listing[r.parent])
          /\ page.next # None => page.next = n
      BY <1>1, <1>3, <2>3, NativePage
    <2> HIDE DEF to
    <2>0. PICK U : U = [T EXCEPT ![n] = [parent |-> r.parent, size |-> r.size, offset |-> to]]
      OBVIOUS
    <2>5. /\ U \in [Tokens -> Places] /\ U[n] = [parent |-> r.parent, size |-> r.size, offset |-> to]
          /\ \A t \in Tokens : t # n => U[t] = T[t]
      BY <2>0, <2>1, <2>4 DEF Places
    <2>6. Continues(T, U, fetches)
      <3>1. \A t \in 1..fetches : t \in Tokens /\ t # n BY <1>1, <1>3, TokenType
      <3> QED BY <2>5, <3>1 DEF Continues
    <2>7. PICK r1 : r1 = [r EXCEPT !.pc = "store", !.page = page] OBVIOUS
    <2>8. req' = [req EXCEPT ![c] = r1]
      BY <1>3, <2>7 DEF PagingType
    <2>9. /\ r1 \in CallType /\ r1.pc = "store" /\ r1.page = page /\ r1.offset = r.offset
          /\ r1.token = r.token /\ r1.parent = r.parent /\ r1.size = r.size
          /\ r1.refresh = r.refresh /\ PageKey(r1) = PageKey(r)
      BY <1>1, <2>4, <2>7 DEF CallType, CallPc, PageKey
    <2>10. n \in Nat /\ fetches <= n /\ fetches' = n
      BY <1>1, <1>3
    <2> HIDE DEF n
    <2>11. Fits(U, n, PageKey(r)) /\ Place(U, r.token) = Place(T, r.token)
      BY <1>1, <2>2, <2>6, <2>10, KeyOfCall, FitsStays
    <2>12. PageFits(U, n, PageKey(r), page)
      <3>1. Place(U, PageKey(r).token) = r.offset /\ PageKey(r).parent = r.parent
            /\ PageKey(r).size = r.size /\ PageKey(r).token = r.token
        BY <1>1, <2>2, <2>11, KeyOfCall
      <3>2. page.fetch \in 1..n /\ r.token < page.fetch
        BY <1>1, <2>1, <2>2, <2>4, <2>10 DEF n
      <3> QED BY <2>4, <2>5, <3>1, <3>2 DEF PageFits, to
    <2>13. CallOK(U, n, r1)
      BY <1>1, <2>2, <2>9, <2>11, <2>12 DEF CallOK
    <2>14. PagingType' /\ req'[c] = r1 /\ \A d \in Clients : d # c => req'[d] = req[d]
      <3>1. n \in 0..MaxFetches BY <1>1, <1>3, TokenType DEF n
      <3> QED BY <1>1, <2>8, <2>9, <2>10, <3>1 DEF PagingType
    <2>15. PagingOK(U)'
      <3>1. \A t \in 1..n : U[t].offset <= Len(Listing[U[t].parent])
        <4> TAKE t \in 1..n
        <4>1. CASE t = n BY <2>1, <2>4, <2>5, <4>1
        <4>2. CASE t # n
          <5>1. t \in 1..fetches BY <1>1, <4>2 DEF n
          <5> QED BY <2>6, <5>1 DEF Continues, PagingOK
        <4> QED BY <4>1, <4>2
      <3>2. \A b \in Contents(bound) : BindingOK(U, n, b)
        BY <1>1, <2>6, <2>10, StoreStays, ContentsType DEF PagingOK, PagingType
      <3>3. \A e \in Contents(cached) : EntryOK(U, n, e)
        BY <1>1, <2>6, <2>10, StoreStays, ContentsType DEF PagingOK, PagingType
      <3>4. \A d \in Clients : CallOK(U, n, req'[d])
        <4> TAKE d \in Clients
        <4>1. CASE d = c BY <2>13, <2>14, <4>1
        <4>2. CASE d # c
          <5>1. req[d] \in CallType /\ CallOK(T, fetches, req[d]) /\ req'[d] = req[d]
            BY <2>14, <4>2 DEF PagingType, PagingOK
          <5>2. CallOK(U, n, req[d]) BY <1>1, <2>6, <2>10, <5>1, CallStays
          <5> QED BY <5>1, <5>2
        <4> QED BY <4>1, <4>2
      <3> QED BY <1>1, <2>10, <3>1, <3>2, <3>3, <3>4 DEF PagingOK, Contents
    <2>16. Served(fetches, r, r1)
      BY <1>1, <2>4, <2>9, <2>10 DEF Served, n
    <2> QED BY <2>6, <2>10, <2>14, <2>15, <2>16 DEF StepOK
  <1> QED BY <1>2, <1>3 DEF NativeBrowse

(* cache_page and bind_page keep what fits. *)
LEMMA KeptPages ==
  ASSUME PagingType, NEW T \in [Tokens -> Places], PagingOK(T),
         NEW r \in CallType, Fits(T, fetches, PageKey(r)), r.offset = Place(T, r.token),
         PageFits(T, fetches, PageKey(r), r.page), Consistent(r.page)
  PROVE  /\ CachePage(r, r.page) \in Seq(EntryType)
         /\ \A e \in Contents(CachePage(r, r.page)) : EntryOK(T, fetches, e)
         /\ BindPage(r, r.page) \in Seq(BindingType)
         /\ \A b \in Contents(BindPage(r, r.page)) : BindingOK(T, fetches, b)
  <1>1. /\ r.page \in PageType /\ PageKey(r) \in KeyType /\ r.token \in Nat /\ r.parent \in Parents
        /\ r.size \in Nat /\ r.offset \in Nat /\ r.page.next \in MaybeToken
        /\ r.page.nodes \in Seq(AllNodes) /\ fetches \in Nat
    BY KeyOfCall, TokenType DEF CallType, PageType, PagingType
  <1>2. /\ CachePage(r, r.page) \in Seq(EntryType)
        /\ \A e \in Contents(CachePage(r, r.page)) : EntryOK(T, fetches, e)
    <2> DEFINE old == Retain(cached, {e \in Contents(cached) : e.key # PageKey(r)})
               new == [key |-> PageKey(r), page |-> r.page]
    <2>1. old \in Seq(EntryType) /\ Contents(old) \subseteq Contents(cached)
      BY RetainContents DEF PagingType
    <2>2. new \in EntryType /\ EntryOK(T, fetches, new)
      BY <1>1 DEF EntryType, EntryOK
    <2> HIDE DEF old, new
    <2>3. Append(old, new) \in Seq(EntryType) /\ Contents(Append(old, new)) \subseteq Contents(old) \cup {new}
      BY <2>1, <2>2, ContentsAppend
    <2>4. /\ Newest(Append(old, new), MaxCached) \in Seq(EntryType)
          /\ Contents(Newest(Append(old, new), MaxCached)) \subseteq Contents(Append(old, new))
      BY <2>3, TokenType, NewestType
    <2>5. CachePage(r, r.page) = Newest(Append(old, new), MaxCached)
      BY DEF CachePage, old, new
    <2> QED BY <2>1, <2>2, <2>3, <2>4, <2>5 DEF PagingOK
  <1>3. CASE r.page.next = None
    BY <1>2, <1>3 DEF BindPage, PagingOK, PagingType
  <1>4. CASE r.page.next # None
    <2> DEFINE new == [token |-> r.page.next, parent |-> r.parent, size |-> r.size,
                       offset |-> r.offset + Len(r.page.nodes)]
    <2>1. new \in BindingType
      <3>1. r.page.next \in Tokens BY <1>1, <1>4 DEF MaybeToken
      <3>2. r.offset + Len(r.page.nodes) \in Nat BY <1>1
      <3> QED BY <1>1, <3>1, <3>2 DEF BindingType
    <2>2. BindingOK(T, fetches, new)
      <3>1. /\ r.page.next <= fetches
            /\ T[r.page.next] = [parent |-> r.parent, size |-> r.size,
                                 offset |-> r.offset + Len(r.page.nodes)]
        BY <1>4, KeyOfCall DEF PageFits
      <3> QED BY <3>1 DEF BindingOK
    <2>3. BindPage(r, r.page) = Newest(Append(bound, new), MaxBound)
      BY <1>4 DEF BindPage
    <2> HIDE DEF new
    <2>4. Append(bound, new) \in Seq(BindingType) /\ Contents(Append(bound, new)) \subseteq Contents(bound) \cup {new}
      BY <2>1, ContentsAppend DEF PagingType
    <2>5. /\ Newest(Append(bound, new), MaxBound) \in Seq(BindingType)
          /\ Contents(Newest(Append(bound, new), MaxBound)) \subseteq Contents(Append(bound, new))
      BY <2>4, TokenType, NewestType
    <2> QED BY <1>2, <2>2, <2>3, <2>4, <2>5 DEF PagingOK
  <1> QED BY <1>2, <1>3, <1>4

(* browse_existing after the native call. *)
LEMMA StoreOK ==
  ASSUME PagingType, NEW T \in [Tokens -> Places], PagingOK(T), NEW c \in Clients, Store(c)
  PROVE  StepOK(T, c) /\ Served(fetches, req[c], req'[c])
  <1> DEFINE r == req[c]
             kept == alive /\ Consistent(r.page) /\ nodes + Len(r.page.nodes) <= MaxNodes
  <1>1. /\ r \in CallType /\ r.pc = "store" /\ fetches \in Nat
        /\ CallOK(T, fetches, r) /\ Continues(T, T, fetches)
        /\ alive' = alive /\ fetches' = fetches
    BY DEF Store, PagingType, PagingOK, Continues
  <1>2. CASE ~kept /\ Fail(c) /\ UNCHANGED <<bound, cached, nodes>>
    <2>1. PICK r1 : r1 = [NoRequest EXCEPT !.pc = "error"] OBVIOUS
    <2>2. r1 \in CallType /\ req' = [req EXCEPT ![c] = r1] /\ CallOK(T, fetches, r1)
          /\ Served(fetches, r, r1)
      BY <1>1, <1>2, <2>1, FreshCall DEF Fail, Served
    <2>3. /\ alive' \in BOOLEAN /\ nodes' \in Nat
          /\ bound' \in Seq(BindingType) /\ Contents(bound') \subseteq Contents(bound)
          /\ cached' \in Seq(EntryType) /\ Contents(cached') \subseteq Contents(cached)
      BY <1>1, <1>2 DEF PagingType, Contents
    <2>4. /\ PagingType' /\ PagingOK(T)' /\ req'[c] = r1
          /\ \A d \in Clients : d # c => req'[d] = req[d]
      BY <1>1, <2>2, <2>3, PagingFrame
    <2> QED BY <1>1, <2>2, <2>4 DEF StepOK
  <1>3. CASE /\ kept /\ Answer(c, r.page) /\ nodes' = nodes + Len(r.page.nodes)
             /\ bound' = BindPage(r, r.page) /\ cached' = CachePage(r, r.page)
    <2>1. PICK r1 : r1 = [r EXCEPT !.pc = "page", !.page = r.page] OBVIOUS
    <2>2. /\ r1 \in CallType /\ r1.pc = "page" /\ r1.page = r.page /\ r1.token = r.token
          /\ r1.parent = r.parent /\ r1.size = r.size /\ r1.refresh = r.refresh
          /\ PageKey(r1) = PageKey(r)
      BY <1>1, <2>1 DEF CallType, CallPc, PageKey
    <2>3. req' = [req EXCEPT ![c] = r1]
      BY <1>3, <2>1 DEF Answer, PagingType
    <2>4. /\ Fits(T, fetches, PageKey(r)) /\ PageFits(T, fetches, PageKey(r), r.page)
          /\ r.offset = Place(T, r.token) /\ (r.refresh => r.token = None)
      BY <1>1 DEF CallOK
    <2>5. CallOK(T, fetches, r1) /\ Served(fetches, r, r1)
      BY <1>1, <1>3, <2>2, <2>4 DEF CallOK, Served
    <2>6. /\ cached' \in Seq(EntryType) /\ \A e \in Contents(cached') : EntryOK(T, fetches, e)
          /\ bound' \in Seq(BindingType) /\ \A b \in Contents(bound') : BindingOK(T, fetches, b)
      BY <1>1, <1>3, <2>4, KeptPages
    <2>7. nodes' \in Nat
      BY <1>1, <1>3 DEF PagingType, CallType, PageType
    <2>8. req' \in [Clients -> CallType] /\ req'[c] = r1 /\ \A d \in Clients : d # c => req'[d] = req[d]
      BY <2>2, <2>3 DEF PagingType
    <2>9. PagingType'
      BY <1>1, <2>6, <2>7, <2>8 DEF PagingType
    <2>10. PagingOK(T)'
      <3>1. \A d \in Clients : CallOK(T, fetches, req'[d])
        BY <2>5, <2>8 DEF PagingOK
      <3>2. \A t \in 1..fetches : T[t].offset <= Len(Listing[T[t].parent])
        BY DEF PagingOK
      <3> QED BY <1>1, <2>6, <3>1, <3>2 DEF PagingOK, Contents
    <2> QED BY <1>1, <2>5, <2>8, <2>9, <2>10 DEF StepOK
  <1> QED BY <1>2, <1>3 DEF Store

(* A step of browse_existing. *)
LEMMA GatewayStepOK ==
  ASSUME PagingType, NEW T \in [Tokens -> Places], PagingOK(T), NEW c \in Clients,
         GatewayStep(c)
  PROVE  StepOK(T, c) /\ Served(fetches, req[c], req'[c])
  BY LookupOK, RecheckOK, NativeBrowseOK, StoreOK DEF GatewayStep

(* The session goes away. *)
LEMMA VanishOK ==
  ASSUME PagingType, NEW T \in [Tokens -> Places], PagingOK(T),
         alive' \in BOOLEAN, bound' = <<>>, cached' = <<>>, nodes' = 0,
         UNCHANGED <<fetches, req>>
  PROVE  PagingType' /\ PagingOK(T)'
  <1>1. PagingType' BY DEF PagingType
  <1>2. Contents(<<>>) = {} BY DEF Contents
  <1>3. \A b \in Contents(bound') : BindingOK(T, fetches, b) BY <1>2
  <1>4. \A e \in Contents(cached') : EntryOK(T, fetches, e) BY <1>2
  <1>5. \A d \in Clients : CallOK(T, fetches, req'[d]) BY DEF PagingOK
  <1>6. \A t \in 1..fetches : T[t].offset <= Len(Listing[T[t].parent]) BY DEF PagingOK
  <1> QED BY <1>1, <1>3, <1>4, <1>5, <1>6 DEF PagingOK, Contents

(* Only a call changes: a client asks, or takes its answer. *)
LEMMA AskOK ==
  ASSUME PagingType, NEW T \in [Tokens -> Places], PagingOK(T), NEW c \in Clients,
         NEW r1 \in CallType, CallOK(T, fetches, r1), req' = [req EXCEPT ![c] = r1],
         UNCHANGED <<alive, bound, cached, nodes, fetches>>
  PROVE  /\ PagingType' /\ PagingOK(T)' /\ req'[c] = r1
         /\ \A d \in Clients : d # c => req'[d] = req[d]
  <1>1. /\ bound' \in Seq(BindingType) /\ Contents(bound') \subseteq Contents(bound)
        /\ cached' \in Seq(EntryType) /\ Contents(cached') \subseteq Contents(cached)
        /\ alive' \in BOOLEAN /\ nodes' \in Nat /\ fetches' = fetches
    BY DEF PagingType, Contents
  <1> QED BY <1>1, PagingFrame

(* The call that Ask begins. *)
Begun(T, n, c, parent, token, refresh) ==
  \E r1 \in CallType :
    /\ req' = [req EXCEPT ![c] = r1] /\ CallOK(T, n, r1) /\ r1.pc = "lookup"
    /\ r1.parent = parent /\ r1.token = token /\ r1.refresh = refresh

(* Ask begins a call that fits whatever the tokens stand for. *)
LEMMA AskedCall ==
  ASSUME NEW T, NEW n, NEW c \in Clients, NEW parent \in Parents, NEW token \in MaybeToken,
         NEW size \in Nat, NEW refresh \in BOOLEAN, refresh => token = None,
         Ask(c, parent, token, size, refresh)
  PROVE  Begun(T, n, c, parent, token, refresh)
  <1>1. NoRequest \in CallType /\ NoRequest.offset = 0
    BY NoRequestType DEF NoRequest
  <1>2. PICK r1 : r1 = [NoRequest EXCEPT !.pc = "lookup", !.parent = parent, !.token = token,
                          !.size = size, !.refresh = refresh]
    OBVIOUS
  <1>3. /\ r1 \in CallType /\ r1.pc = "lookup" /\ r1.offset = 0
        /\ r1.parent = parent /\ r1.token = token /\ r1.refresh = refresh
    BY <1>1, <1>2 DEF CallType, CallPc
  <1>4. req' = [req EXCEPT ![c] = r1]
    BY <1>2 DEF Ask
  <1> QED BY <1>3, <1>4 DEF CallOK, Begun

-----------------------------------------------------------------------------
(* The commands *)

CommandsOK(T) ==
  /\ cmd \in [Commands -> CommandType]
  /\ \A c \in Commands : CommandOK(T, fetches, cmd[c], req[c])

(* A step of the gateway for a command that waits for its page. *)
LEMMA CommandServed ==
  ASSUME NEW T, NEW U, NEW n \in Nat, NEW m \in Nat, n <= m, Continues(T, U, n),
         NEW k \in CommandType, NEW r \in CallType, NEW r1 \in CallType,
         CommandOK(T, n, k, r), CallOK(T, n, r), Served(n, r, r1)
  PROVE  CommandOK(U, m, k, r1)
  <1>1. /\ k.next \in Nat /\ k.since \in Nat /\ r.token \in Nat /\ r1.page.fetch \in Nat
        /\ k.refresh \in BOOLEAN /\ r.refresh \in BOOLEAN
    BY TokenType DEF CommandType, CallType, PageType
  <1>2. CommandOK(U, m, k, r)
    BY CommandStays
  <1>3. CASE k.pc # "asking" BY <1>2, <1>3 DEF CommandOK
  <1>4. CASE k.pc = "asking" /\ r1.pc = "error"
    BY <1>2, <1>4 DEF CommandOK, AskingOK
  <1>5. CASE k.pc = "asking" /\ r1.pc # "error"
    <2>1. /\ r1.pc # "none" /\ r1.parent = r.parent /\ r1.token = r.token
          /\ r1.refresh = r.refresh
      BY <1>5 DEF Served
    <2>2. r.pc \notin {"error", "none"}
      BY DEF Served
    <2>3. /\ r.parent = "root" /\ r.token = k.next /\ AskingOK(U, m, k, r) /\ k.since <= n
          /\ k.refresh /\ k.next = None => r.refresh
          /\ k.refresh /\ k.next # None => k.since < k.next
          /\ k.refresh /\ r.pc = "store" => k.since < r.page.fetch
      BY <1>2, <1>5, <2>2 DEF CommandOK, AskingOK
    <2>4. k.refresh /\ r1.pc \in {"store", "page"} => k.since < r1.page.fetch
      <3> HAVE k.refresh /\ r1.pc \in {"store", "page"}
      <3>1. CASE r.pc = "store" /\ r1.page = r.page BY <2>3, <3>1
      <3>2. CASE n < r1.page.fetch BY <1>1, <2>3, <3>2
      <3>3. CASE ~r.refresh /\ r.token < r1.page.fetch
        <4>1. k.next # None /\ k.since < k.next BY <2>3, <3>3
        <4> QED BY <1>1, <2>3, <3>3, <4>1
      <3> QED BY <3>1, <3>2, <3>3 DEF Served
    <2>5. AskingOK(U, m, k, r1)
      BY <2>1, <2>2, <2>3, <2>4 DEF AskingOK
    <2> QED BY <1>2, <2>5 DEF CommandOK
  <1> QED BY <1>3, <1>4, <1>5

(* The commands while the gateway serves one call. *)
LEMMA CommandsServed ==
  ASSUME PagingType, NEW T \in [Tokens -> Places], PagingOK(T), CommandsOK(T),
         NEW c \in Clients, GatewayStep(c), UNCHANGED cmd,
         NEW U, Continues(T, U, fetches)
  PROVE  CommandsOK(U)'
  <1>1. /\ PagingType' /\ fetches <= fetches' /\ Served(fetches, req[c], req'[c])
        /\ \A d \in Clients : d # c => req'[d] = req[d]
    BY GatewayStepOK DEF StepOK
  <1>2. fetches \in Nat /\ fetches' \in Nat
    BY <1>1 DEF PagingType
  <1>3. ASSUME NEW d \in Commands PROVE CommandOK(U, fetches', cmd[d], req'[d])
    <2>1. /\ cmd[d] \in CommandType /\ d \in Clients /\ req[d] \in CallType /\ req'[d] \in CallType
          /\ CommandOK(T, fetches, cmd[d], req[d]) /\ CallOK(T, fetches, req[d])
      BY <1>1, CommandAssumption DEF CommandsOK, PagingType, PagingOK
    <2>2. CASE d = c BY <1>1, <1>2, <2>1, <2>2, CommandServed
    <2>3. CASE d # c
      <3>1. req'[d] = req[d] BY <1>1, <2>1, <2>3
      <3>2. CommandOK(U, fetches', cmd[d], req[d]) BY <1>1, <1>2, <2>1, CommandStays
      <3> QED BY <3>1, <3>2
    <2> QED BY <2>2, <2>3
  <1> QED BY <1>3 DEF CommandsOK

(* Commands whose calls are left alone. *)
LEMMA CommandsFrame ==
  ASSUME NEW T, CommandsOK(T), UNCHANGED <<cmd, fetches>>,
         \A d \in Commands : req'[d] = req[d]
  PROVE  CommandsOK(T)'
  BY DEF CommandsOK

(* One command and its call change. *)
LEMMA CommandMoves ==
  ASSUME PagingType, NEW T \in [Tokens -> Places], PagingOK(T), CommandsOK(T),
         NEW c \in Commands, NEW k1 \in CommandType, cmd' = [cmd EXCEPT ![c] = k1],
         NEW r1 \in CallType, CallOK(T, fetches, r1), req' = [req EXCEPT ![c] = r1],
         CommandOK(T, fetches, k1, r1), UNCHANGED <<alive, bound, cached, nodes, fetches>>
  PROVE  /\ PagingType' /\ PagingOK(T)' /\ CommandsOK(T)'
         /\ \A d \in Clients : d # c => req'[d] = req[d]
  <1>0. c \in Clients /\ Commands \subseteq Clients BY CommandAssumption
  <1>1. /\ PagingType' /\ PagingOK(T)' /\ req'[c] = r1
        /\ \A d \in Clients : d # c => req'[d] = req[d]
    BY <1>0, AskOK
  <1>2. /\ cmd' \in [Commands -> CommandType] /\ cmd'[c] = k1
        /\ \A d \in Commands : d # c => cmd'[d] = cmd[d]
    BY DEF CommandsOK
  <1>3. \A d \in Commands : CommandOK(T, fetches, cmd'[d], req'[d])
    <2> TAKE d \in Commands
    <2>1. CASE d = c BY <1>1, <1>2, <2>1
    <2>2. CASE d # c
      <3>1. cmd'[d] = cmd[d] /\ req'[d] = req[d] BY <1>0, <1>1, <1>2, <2>2
      <3>2. CommandOK(T, fetches, cmd[d], req[d]) BY DEF CommandsOK
      <3> QED BY <3>1, <3>2
    <2> QED BY <2>1, <2>2
  <1> QED BY <1>1, <1>2, <1>3 DEF CommandsOK

(* The first rows of a listing, and all of them. *)
LEMMA FirstRows ==
  ASSUME NEW p \in Parents
  PROVE  /\ Listing[p] \in Seq(AllNodes) /\ Len(Listing[p]) \in Nat
         /\ SubSeq(Listing[p], 1, 0) = <<>>
         /\ SubSeq(Listing[p], 1, Len(Listing[p])) = Listing[p]
  <1> DEFINE s == Listing[p]
  <1>1. s \in Seq(AllNodes) /\ Len(s) \in Nat BY ListingType
  <1> HIDE DEF s
  <1>2. SubSeq(s, 0 + 1, 0) = <<>> BY <1>1, SliceEmpty
  <1>3. s = SubSeq(s, 0 + 1, 0 + Len(s))
    <2>1. \A i \in 1..Len(s) : s[i] = s[0 + i] BY <1>1
    <2>2. 0 + Len(s) <= Len(s) BY <1>1
    <2> QED BY <1>1, <2>1, <2>2, IsSlice
  <1>4. 0 + 1 = 1 /\ 0 + Len(s) = Len(s) BY <1>1
  <1> QED BY <1>1, <1>2, <1>3, <1>4 DEF s

(* A command that has not begun, and one that has failed. *)
LEMMA IdleOK ==
  ASSUME NEW T, NEW n, NEW r
  PROVE  /\ IdleCommand \in CommandType /\ Failed \in CommandType
         /\ CommandOK(T, n, IdleCommand, r) /\ CommandOK(T, n, Failed, r)
         /\ IdleCommand.pc = "idle"
  <1>1. /\ IdleCommand \in CommandType /\ IdleCommand.pc = "idle" /\ IdleCommand.rows = <<>>
        /\ IdleCommand.refresh = FALSE /\ IdleCommand.all = FALSE
    BY TokenType DEF IdleCommand, CommandType, None
  <1>2. PICK f : f = Failed OBVIOUS
  <1>3. /\ f \in CommandType /\ f.pc = "failed" /\ f.rows = <<>> /\ f.refresh = FALSE
        /\ f.all = FALSE
    BY <1>1, <1>2 DEF Failed, CommandType
  <1>4. Len(<<>>) = 0 /\ <<>> = SubSeq(Listing["root"], 1, 0) /\ Len(Listing["root"]) \in Nat
    BY ListingType, FirstRows
  <1>5. RowsOK(IdleCommand) BY <1>1, <1>4 DEF RowsOK
  <1>6. RowsOK(f) BY <1>3, <1>4 DEF RowsOK
  <1> QED BY <1>1, <1>2, <1>3, <1>5, <1>6 DEF CommandOK

(* cmd_browse up to its first request. *)
LEMMA BrowseBeginOK ==
  ASSUME PagingType, NEW T \in [Tokens -> Places], PagingOK(T), CommandsOK(T),
         NEW c \in Commands, BrowseBegin(c)
  PROVE  /\ PagingType' /\ PagingOK(T)' /\ CommandsOK(T)'
         /\ \A d \in Clients : d # c => req'[d] = req[d]
  <1>1. PICK all \in BOOLEAN, size \in Sizes, cap \in Caps, refresh \in BOOLEAN :
          LET k == [IdleCommand EXCEPT !.pc = "asking", !.all = all, !.size = size,
                      !.cap = IF all THEN cap ELSE @, !.refresh = refresh,
                      !.since = IF refresh THEN fetches ELSE 0]
          IN cmd' = [cmd EXCEPT ![c] = k] /\ Ask(c, "root", None, RequestSize(k), refresh)
    BY DEF BrowseBegin
  <1>2. PICK k : k = [IdleCommand EXCEPT !.pc = "asking", !.all = all, !.size = size,
                        !.cap = IF all THEN cap ELSE @, !.refresh = refresh,
                        !.since = IF refresh THEN fetches ELSE 0]
    OBVIOUS
  <1>3. cmd' = [cmd EXCEPT ![c] = k] /\ Ask(c, "root", None, RequestSize(k), refresh)
    BY <1>1, <1>2
  <1>4. /\ size \in Nat \ {0} /\ cap \in Nat \ {0} /\ fetches \in Nat /\ fetches \in MaybeToken
        /\ None \in MaybeToken
    <2>1. size \in Nat \ {0} BY PagingAssumption
    <2>2. cap \in Nat \ {0} BY CommandAssumption
    <2>3. fetches \in 0..MaxFetches /\ fetches \in Nat BY TokenType DEF PagingType
    <2> QED BY <2>1, <2>2, <2>3, TokenType DEF None
  <1>5. /\ k \in CommandType /\ k.pc = "asking" /\ k.rows = <<>> /\ k.next = None
        /\ k.refresh = refresh /\ k.oldest = MaxFetches /\ k.all = all /\ k.size = size
        /\ k.cap \in Nat \ {0} /\ k.since \in Nat /\ k.since <= fetches
    <2>1. /\ IdleCommand \in CommandType /\ IdleCommand.rows = <<>> /\ IdleCommand.next = None
          /\ IdleCommand.oldest = MaxFetches /\ IdleCommand.cap = 1
      BY TokenType DEF IdleCommand, CommandType, None
    <2>2. PICK w \in Nat \ {0} : w = IF all THEN cap ELSE 1
      BY <1>4
    <2>3. PICK b \in MaybeToken : b = IF refresh THEN fetches ELSE 0
      BY <1>4 DEF None
    <2>4. b \in Nat /\ b <= fetches BY <1>4, <2>3
    <2>5. k = [IdleCommand EXCEPT !.pc = "asking", !.all = all, !.size = size,
                 !.cap = w, !.refresh = refresh, !.since = b]
      BY <1>2, <2>1, <2>2, <2>3 DEF CommandType
    <2> QED BY <1>4, <2>1, <2>4, <2>5 DEF CommandType
  <1>6. RequestSize(k) \in Nat
    BY <1>4, <1>5 DEF RequestSize, Least
  <1>7. PICK r1 \in CallType :
          /\ req' = [req EXCEPT ![c] = r1] /\ CallOK(T, fetches, r1) /\ r1.pc = "lookup"
          /\ r1.parent = "root" /\ r1.token = None /\ r1.refresh = refresh
    <2>1. c \in Clients /\ "root" \in Parents /\ (refresh => None = None)
      BY ListingType, CommandAssumption
    <2>2. Begun(T, fetches, c, "root", None, refresh)
      BY <1>3, <1>4, <1>6, <2>1, AskedCall
    <2> QED BY <2>2 DEF Begun
  <1>9. RowsOK(k)
    <2>1. <<>> = SubSeq(Listing["root"], 1, 0) /\ Len(Listing["root"]) \in Nat /\ Len(<<>>) = 0
      BY ListingType, FirstRows
    <2> QED BY <1>5, <2>1 DEF RowsOK
  <1>10. AskingOK(T, fetches, k, r1)
    <2>1. Len(k.rows) = 0 BY <1>5
    <2> QED BY <1>5, <1>7, <2>1 DEF AskingOK
  <1>12. CommandOK(T, fetches, k, r1)
    BY <1>9, <1>10 DEF CommandOK
  <1>13. UNCHANGED <<alive, bound, cached, nodes, fetches>>
    BY DEF BrowseBegin
  <1> QED BY <1>3, <1>5, <1>7, <1>12, <1>13, CommandMoves

(* The call is taken back and the command fails. *)
LEMMA FailedOK ==
  ASSUME PagingType, NEW T \in [Tokens -> Places], PagingOK(T), CommandsOK(T),
         NEW c \in Commands, cmd' = [cmd EXCEPT ![c] = Failed], Take(c),
         UNCHANGED <<alive, bound, cached, nodes, fetches>>
  PROVE  /\ PagingType' /\ PagingOK(T)' /\ CommandsOK(T)'
         /\ \A d \in Clients : d # c => req'[d] = req[d]
  <1>1. NoRequest \in CallType /\ CallOK(T, fetches, NoRequest)
    BY FreshCall
  <1>2. Failed \in CommandType /\ CommandOK(T, fetches, Failed, NoRequest)
    BY IdleOK
  <1>3. req' = [req EXCEPT ![c] = NoRequest]
    BY DEF Take
  <1> QED BY <1>1, <1>2, <1>3, CommandMoves

(* The rows of a command that takes a page. *)
LEMMA ExtendOK ==
  ASSUME NEW T \in [Tokens -> Places], NEW n \in Nat, n <= MaxFetches,
         NEW k \in CommandType, NEW r \in CallType, CommandOK(T, n, k, r), CallOK(T, n, r),
         k.pc = "asking", r.pc = "page", Consistent(r.page), PageBound(k, r.page),
         NEW more, more = Extend(k, r.page)
  PROVE  /\ more \in CommandType /\ more.pc = "asking" /\ more.since <= n
         /\ more.rows = SubSeq(Listing["root"], 1, Len(more.rows))
         /\ Len(more.rows) <= Len(Listing["root"])
         /\ more.all => Len(more.rows) <= more.cap
         /\ more.complete => more.rows = Listing["root"]
         /\ more.refresh => more.since < more.oldest
         /\ ~more.complete =>
              /\ more.next # None /\ more.next <= n /\ (more.refresh => more.since < more.next)
              /\ T[more.next].parent = "root" /\ T[more.next].offset = Len(more.rows)
  <1> DEFINE s == Listing["root"]
             page == r.page
  <1>1. /\ k.rows \in Seq(AllNodes) /\ k.next \in Nat /\ k.since \in Nat /\ k.oldest \in Nat
        /\ k.refresh \in BOOLEAN /\ k.all \in BOOLEAN /\ k.cap \in Nat /\ k.size \in Nat
        /\ k.oldest \in MaybeToken
    BY TokenType DEF CommandType
  <1>2. /\ page \in PageType /\ page.nodes \in Seq(AllNodes) /\ page.fetch \in Nat
        /\ page.next \in MaybeToken /\ page.complete \in BOOLEAN /\ page.fetch \in MaybeToken
    BY TokenType DEF CallType, PageType
  <1>0. PICK a \in Nat, d \in Nat, b \in Nat :
          a = Len(k.rows) /\ d = Len(page.nodes) /\ b = a + d
    <2>1. Len(k.rows) \in Nat BY <1>1, LenProperties
    <2>2. Len(page.nodes) \in Nat BY <1>2, LenProperties
    <2> QED BY <2>1, <2>2
  <1>3. s \in Seq(AllNodes) /\ Len(s) \in Nat /\ a <= b /\ b = a + d
    <2>1. b = a + d BY <1>0
    <2>2. a <= b BY <2>1
    <2>3. s \in Seq(AllNodes) /\ Len(s) \in Nat BY ListingType
    <2> QED BY <2>1, <2>2, <2>3
  <1>4. /\ AskingOK(T, n, k, r) /\ RowsOK(k)
    BY DEF CommandOK
  <1>5. r.parent = "root" /\ r.token = k.next /\ PageKey(r).parent = "root" /\ PageKey(r).token = k.next
    BY <1>4, KeyOfCall DEF AskingOK
  <1>6. PageFits(T, n, PageKey(r), page)
    BY DEF CallOK
  <1>7. Place(T, k.next) = a
    <2>1. CASE k.next = None BY <1>0, <1>4, <2>1 DEF AskingOK, Place
    <2>2. CASE k.next # None BY <1>0, <1>4, <2>2 DEF AskingOK, Place
    <2> QED BY <2>1, <2>2
  <1>8. /\ page.nodes = SubSeq(s, a + 1, b) /\ b <= Len(s)
        /\ page.fetch \in 1..n
        /\ page.next = None => b = Len(s)
        /\ page.next # None =>
             /\ page.next = page.fetch
             /\ T[page.next].parent = "root" /\ T[page.next].offset = b
    <2>1. PICK key : key = PageKey(r) OBVIOUS
    <2>2. key.parent = "root" /\ Place(T, key.token) = a /\ PageFits(T, n, key, page)
      BY <1>5, <1>6, <1>7, <2>1
    <2>3. /\ page.nodes = SubSeq(s, a + 1, a + Len(page.nodes)) /\ a + Len(page.nodes) <= Len(s)
          /\ page.fetch \in 1..n
          /\ page.next = None => a + Len(page.nodes) = Len(s)
          /\ page.next # None =>
               /\ page.next = page.fetch
               /\ T[page.next] = [parent |-> "root", size |-> key.size,
                                  offset |-> a + Len(page.nodes)]
      BY <2>2, Zenon DEF PageFits
    <2>4. a + Len(page.nodes) = b BY <1>0
    <2> HIDE DEF page, s
    <2>5. /\ page.nodes = SubSeq(s, a + 1, b) /\ b <= Len(s)
          /\ page.fetch \in 1..n
          /\ page.next = None => b = Len(s)
          /\ page.next # None =>
               /\ page.next = page.fetch
               /\ T[page.next] = [parent |-> "root", size |-> key.size, offset |-> b]
      BY <2>3, <2>4, Zenon
    <2> QED BY <2>5
  <1>9. k.refresh => k.since < page.fetch
    BY <1>4 DEF AskingOK
  <1>10. k.rows = SubSeq(s, 1, a)
    BY <1>0, <1>4 DEF RowsOK
  <1> HIDE DEF s
  <1>11. k.rows \o page.nodes = SubSeq(s, 1, b) /\ Len(k.rows \o page.nodes) = b
         /\ k.rows \o page.nodes \in Seq(AllNodes)
    <2>1. SubSeq(s, 1, a) \o SubSeq(s, a + 1, b) = SubSeq(s, 1, b)
      BY <1>3, <1>8, SliceConcat
    <2>2. /\ Len(k.rows \o page.nodes) = b /\ k.rows \o page.nodes \in Seq(AllNodes)
      BY <1>0, <1>1, <1>2, ConcatProperties
    <2> QED BY <1>8, <1>10, <2>1, <2>2
  <1>12. PICK o : o = IF k.refresh THEN Least(k.oldest, page.fetch) ELSE k.oldest
    OBVIOUS
  <1>13. o \in MaybeToken
    BY <1>1, <1>2, <1>12 DEF Least
  <1>14. PICK u \in Seq(AllNodes) : u = k.rows \o page.nodes
    BY <1>11
  <1>15. more = [k EXCEPT !.rows = u, !.next = page.next, !.complete = page.complete, !.oldest = o]
    BY <1>12, <1>14 DEF Extend, CommandType
  <1>16. /\ more \in CommandType /\ more.pc = "asking" /\ more.rows = u /\ more.next = page.next
         /\ more.complete = page.complete /\ more.oldest = o /\ more.since = k.since
         /\ more.all = k.all /\ more.cap = k.cap /\ more.refresh = k.refresh
    BY <1>2, <1>13, <1>15 DEF CommandType
  <1>17. k.since <= n
    BY <1>4 DEF AskingOK
  <1>18. k.refresh => k.since < o
    <2> HAVE k.refresh
    <2>1. k.since < page.fetch BY <1>9
    <2>2. k.since < k.oldest \/ k.oldest = MaxFetches BY <1>4 DEF RowsOK
    <2>3. page.fetch <= MaxFetches BY <1>8, TokenType
    <2> QED BY <1>1, <1>2, <1>12, <2>1, <2>2, <2>3, TokenType DEF Least
  <1>19. k.all => b <= k.cap
    <2> HAVE k.all
    <2>1. a < k.cap BY <1>0, <1>4 DEF AskingOK
    <2>2. d <= Least(k.size, k.cap - a)
      BY <1>0 DEF PageBound, RequestSize
    <2>3. d <= k.cap - a
      BY <1>1, <2>1, <2>2 DEF Least
    <2>4. k.cap \in Nat BY <1>1
    <2> QED BY <1>3, <2>3, <2>4
  <1>20. page.complete <=> page.next = None
    BY DEF Consistent
  <1>21. page.complete => u = s
    <2> HAVE page.complete
    <2>1. b = Len(s) BY <1>8, <1>20
    <2>2. SubSeq(s, 1, Len(s)) = s BY FirstRows, ListingType DEF s
    <2> QED BY <1>11, <1>14, <2>1, <2>2
  <1>22. Len(u) = b /\ u = SubSeq(s, 1, b)
    BY <1>11, <1>14
  <1>23. ~page.complete =>
           /\ page.next # None /\ page.next <= n /\ (k.refresh => k.since < page.next)
           /\ T[page.next].parent = "root" /\ T[page.next].offset = b
    <2> HIDE DEF page
    <2> QED BY <1>8, <1>9, <1>20
  <1> HIDE DEF page
  <1> QED BY <1>8, <1>16, <1>17, <1>18, <1>19, <1>21, <1>22, <1>23 DEF s

(* cmd_browse when its page is there. *)
LEMMA BrowseAnswerOK ==
  ASSUME PagingType, NEW T \in [Tokens -> Places], PagingOK(T), CommandsOK(T),
         NEW c \in Commands, BrowseAnswer(c)
  PROVE  /\ PagingType' /\ PagingOK(T)' /\ CommandsOK(T)'
         /\ \A d \in Clients : d # c => req'[d] = req[d]
  <1> DEFINE k == cmd[c]
             r == req[c]
             page == r.page
  <1>1. /\ c \in Clients /\ k \in CommandType /\ r \in CallType /\ fetches \in Nat
        /\ fetches <= MaxFetches /\ CommandOK(T, fetches, k, r) /\ CallOK(T, fetches, r)
        /\ k.pc = "asking" /\ UNCHANGED <<alive, bound, cached, nodes, fetches>>
    BY CommandAssumption, TokenType DEF BrowseAnswer, PagingType, PagingOK, CommandsOK
  <1>2. CASE cmd' = [cmd EXCEPT ![c] = Failed] /\ Take(c)
    BY <1>1, <1>2, FailedOK
  <1>3. CASE r.pc = "page" /\ Consistent(page) /\ PageBound(k, page)
    <2>1. PICK more : more = Extend(k, page)
      OBVIOUS
    <2>2. /\ more \in CommandType /\ more.pc = "asking" /\ more.since <= fetches
          /\ more.rows = SubSeq(Listing["root"], 1, Len(more.rows))
          /\ Len(more.rows) <= Len(Listing["root"])
          /\ more.all => Len(more.rows) <= more.cap
          /\ more.complete => more.rows = Listing["root"]
          /\ more.refresh => more.since < more.oldest
          /\ ~more.complete =>
               /\ more.next # None /\ more.next <= fetches /\ (more.refresh => more.since < more.next)
               /\ T[more.next].parent = "root" /\ T[more.next].offset = Len(more.rows)
      BY <1>1, <1>3, <2>1, ExtendOK
    <2>3. CASE FetchMore(more) /\ cmd' = [cmd EXCEPT ![c] = more]
               /\ Ask(c, "root", more.next, RequestSize(more), FALSE)
      <3>1. more.all /\ ~more.complete /\ Len(more.rows) < more.cap
        BY <2>3 DEF FetchMore
      <3>2. /\ RequestSize(more) \in Nat /\ more.next \in MaybeToken /\ "root" \in Parents
            /\ FALSE \in BOOLEAN /\ (FALSE => more.next = None)
        BY <2>2, <3>1, ListingType DEF RequestSize, Least, CommandType
      <3>3. PICK r1 \in CallType :
              /\ req' = [req EXCEPT ![c] = r1] /\ CallOK(T, fetches, r1) /\ r1.pc = "lookup"
              /\ r1.parent = "root" /\ r1.token = more.next
        <4>1. PICK size \in Nat, token \in MaybeToken :
                size = RequestSize(more) /\ token = more.next
          BY <3>2
        <4>2. PICK no \in BOOLEAN : no = FALSE OBVIOUS
        <4>3. Ask(c, "root", token, size, no) BY <2>3, <4>1, <4>2
        <4>4. c \in Clients /\ "root" \in Parents /\ (no => token = None) BY <1>1, <3>2, <4>2
        <4>5. Begun(T, fetches, c, "root", token, no) BY <4>3, <4>4, AskedCall
        <4> QED BY <4>1, <4>5 DEF Begun
      <3>4. RowsOK(more) BY <2>2 DEF RowsOK
      <3>5. AskingOK(T, fetches, more, r1) BY <2>2, <3>1, <3>3 DEF AskingOK
      <3>6. CommandOK(T, fetches, more, r1) BY <3>4, <3>5 DEF CommandOK
      <3> QED BY <1>1, <2>2, <2>3, <3>3, <3>6, CommandMoves
    <2>4. CASE ~FetchMore(more) /\ cmd' = [cmd EXCEPT ![c] = [more EXCEPT !.pc = "printed"]] /\ Take(c)
      <3>1. PICK k1 : k1 = [more EXCEPT !.pc = "printed"] OBVIOUS
      <3>2. /\ k1 \in CommandType /\ k1.pc = "printed" /\ k1.rows = more.rows
            /\ k1.complete = more.complete /\ k1.all = more.all /\ k1.cap = more.cap
            /\ k1.refresh = more.refresh /\ k1.since = more.since /\ k1.oldest = more.oldest
        BY <2>2, <3>1 DEF CommandType
      <3>3. /\ more.all => more.complete \/ Len(more.rows) = more.cap
        <4>1. Len(more.rows) \in Nat /\ more.cap \in Nat BY <2>2 DEF CommandType
        <4> QED BY <2>2, <2>4, <4>1 DEF FetchMore
      <3>4. RowsOK(k1) BY <2>2, <3>2, <3>3 DEF RowsOK
      <3>5. CommandOK(T, fetches, k1, NoRequest) BY <3>2, <3>4 DEF CommandOK
      <3>6. cmd' = [cmd EXCEPT ![c] = k1] /\ req' = [req EXCEPT ![c] = NoRequest]
        BY <2>4, <3>1 DEF Take
      <3>7. NoRequest \in CallType /\ CallOK(T, fetches, NoRequest) BY FreshCall
      <3> QED BY <1>1, <3>2, <3>5, <3>6, <3>7, CommandMoves
    <2> QED BY <1>2, <2>1, <2>3, <2>4 DEF BrowseAnswer
  <1> QED BY <1>2, <1>3 DEF BrowseAnswer

(* A command is interrupted. *)
LEMMA InterruptOK ==
  ASSUME PagingType, NEW T \in [Tokens -> Places], PagingOK(T), CommandsOK(T),
         NEW c \in Commands, Interrupt(c)
  PROVE  /\ PagingType' /\ PagingOK(T)' /\ CommandsOK(T)'
         /\ \A d \in Clients : d # c => req'[d] = req[d]
  BY FailedOK DEF Interrupt

-----------------------------------------------------------------------------
(* The log of a search *)

(* The events. *)
LEMMA EventKinds ==
  /\ Progress \in Event /\ Progress.kind = "progress"
  /\ SearchError \in Event /\ SearchError.kind = "error"
  /\ \A n \in AllNodes : Match(n) \in Event /\ Match(n).kind = "match" /\ Match(n).node = n
  /\ \A a, b \in BOOLEAN :
       /\ Completed(a, b) \in Event /\ Completed(a, b).kind = "completed"
       /\ Completed(a, b).complete = a /\ Completed(a, b).truncated = b
  /\ \A e \in Event : e.kind = "error" => e = SearchError
  <1>1. Progress \in Event /\ Progress.kind = "progress" BY DEF Event, Progress
  <1>2. SearchError \in Event /\ SearchError.kind = "error" BY DEF Event, SearchError
  <1>3. \A n \in AllNodes : Match(n) \in Event /\ Match(n).kind = "match" /\ Match(n).node = n
    <2> TAKE n \in AllNodes
    <2>1. Match(n) \in Event BY DEF Event
    <2>2. Match(n).kind = "match" /\ Match(n).node = n BY DEF Match
    <2> QED BY <2>1, <2>2
  <1>4. \A a, b \in BOOLEAN :
          /\ Completed(a, b) \in Event /\ Completed(a, b).kind = "completed"
          /\ Completed(a, b).complete = a /\ Completed(a, b).truncated = b
    <2> TAKE a, b \in BOOLEAN
    <2>1. Completed(a, b) \in Event BY DEF Event
    <2>2. /\ Completed(a, b).kind = "completed"
          /\ Completed(a, b).complete = a /\ Completed(a, b).truncated = b
      BY DEF Completed
    <2> QED BY <2>1, <2>2
  <1>5. \A e \in Event : e.kind = "error" => e = SearchError
    <2> SUFFICES ASSUME NEW e \in Event, e.kind = "error", e # SearchError PROVE FALSE
      OBVIOUS
    <2>1. CASE e = Progress BY <1>1, <2>1
    <2>2. CASE \E n \in AllNodes : e = Match(n) BY <1>3, <2>2
    <2>3. CASE \E a, b \in BOOLEAN : e = Completed(a, b) BY <1>4, <2>3
    <2> QED BY <2>1, <2>2, <2>3 DEF Event
  <1> QED BY <1>1, <1>2, <1>3, <1>4, <1>5

(* One event more. *)
LEMMA LogAppend ==
  ASSUME NEW L \in Seq(Event), NEW e \in Event, NEW L1, L1 = Append(L, e)
  PROVE  /\ L1 \in Seq(Event) /\ Len(L) \in Nat /\ Len(L1) = Len(L) + 1 /\ L1[Len(L) + 1] = e
         /\ \A i \in 1..Len(L) : L1[i] = L[i]
         /\ DOMAIN L1 = 1..(Len(L) + 1) /\ DOMAIN L = 1..Len(L) /\ L1 # <<>>
  <1>1. L1 \in Seq(Event) /\ Len(L) \in Nat /\ Len(L1) = Len(L) + 1
    OBVIOUS
  <1>2. L1[Len(L) + 1] = e /\ \A i \in 1..Len(L) : L1[i] = L[i]
    OBVIOUS
  <1>3. DOMAIN L1 = 1..(Len(L) + 1) /\ DOMAIN L = 1..Len(L)
    BY <1>1, LenProperties
  <1> QED BY <1>1, <1>2, <1>3

(* The matches of a log are finitely many. *)
LEMMA MatchesFinite ==
  ASSUME NEW L \in Seq(Event)
  PROVE  /\ IsFiniteSet(MatchesIn(L)) /\ Cardinality(MatchesIn(L)) \in Nat
         /\ MatchesIn(L) \subseteq 1..Len(L)
  <1>1. Len(L) \in Nat /\ DOMAIN L = 1..Len(L)
    BY LenProperties
  <1>2. MatchesIn(L) \subseteq 1..Len(L)
    BY <1>1 DEF MatchesIn
  <1>3. IsFiniteSet(1..Len(L))
    BY <1>1, FS_Interval
  <1>4. IsFiniteSet(MatchesIn(L))
    BY <1>2, <1>3, FS_Subset
  <1> QED BY <1>2, <1>4, FS_CardinalityType

(* An event that is not a match. *)
LEMMA LogOther ==
  ASSUME NEW q, NEW L \in Seq(Event), NEW e \in Event, e.kind # "match",
         NEW L1, L1 = Append(L, e)
  PROVE  /\ MatchesIn(L1) = MatchesIn(L) /\ Items(L1) = Items(L)
         /\ Truthful(q, L) => Truthful(q, L1)
  <1>1. /\ Len(L) \in Nat /\ L1[Len(L) + 1] = e /\ \A i \in 1..Len(L) : L1[i] = L[i]
        /\ DOMAIN L1 = 1..(Len(L) + 1) /\ DOMAIN L = 1..Len(L)
    BY LogAppend
  <1>2. MatchesIn(L1) = MatchesIn(L)
    BY <1>1 DEF MatchesIn
  <1>3. \A i \in MatchesIn(L) : L1[i] = L[i]
    BY <1>1, MatchesFinite
  <1>4. \A i \in MatchesIn(L) : Item(L1, i) = Item(L, i)
    BY <1>3 DEF Item
  <1>5. Items(L1) = Items(L)
    BY <1>2, <1>4 DEF Items
  <1>6. Truthful(q, L) => Truthful(q, L1)
    <2> HAVE Truthful(q, L)
    <2>1. \A i \in MatchesIn(L1) : L1[i].node \in AllNodes /\ Asked(q, L1[i].node)
      BY <1>2, <1>3 DEF Truthful
    <2>2. \A i, j \in MatchesIn(L1) :
            Item(L1, i) = Item(L1, j) /\ i # j => Item(L1, i) = NoItem
      BY <1>2, <1>4 DEF Truthful
    <2> QED BY <2>1, <2>2 DEF Truthful
  <1> QED BY <1>2, <1>5, <1>6

(* The log L1 reports n after what L reports. *)
Reported(q, L, n, L1) ==
  /\ L1 \in Seq(Event) /\ Truthful(q, L1) /\ Items(L1) = Items(L) \cup {ItemOf[n]}
  /\ Cardinality(MatchesIn(L1)) = Cardinality(MatchesIn(L)) + 1

(* A match. *)
LEMMA LogMatch ==
  ASSUME NEW q, NEW L \in Seq(Event), NEW n \in AllNodes, Truthful(q, L), Asked(q, n),
         ItemOf[n] = NoItem \/ ItemOf[n] \notin Items(L),
         NEW L1, L1 = Append(L, Match(n))
  PROVE  Reported(q, L, n, L1)
  <1>1. Match(n) \in Event /\ Match(n).kind = "match" /\ Match(n).node = n
    BY EventKinds
  <1>2. PICK m : m = Len(L) + 1
    OBVIOUS
  <1>3. /\ L1 \in Seq(Event) /\ m \in Nat /\ L1[m] = Match(n) /\ \A i \in 1..Len(L) : L1[i] = L[i]
        /\ DOMAIN L1 = 1..m /\ DOMAIN L = 1..Len(L) /\ Len(L) \in Nat
    BY <1>1, <1>2, LogAppend
  <1>4. m \notin MatchesIn(L)
    BY <1>2, <1>3, MatchesFinite
  <1>5. MatchesIn(L1) = MatchesIn(L) \cup {m}
    BY <1>1, <1>2, <1>3 DEF MatchesIn
  <1>6. \A i \in MatchesIn(L) : L1[i] = L[i] /\ i # m
    BY <1>3, <1>4, MatchesFinite
  <1>7. (\A i \in MatchesIn(L) : Item(L1, i) = Item(L, i)) /\ Item(L1, m) = ItemOf[n]
    BY <1>1, <1>3, <1>6 DEF Item
  <1>8. Items(L1) = Items(L) \cup {ItemOf[n]}
    BY <1>5, <1>7 DEF Items
  <1>9. Cardinality(MatchesIn(L1)) = Cardinality(MatchesIn(L)) + 1
    BY <1>4, <1>5, MatchesFinite, FS_AddElement
  <1>10. \A i \in MatchesIn(L1) : L1[i].node \in AllNodes /\ Asked(q, L1[i].node)
    BY <1>1, <1>3, <1>5, <1>6 DEF Truthful
  <1>11. ASSUME NEW i \in MatchesIn(L1), NEW j \in MatchesIn(L1), Item(L1, i) = Item(L1, j), i # j
         PROVE  Item(L1, i) = NoItem
    <2>1. CASE i \in MatchesIn(L) /\ j \in MatchesIn(L)
      BY <1>7, <1>11, <2>1 DEF Truthful
    <2>2. CASE i = m /\ j \in MatchesIn(L)
      BY <1>7, <1>11, <2>2 DEF Items
    <2>3. CASE j = m /\ i \in MatchesIn(L)
      BY <1>7, <1>11, <2>3 DEF Items
    <2> QED BY <1>5, <1>11, <2>1, <2>2, <2>3
  <1>12. Truthful(q, L1)
    BY <1>10, <1>11 DEF Truthful
  <1> QED BY <1>3, <1>8, <1>9, <1>12 DEF Reported

(* More is known of a listing than before. *)
LEMMA SeenStays ==
  ASSUME NEW s, NEW s1, s1.request = s.request, NEW L, NEW L1, Items(L) \subseteq Items(L1),
         NEW D, NEW D1, D \cup Pending(s) \subseteq D1 \cup Pending(s1)
  PROVE  \A p, m : Seen(s, L, D, p, m) => Seen(s1, L1, D1, p, m)
  BY DEF Seen

(* Nothing is read or sent while the task puts new events in its outbox. *)
LEMMA DeliveredMore ==
  ASSUME NEW L \in Seq(Event), NEW L1 \in Seq(Event), NEW out \in Seq(Event),
         NEW read, NEW sent, Delivered(L, read, sent, <<>>),
         Len(L1) = Len(L) + Len(out)
  PROVE  (\A i \in 1..Len(L) : L1[i] = L[i]) /\ (\A i \in 1..Len(out) : L1[Len(L) + i] = out[i])
           => Delivered(L1, read, sent, out)
  <1>0. PICK m \in Nat : m = Len(L)
    BY LenProperties
  <1>1. PICK i \in 0..m, j \in 0..m :
          /\ i <= j /\ read = SubSeq(L, 1, i) /\ sent = SubSeq(L, i + 1, j)
          /\ <<>> = SubSeq(L, j + 1, m)
    BY <1>0, Zenon DEF Delivered
  <1>2. j = m
    <2>1. j \in Nat /\ j <= m /\ m <= Len(L) BY <1>0
    <2>2. SubSeq(L, j + 1, m) = <<>> <=> j = m BY <2>1, SliceEmpty, SMTT(30)
    <2> QED BY <1>1, <2>2
  <1>3. Len(out) \in Nat /\ Len(L1) \in Nat /\ Len(L1) = m + Len(out)
    BY <1>0, LenProperties
  <1>9. ASSUME NEW a \in Nat, NEW b \in Nat, a <= b, b <= m
        PROVE  \E t \in Seq(Event) : /\ t = SubSeq(L, a + 1, b) /\ Len(t) = b - a
                                      /\ \A x \in 1..(b - a) : t[x] = L[a + x]
    <2>1. b <= Len(L) BY <1>0, <1>9
    <2>2. /\ SubSeq(L, a + 1, b) \in Seq(Event) /\ Len(SubSeq(L, a + 1, b)) = b - a
          /\ \A x \in 1..(b - a) : SubSeq(L, a + 1, b)[x] = L[a + x]
      BY <1>9, <2>1, Slice
    <2> QED BY <2>2, Zenon
  <1> HAVE (\A x \in 1..Len(L) : L1[x] = L[x]) /\ (\A x \in 1..Len(out) : L1[Len(L) + x] = out[x])
  <1>4. ASSUME NEW a \in Nat, NEW b \in Nat, a <= b, b <= m
        PROVE  SubSeq(L1, a + 1, b) = SubSeq(L, a + 1, b)
    <2>1. PICK t \in Seq(Event) : /\ t = SubSeq(L, a + 1, b) /\ Len(t) = b - a
                                  /\ \A x \in 1..(b - a) : t[x] = L[a + x]
      BY <1>4, <1>9
    <2>2. \A x \in 1..Len(t) : t[x] = L1[a + x]
      <3> TAKE x \in 1..Len(t)
      <3>1. x \in 1..(b - a) /\ a + x \in 1..Len(L) BY <1>0, <1>4, <2>1
      <3> QED BY <2>1, <3>1
    <2>3. a + Len(t) = b /\ a + Len(t) <= Len(L1) BY <1>3, <1>4, <2>1
    <2>4. t = SubSeq(L1, a + 1, a + Len(t)) BY <2>2, <2>3, IsSlice
    <2> QED BY <2>1, <2>3, <2>4
  <1>5. read = SubSeq(L1, 1, i)
    <2>1. SubSeq(L1, 0 + 1, i) = SubSeq(L, 0 + 1, i) 
      <3>1. 0 \in Nat /\ i \in Nat /\ 0 <= i /\ i <= m OBVIOUS
      <3> QED BY <1>4, <3>1
    <2> QED BY <1>1, <2>1
  <1>6. sent = SubSeq(L1, i + 1, j)
    <2>1. i \in Nat /\ j \in Nat /\ i <= j /\ j <= m BY <1>1
    <2> QED BY <1>1, <1>4, <2>1
  <1>7. out = SubSeq(L1, j + 1, Len(L1))
    <2>1. \A x \in 1..Len(out) : out[x] = L1[m + x] BY <1>0
    <2>2. m + Len(out) <= Len(L1) BY <1>3
    <2>3. out = SubSeq(L1, m + 1, m + Len(out)) BY <2>1, <2>2, IsSlice
    <2> QED BY <1>2, <1>3, <2>3
  <1>8. i \in 0..Len(L1) /\ j \in 0..Len(L1)
    BY <1>1, <1>3
  <1> QED BY <1>1, <1>5, <1>6, <1>7, <1>8 DEF Delivered

(* A slice and the element behind it. *)
LEMMA SliceSnoc ==
  ASSUME NEW X, NEW s \in Seq(X), NEW a \in Nat, NEW b \in Nat, a <= b, b + 1 <= Len(s)
  PROVE  Append(SubSeq(s, a + 1, b), s[b + 1]) = SubSeq(s, a + 1, b + 1)
  <1> DEFINE t == SubSeq(s, a + 1, b)
             e == s[b + 1]
             u == Append(t, e)
  <1>1. t \in Seq(X) /\ Len(t) = b - a /\ \A i \in 1..(b - a) : t[i] = s[a + i]
    BY Slice
  <1>2. e \in X BY ElementOfSeq
  <1> HIDE DEF t, e
  <1>3. u \in Seq(X) /\ Len(u) = (b + 1) - a
    BY <1>1, <1>2
  <1>4. \A i \in 1..Len(u) : u[i] = s[a + i]
    <2> TAKE i \in 1..Len(u)
    <2>1. CASE i <= b - a BY <1>1, <1>2, <1>3, <2>1
    <2>2. CASE ~(i <= b - a)
      <3>1. i = Len(t) + 1 /\ a + i = b + 1 BY <1>1, <1>3, <2>2
      <3> QED BY <1>1, <1>2, <3>1 DEF e
    <2> QED BY <2>1, <2>2
  <1>5. a + Len(u) = b + 1 BY <1>3
  <1> HIDE DEF u
  <1>6. u = SubSeq(s, a + 1, a + Len(u)) BY <1>3, <1>4, <1>5, IsSlice
  <1> QED BY <1>5, <1>6 DEF t, e, u

(* The log is read up to i and sent up to j. *)
Parts(L, read, sent, out, i, j, m) ==
  /\ m = Len(L) /\ i <= j /\ j <= m
  /\ read = SubSeq(L, 1, i) /\ sent = SubSeq(L, i + 1, j) /\ out = SubSeq(L, j + 1, m)

(* Where a log is divided. *)
LEMMA Division ==
  ASSUME NEW L \in Seq(Event), NEW read, NEW sent, NEW out, Delivered(L, read, sent, out)
  PROVE  \E i \in Nat, j \in Nat, m \in Nat : Parts(L, read, sent, out, i, j, m)
  <1>0. PICK m \in Nat : m = Len(L)
    BY LenProperties
  <1>1. PICK i \in 0..m, j \in 0..m :
          /\ i <= j /\ read = SubSeq(L, 1, i) /\ sent = SubSeq(L, i + 1, j)
          /\ out = SubSeq(L, j + 1, m)
    BY <1>0, Zenon DEF Delivered
  <1>2. i \in Nat /\ j \in Nat /\ j <= m
    OBVIOUS
  <1> QED BY <1>0, <1>1, <1>2, Zenon DEF Parts

(* The task sends an event. *)
LEMMA DeliveredSend ==
  ASSUME NEW L \in Seq(Event), NEW read, NEW sent, NEW out,
         Delivered(L, read, sent, out), out # <<>>
  PROVE  Delivered(L, read, Append(sent, Head(out)), Tail(out))
  <1>0. PICK i \in Nat, j \in Nat, m \in Nat : Parts(L, read, sent, out, i, j, m)
    BY Division
  <1>1. /\ m = Len(L) /\ i <= j /\ j <= m
        /\ read = SubSeq(L, 1, i) /\ sent = SubSeq(L, i + 1, j) /\ out = SubSeq(L, j + 1, m)
    BY <1>0 DEF Parts
  <1>2. m <= Len(L) /\ i <= j /\ j <= m BY <1>1
  <1>3. SubSeq(L, j + 1, m) = <<>> <=> j = m BY <1>2, SliceEmpty
  <1>4. j < m /\ j + 1 <= Len(L) BY <1>1, <1>3
  <1>5. Head(SubSeq(L, j + 1, m)) = L[j + 1] /\ Tail(SubSeq(L, j + 1, m)) = SubSeq(L, (j + 1) + 1, m)
    BY <1>2, <1>4, SliceHead
  <1>6. Append(SubSeq(L, i + 1, j), L[j + 1]) = SubSeq(L, i + 1, j + 1)
    BY <1>2, <1>4, SliceSnoc
  <1>7. i \in 0..m /\ j + 1 \in 0..m /\ i <= j + 1 BY <1>2, <1>4
  <1>8. /\ Append(sent, Head(out)) = SubSeq(L, i + 1, j + 1)
        /\ Tail(out) = SubSeq(L, (j + 1) + 1, m) /\ read = SubSeq(L, 1, i)
    BY <1>1, <1>5, <1>6, Zenon
  <1> DEFINE k == j + 1
             sent1 == Append(sent, Head(out))
             out1 == Tail(out)
  <1>9. /\ i \in 0..Len(L) /\ k \in 0..Len(L) /\ i <= k /\ read = SubSeq(L, 1, i)
        /\ sent1 = SubSeq(L, i + 1, k) /\ out1 = SubSeq(L, k + 1, Len(L))
    BY <1>1, <1>7, <1>8, Zenon
  <1> HIDE DEF k, sent1, out1
  <1>10. Delivered(L, read, sent1, out1) BY <1>9 DEF Delivered
  <1> QED BY <1>10 DEF sent1, out1

(* Its client reads one. *)
LEMMA DeliveredRead ==
  ASSUME NEW L \in Seq(Event), NEW read, NEW sent, NEW out,
         Delivered(L, read, sent, out), sent # <<>>
  PROVE  Delivered(L, Append(read, Head(sent)), Tail(sent), out)
  <1>0. PICK i \in Nat, j \in Nat, m \in Nat : Parts(L, read, sent, out, i, j, m)
    BY Division
  <1>1. /\ m = Len(L) /\ i <= j /\ j <= m
        /\ read = SubSeq(L, 1, i) /\ sent = SubSeq(L, i + 1, j) /\ out = SubSeq(L, j + 1, m)
    BY <1>0 DEF Parts
  <1>2. m <= Len(L) /\ i <= j /\ j <= m /\ j <= Len(L) BY <1>1
  <1>3. SubSeq(L, i + 1, j) = <<>> <=> i = j BY <1>2, SliceEmpty
  <1>4. i < j /\ i + 1 <= Len(L) BY <1>1, <1>2, <1>3
  <1>5. Head(SubSeq(L, i + 1, j)) = L[i + 1] /\ Tail(SubSeq(L, i + 1, j)) = SubSeq(L, (i + 1) + 1, j)
    BY <1>2, <1>4, SliceHead
  <1>6. Append(SubSeq(L, 1, i), L[i + 1]) = SubSeq(L, 1, i + 1)
    <2>1. 0 \in Nat /\ 0 <= i /\ 0 + 1 = 1 OBVIOUS
    <2>2. Append(SubSeq(L, 0 + 1, i), L[i + 1]) = SubSeq(L, 0 + 1, i + 1)
      BY <1>4, <2>1, SliceSnoc
    <2> QED BY <2>1, <2>2
  <1>7. i + 1 \in 0..m /\ j \in 0..m /\ i + 1 <= j BY <1>2, <1>4
  <1>8. /\ Append(read, Head(sent)) = SubSeq(L, 1, i + 1)
        /\ Tail(sent) = SubSeq(L, (i + 1) + 1, j) /\ out = SubSeq(L, j + 1, m)
    BY <1>1, <1>5, <1>6, Zenon
  <1> DEFINE k == i + 1
             read1 == Append(read, Head(sent))
             sent1 == Tail(sent)
  <1>9. /\ k \in 0..Len(L) /\ j \in 0..Len(L) /\ k <= j /\ read1 = SubSeq(L, 1, k)
        /\ sent1 = SubSeq(L, k + 1, j) /\ out = SubSeq(L, j + 1, Len(L))
    BY <1>1, <1>7, <1>8, Zenon
  <1> HIDE DEF k, read1, sent1
  <1>10. Delivered(L, read1, sent1, out) BY <1>9 DEF Delivered
  <1> QED BY <1>10 DEF read1, sent1

(* What was read is the beginning of the log, and all of it in the end. *)
LEMMA DeliveredPrefix ==
  ASSUME NEW L \in Seq(Event), NEW read \in Seq(Event), NEW sent, NEW out,
         Delivered(L, read, sent, out)
  PROVE  /\ MatchesIn(read) \subseteq MatchesIn(L)
         /\ Cardinality(MatchesIn(read)) <= Cardinality(MatchesIn(L))
         /\ sent = <<>> /\ out = <<>> => read = L
  <1>0. PICK i \in Nat, j \in Nat, m \in Nat : Parts(L, read, sent, out, i, j, m)
    BY Division
  <1>1. /\ m = Len(L) /\ i <= j /\ j <= m
        /\ read = SubSeq(L, 1, i) /\ sent = SubSeq(L, i + 1, j) /\ out = SubSeq(L, j + 1, m)
    BY <1>0 DEF Parts
  <1>2. m <= Len(L) /\ i <= j /\ j <= m /\ j <= Len(L) /\ i <= Len(L) /\ i <= m BY <1>1
  <1>3. Len(read) = i /\ \A x \in 1..i : read[x] = L[x]
    <2>1. 0 \in Nat /\ 0 <= i /\ 0 + 1 = 1 /\ i - 0 = i OBVIOUS
    <2>2. /\ Len(SubSeq(L, 0 + 1, i)) = i - 0
          /\ \A x \in 1..(i - 0) : SubSeq(L, 0 + 1, i)[x] = L[0 + x]
      BY <1>2, <2>1, Slice
    <2>3. \A x \in 1..i : 0 + x = x OBVIOUS
    <2> QED BY <1>1, <2>1, <2>2, <2>3
  <1>4. DOMAIN read = 1..i /\ DOMAIN L = 1..m BY <1>1, <1>3, LenProperties
  <1>5. MatchesIn(read) \subseteq MatchesIn(L)
    BY <1>2, <1>3, <1>4 DEF MatchesIn
  <1>6. Cardinality(MatchesIn(read)) <= Cardinality(MatchesIn(L))
    BY <1>5, MatchesFinite, FS_Subset
  <1>7. sent = <<>> /\ out = <<>> => read = L
    <2> HAVE sent = <<>> /\ out = <<>>
    <2>1. SubSeq(L, j + 1, m) = <<>> <=> j = m BY <1>2, SliceEmpty
    <2>2. SubSeq(L, i + 1, j) = <<>> <=> i = j BY <1>2, SliceEmpty
    <2>3. i = m /\ i = Len(L) BY <1>1, <2>1, <2>2
    <2>4. \A x \in 1..Len(read) : read[x] = L[x] BY <1>3
    <2> QED BY <1>3, <2>3, <2>4, SeqEqual
  <1> QED BY <1>5, <1>6, <1>7

-----------------------------------------------------------------------------
(* The search *)

(* What a search record holds. *)
LEMMA SearchFields ==
  ASSUME NEW s \in SearchType
  PROVE  /\ s.pc \in Walking \cup {"stop", "close", "closed"} /\ s.scopes \in Seq(ScopeType)
         /\ s.parent \in Parents /\ s.todo \in Seq(AllNodes) /\ s.next \in MaybeToken
         /\ s.next \in Nat /\ s.matches \in Nat /\ s.visited \in Nat /\ s.outbox \in Seq(Event)
         /\ s.request \in Searches /\ s.request.results \in Nat /\ s.request.branches \in BOOLEAN
  <1>1. s.next \in MaybeToken /\ s.request \in Searches BY DEF SearchType
  <1>2. s.next \in Nat BY <1>1, TokenType
  <1>3. s.request.results \in Nat /\ s.request.branches \in BOOLEAN BY <1>1, SearchAssumption
  <1> QED BY <1>1, <1>2, <1>3 DEF SearchType

(* The places a search holds do not move. *)
LEMMA PlaceStays ==
  ASSUME NEW T, NEW U, NEW n \in Nat, NEW m \in Nat, n <= m, Continues(T, U, n),
         NEW s \in SearchType, NEW L, NEW D, PlaceOK(T, n, s, L, D)
  PROVE  PlaceOK(U, m, s, L, D)
  <1>1. s.next \in Nat BY SearchFields
  <1>2. CASE s.pc = "scope" BY <1>2 DEF PlaceOK
  <1>3. CASE s.pc # "scope"
    <2>1. s.next # None => U[s.next] = T[s.next] /\ s.next <= m
      BY <1>1, <1>3 DEF PlaceOK, Continues, None
    <2>2. PageEnd(U, s) = PageEnd(T, s) /\ Place(U, s.next) = Place(T, s.next)
      BY <2>1 DEF PageEnd, Place
    <2>3. Reached(U, s) = Reached(T, s)
      BY <2>2 DEF Reached
    <2> QED BY <1>3, <2>1, <2>2, <2>3 DEF PlaceOK
  <1> QED BY <1>2, <1>3

(* The task while the gateway works for it or for others. *)
LEMMA TaskServed ==
  ASSUME NEW T, NEW U, NEW n \in Nat, NEW m \in Nat, n <= m, Continues(T, U, n),
         NEW s \in SearchType, NEW r, NEW r1, Served(n, r, r1) \/ r1 = r,
         NEW L, NEW D, NEW gone, TaskOK(T, n, s, r, L, D, gone)
  PROVE  TaskOK(U, m, s, r1, L, D, gone)
  <1>1. s.pc \in Walking => PlaceOK(U, m, s, L, D)
    BY PlaceStays DEF TaskOK
  <1>2. s.pc \in Walking => PageAsked(s, r1)
    BY DEF TaskOK, PageAsked, Served
  <1> QED BY <1>1, <1>2 DEF TaskOK

(* The task takes a step and nothing is read. *)
LEMMA TaskMove ==
  ASSUME SearchTypes, NEW T, NEW L, NEW D, SearchOK(T, L, D), search.pc # "closed",
         NEW s1 \in SearchType, search' = s1, UNCHANGED <<channel, reader, fetches>>,
         NEW L1 \in Seq(Event), NEW D1 \in SUBSET Parents,
         TaskOK(T, fetches, s1, req'[Searcher], L1, D1, Gone),
         ~Gone => Delivered(L1, reader.events, channel, s1.outbox)
  PROVE  SearchTypes' /\ SearchOK(T, L1, D1)'
  <1>1. SearchTypes' BY DEF SearchTypes
  <1>2. Gone' <=> Gone BY DEF Gone
  <1>3. reader.state # "ok" BY DEF SearchOK
  <1>4. TaskOK(T, fetches, search, req[Searcher], L1, D1, Gone)'
    BY <1>2 DEF TaskOK
  <1> QED BY <1>1, <1>2, <1>3, <1>4 DEF SearchOK

(* The task is at s1, its log is L1, and it is about to send out. *)
Onward(T, n, s1, r1, L1, D1, gone, out) ==
  s1 \in SearchType /\ TaskOK(T, n, s1, r1, L1, D1, gone) /\ s1.outbox = out

(* process_scope takes the next scope. *)
Begins(s, s1) ==
  s1 = [s EXCEPT !.pc = "page", !.scopes = Tail(s.scopes), !.parent = Head(s.scopes).parent]

(* The first page of the next scope is asked for. *)
LEMMA ScopeBegins ==
  ASSUME NEW T, NEW n, NEW s \in SearchType, NEW L, NEW D \in SUBSET Parents, NEW gone,
         NEW r, TaskOK(T, n, s, r, L, D, gone),
         s.pc = "scope", s.outbox = <<>>, s.scopes # <<>>,
         NEW s1, Begins(s, s1), NEW r1, r1.pc = "lookup", r1.parent = s1.parent, r1.token = None
  PROVE  Onward(T, n, s1, r1, L, D, gone, <<>>)
  <1>1. s.scopes \in Seq(ScopeType) BY SearchFields
  <1>2. Head(s.scopes) \in ScopeType /\ Tail(s.scopes) \in Seq(ScopeType)
    BY <1>1
  <1>3. Head(s.scopes).parent \in Parents BY <1>2 DEF ScopeType
  <1>4. /\ s1 \in SearchType /\ s1.pc = "page" /\ s1.scopes = Tail(s.scopes)
        /\ s1.parent = Head(s.scopes).parent /\ s1.todo = s.todo /\ s1.next = s.next
        /\ s1.matched = s.matched /\ s1.matches = s.matches /\ s1.outbox = s.outbox
        /\ s1.request = s.request
    BY <1>2, <1>3 DEF SearchType, Walking, Begins
  <1>5. LogOK(s, L) /\ WalkOK(s, L, D) /\ PlaceOK(T, n, s, L, D)
    BY DEF TaskOK, Walking
  <1>6. Contents(s.scopes) \subseteq {Head(s.scopes)} \cup Contents(Tail(s.scopes))
    <2>1. Len(s.scopes) \in Nat /\ Len(s.scopes) > 0 /\ DOMAIN s.scopes = 1..Len(s.scopes)
      BY <1>1, LenProperties, EmptySeq
    <2>2. /\ Head(s.scopes) = s.scopes[1]
          /\ DOMAIN Tail(s.scopes) = 1..(Len(s.scopes) - 1)
          /\ \A i \in 1..(Len(s.scopes) - 1) : Tail(s.scopes)[i] = s.scopes[i + 1]
      BY <1>1, <2>1, HeadTailProperties, LenProperties
    <2>3. ASSUME NEW i \in 1..Len(s.scopes), i # 1
          PROVE  s.scopes[i] \in Contents(Tail(s.scopes))
      <3>1. i - 1 \in 1..(Len(s.scopes) - 1) /\ (i - 1) + 1 = i BY <2>1, <2>3
      <3>2. Tail(s.scopes)[i - 1] = s.scopes[i] BY <2>2, <3>1
      <3> QED BY <2>2, <3>1, <3>2 DEF Contents
    <2> QED BY <2>1, <2>2, <2>3 DEF Contents
  <1>7. Pending(s) \subseteq Pending(s1)
    BY <1>4, <1>6 DEF Pending
  <1>8. \A p, m : Seen(s, L, D, p, m) => Seen(s1, L, D, p, m)
    BY <1>4, <1>7, SeenStays
  <1>9. LogOK(s1, L) BY <1>4, <1>5 DEF LogOK
  <1>10. WalkOK(s1, L, D) BY <1>5, <1>7, <1>8 DEF WalkOK
  <1>11. PlaceOK(T, n, s1, L, D)
    <2>1. s1.next = None BY <1>4, <1>5 DEF PlaceOK
    <2>2. Reached(T, s1) = 0 BY <1>4, <2>1 DEF Reached, Place
    <2>3. Seen(s1, L, D, s1.parent, 0) BY DEF Seen
    <2> QED BY <1>4, <2>1, <2>2, <2>3 DEF PlaceOK
  <1>12. PageAsked(s1, r1)
    <2>1. s1.next = None BY <1>4, <1>5 DEF PlaceOK
    <2> QED BY <1>4, <2>1 DEF PageAsked
  <1> QED BY <1>4, <1>9, <1>10, <1>11, <1>12 DEF TaskOK, Walking, Onward

(* One new event in the outbox. *)
LEMMA DeliveredOne ==
  ASSUME NEW L \in Seq(Event), NEW e \in Event, NEW read, NEW sent,
         Delivered(L, read, sent, <<>>)
  PROVE  Delivered(Append(L, e), read, sent, <<e>>)
  <1>1. PICK L1 : L1 = Append(L, e) OBVIOUS
  <1>2. /\ L1 \in Seq(Event) /\ Len(L) \in Nat /\ Len(L1) = Len(L) + 1 /\ L1[Len(L) + 1] = e
        /\ \A i \in 1..Len(L) : L1[i] = L[i]
    BY <1>1, LogAppend
  <1>3. <<e>> \in Seq(Event) /\ Len(<<e>>) = 1 /\ <<e>>[1] = e OBVIOUS
  <1>4. PICK out \in Seq(Event) : out = <<e>> /\ Len(out) = 1 /\ out[1] = e BY <1>3
  <1>5. \A i \in 1..Len(out) : i = 1 BY <1>4
  <1>6. \A i \in 1..Len(out) : L1[Len(L) + i] = out[i] BY <1>2, <1>4, <1>5
  <1>7. Len(L1) = Len(L) + Len(out) BY <1>2, <1>4
  <1>8. Delivered(L1, read, sent, out) BY <1>2, <1>6, <1>7, DeliveredMore
  <1> QED BY <1>1, <1>4, <1>8

(* Two new events. *)
LEMMA DeliveredTwo ==
  ASSUME NEW L \in Seq(Event), NEW e \in Event, NEW f \in Event, NEW read, NEW sent,
         Delivered(L, read, sent, <<>>)
  PROVE  Delivered(Append(Append(L, e), f), read, sent, <<e>> \o <<f>>)
  <1>1. PICK L1 : L1 = Append(L, e) OBVIOUS
  <1>2. PICK L2 : L2 = Append(L1, f) OBVIOUS
  <1>3. /\ L1 \in Seq(Event) /\ Len(L) \in Nat /\ Len(L1) = Len(L) + 1 /\ L1[Len(L) + 1] = e
        /\ \A i \in 1..Len(L) : L1[i] = L[i]
    BY <1>1, LogAppend
  <1>4. /\ L2 \in Seq(Event) /\ Len(L2) = Len(L1) + 1 /\ L2[Len(L1) + 1] = f
        /\ \A i \in 1..Len(L1) : L2[i] = L1[i]
    BY <1>2, <1>3, LogAppend
  <1>5. PICK out \in Seq(Event) : out = <<e>> \o <<f>> /\ Len(out) = 2 /\ out[1] = e /\ out[2] = f
    <2>1. /\ <<e>> \in Seq(Event) /\ Len(<<e>>) = 1 /\ <<e>>[1] = e
          /\ <<f>> \in Seq(Event) /\ Len(<<f>>) = 1 /\ <<f>>[1] = f
      OBVIOUS
    <2>2. PICK a \in Seq(Event), b \in Seq(Event) :
            /\ a = <<e>> /\ Len(a) = 1 /\ a[1] = e
            /\ b = <<f>> /\ Len(b) = 1 /\ b[1] = f
      BY <2>1, Zenon
    <2>3. /\ a \o b \in Seq(Event) /\ Len(a \o b) = Len(a) + Len(b)
          /\ \A i \in 1..Len(a) + Len(b) : (a \o b)[i] = IF i <= Len(a) THEN a[i] ELSE b[i - Len(a)]
      BY ConcatProperties
    <2>4. Len(a \o b) = 2 /\ (a \o b)[1] = e /\ (a \o b)[2] = f
      BY <2>2, <2>3
    <2> QED BY <2>2, <2>3, <2>4, Zenon
  <1>6. \A i \in 1..Len(out) : i = 1 \/ i = 2 BY <1>5
  <1>7. L2[Len(L) + 1] = e /\ L2[Len(L) + 2] = f
    BY <1>3, <1>4
  <1>8. \A i \in 1..Len(out) : L2[Len(L) + i] = out[i] BY <1>5, <1>6, <1>7
  <1>9. \A i \in 1..Len(L) : L2[i] = L[i] BY <1>3, <1>4
  <1>10. Len(L2) = Len(L) + Len(out) BY <1>3, <1>4, <1>5
  <1>11. Delivered(L2, read, sent, out) BY <1>4, <1>8, <1>9, <1>10, DeliveredMore
  <1> QED BY <1>1, <1>2, <1>5, <1>11

(* A verdict. *)
LEMMA SettledBy ==
  ASSUME NEW q, NEW L \in Seq(Event), \A i \in DOMAIN L : L[i].kind \in {"progress", "match"},
         Cardinality(MatchesIn(L)) <= q.results,
         NEW e \in Event, e.kind \in {"completed", "error"},
         e.kind = "completed" =>
           /\ e.complete => Truthful(q, L) /\ Whole(q, L)
           /\ e.truncated <=> ~e.complete
  PROVE  Append(L, e) \in Seq(Event) /\ Settled(q, Append(L, e))
  <1>1. PICK L1 : L1 = Append(L, e) OBVIOUS
  <1>2. /\ L1 \in Seq(Event) /\ Len(L) \in Nat /\ Len(L1) = Len(L) + 1 /\ L1[Len(L) + 1] = e
        /\ \A i \in 1..Len(L) : L1[i] = L[i]
        /\ DOMAIN L = 1..Len(L) /\ L1 # <<>>
    BY <1>1, LogAppend
  <1>3. e.kind # "match" OBVIOUS
  <1>4. MatchesIn(L1) = MatchesIn(L) /\ Items(L1) = Items(L) /\ (Truthful(q, L) => Truthful(q, L1))
    BY <1>1, <1>3, LogOther
  <1>5. Whole(q, L) => Whole(q, L1) BY <1>4 DEF Whole
  <1>6. L1[Len(L1)] = e /\ Len(L1) - 1 = Len(L) BY <1>2
  <1>7. \A i \in 1..(Len(L1) - 1) : L1[i].kind \in {"progress", "match"} BY <1>2, <1>6
  <1>8. Cardinality(MatchesIn(L1)) <= q.results BY <1>4
  <1>9. Settled(q, L1)
    BY <1>2, <1>4, <1>5, <1>6, <1>7, <1>8 DEF Settled
  <1> QED BY <1>1, <1>2, <1>9

(* The search starts. *)
LEMMA NewSearchType ==
  ASSUME NEW q \in Searches
  PROVE  /\ NewSearch(q) \in SearchType /\ NewSearch(q).request = q
         /\ NewSearch(q).outbox = <<Progress>> /\ NewSearch(q).pc = "scope"
         /\ NewSearch(q).scopes = <<[parent |-> "root", refresh |-> q.refresh]>>
         /\ NewSearch(q).next = None /\ NewSearch(q).matched = {} /\ NewSearch(q).matches = 0
  <1>1. PICK scopes \in Seq(ScopeType) : scopes = <<[parent |-> "root", refresh |-> q.refresh]>>
    <2>1. q.refresh \in BOOLEAN /\ "root" \in Parents BY SearchAssumption, ListingType
    <2>2. [parent |-> "root", refresh |-> q.refresh] \in ScopeType BY <2>1 DEF ScopeType
    <2>3. PICK e \in ScopeType : e = [parent |-> "root", refresh |-> q.refresh] BY <2>2
    <2>4. <<e>> \in Seq(ScopeType) OBVIOUS
    <2> QED BY <2>3, <2>4, Zenon
  <1>2. PICK outbox \in Seq(Event) : outbox = <<[kind |-> "progress"]>> /\ outbox = <<Progress>>
    <2>1. [kind |-> "progress"] \in Event /\ [kind |-> "progress"] = Progress
      BY EventKinds DEF Progress
    <2>2. PICK e \in Event : e = [kind |-> "progress"] /\ e = Progress BY <2>1
    <2>3. <<e>> \in Seq(Event) OBVIOUS
    <2> QED BY <2>2, <2>3, Zenon
  <1>3. NewSearch(q) = [pc |-> "scope", scopes |-> scopes, parent |-> "root", todo |-> <<>>,
                        next |-> None, matched |-> {}, matches |-> 0, visited |-> 0,
                        outbox |-> outbox, request |-> q]
    BY <1>1, <1>2 DEF NewSearch
  <1>4. "root" \in Parents /\ None \in MaybeToken BY ListingType DEF MaybeToken
  <1>5. "scope" \in Walking \cup {"stop", "close", "closed"} BY DEF Walking
  <1> QED BY <1>1, <1>2, <1>3, <1>4, <1>5 DEF SearchType

(* The search stops. *)
LEMMA OverTask ==
  ASSUME NEW s \in SearchType, NEW pc \in {"stop", "close"}, NEW out \in Seq(Event),
         pc = "close" => out = <<>>, NEW s1, s1 = Over(s, pc, out),
         NEW T, NEW n, NEW r, NEW L, NEW D, NEW gone, gone \/ Settled(s.request, L)
  PROVE  Onward(T, n, s1, r, L, D, gone, out)
  <1>1. s.request \in Searches BY SearchFields
  <1>2. PICK z : z = NewSearch(s.request) OBVIOUS
  <1>3. z \in SearchType /\ z.request = s.request
    BY <1>1, <1>2, NewSearchType
  <1>4. s1 = [z EXCEPT !.pc = pc, !.scopes = <<>>, !.outbox = out]
    BY <1>2 DEF Over
  <1>5. s1 \in SearchType /\ s1.pc = pc /\ s1.outbox = out /\ s1.request = s.request
    <2>0. <<>> \in Seq(ScopeType) BY EmptySeq
    <2>1. PICK none \in Seq(ScopeType) : none = <<>> BY <2>0, Zenon
    <2>2. s1 = [z EXCEPT !.pc = pc, !.scopes = none, !.outbox = out] BY <1>4, <2>1
    <2>3. pc \in Walking \cup {"stop", "close", "closed"} OBVIOUS
    <2> QED BY <1>3, <2>2, <2>3 DEF SearchType
  <1>6. TaskOK(T, n, s1, r, L, D, gone)
    <2>1. s1.pc \notin Walking BY <1>5 DEF Walking
    <2> QED BY <1>5, <2>1, Zenon DEF TaskOK
  <1> QED BY <1>5, <1>6 DEF Onward

(* A search that has walked every scope has seen the namespace. *)
LEMMA WalkedAll ==
  ASSUME NEW s \in SearchType, NEW L \in Seq(Event), NEW D \in SUBSET Parents,
         LogOK(s, L), WalkOK(s, L, D), s.pc = "scope", s.scopes = <<>>
  PROVE  Whole(s.request, L)
  <1>1. Pending(s) = {} BY DEF Pending, Contents
  <1>2. "root" \in D BY <1>1 DEF WalkOK
  <1>3. \A p \in D : \A x \in 1..Len(Listing[p]) :
          /\ Asked(s.request, Listing[p][x]) => ItemOf[Listing[p][x]] \in Items(L)
          /\ Listing[p][x] \in Parents => Listing[p][x] \in D
    BY <1>1 DEF WalkOK, Seen
  <1>4. \A p \in Parents : DOMAIN Listing[p] = 1..Len(Listing[p])
    BY ListingType, LenProperties
  <1>5. \A p \in D : Contents(Listing[p]) \cap Parents \subseteq D
    BY <1>3, <1>4 DEF Contents
  <1>6. D = Parents
    BY <1>2, <1>5, NamespaceAssumption
  <1>7. \A n \in AllNodes : Asked(s.request, n) => ItemOf[n] \in Items(L)
    <2> TAKE n \in AllNodes
    <2>1. PICK p \in Parents : n \in Contents(Listing[p]) BY DEF AllNodes
    <2>2. PICK x \in 1..Len(Listing[p]) : n = Listing[p][x] BY <1>4, <2>1 DEF Contents
    <2> QED BY <1>3, <1>6, <2>2
  <1>8. \A i \in MatchesIn(L) : Item(L, i) = ItemOf[L[i].node] /\ L[i].node \in AllNodes
                                /\ Asked(s.request, L[i].node)
    BY DEF LogOK, Truthful, Item
  <1>9. Items(L) \subseteq {ItemOf[n] : n \in {m \in AllNodes : Asked(s.request, m)}}
    BY <1>8 DEF Items
  <1> QED BY <1>7, <1>9 DEF Whole

(* The page that was asked for has come. *)
LEMMA PageTaken ==
  ASSUME NEW T \in [Tokens -> Places], NEW n \in Nat, NEW s \in SearchType, NEW L,
         NEW D \in SUBSET Parents, NEW gone, NEW r \in CallType, CallOK(T, n, r),
         TaskOK(T, n, s, r, L, D, gone), s.pc = "page", r.pc = "page",
         NEW s1, s1 = [s EXCEPT !.pc = "nodes", !.todo = r.page.nodes, !.next = r.page.next],
         NEW r1
  PROVE  Onward(T, n, s1, r1, L, D, gone, s.outbox)
  <1>1. r.page \in PageType /\ r.page.nodes \in Seq(AllNodes) /\ r.page.next \in MaybeToken
        /\ r.page.fetch \in Nat /\ r.token \in Nat
    BY TokenType DEF CallType, PageType
  <1>2. /\ s1 \in SearchType /\ s1.pc = "nodes" /\ s1.scopes = s.scopes
        /\ s1.parent = s.parent /\ s1.todo = r.page.nodes /\ s1.next = r.page.next
        /\ s1.matched = s.matched /\ s1.matches = s.matches /\ s1.outbox = s.outbox
        /\ s1.request = s.request
    BY <1>1 DEF SearchType, Walking
  <1>3. /\ LogOK(s, L) /\ WalkOK(s, L, D) /\ PlaceOK(T, n, s, L, D) /\ PageAsked(s, r)
    BY DEF TaskOK, Walking
  <1>4. r.parent = s.parent /\ r.token = s.next
    BY <1>3 DEF PageAsked
  <1>5. PageFits(T, n, PageKey(r), r.page)
    BY DEF CallOK
  <1>6. PICK a : a = Place(T, s.next)
    OBVIOUS
  <1>7. Reached(T, s) = a
    BY <1>6 DEF Reached
  <1>8. /\ r.page.nodes = SubSeq(Listing[s.parent], a + 1, a + Len(r.page.nodes))
        /\ a + Len(r.page.nodes) <= Len(Listing[s.parent])
        /\ r.page.fetch \in 1..n
        /\ r.page.next = None => a + Len(r.page.nodes) = Len(Listing[s.parent])
        /\ r.page.next # None =>
             /\ r.page.next = r.page.fetch
             /\ T[r.page.next] = [parent |-> s.parent, size |-> PageKey(r).size,
                                  offset |-> a + Len(r.page.nodes)]
    <2>1. PICK key : key = PageKey(r) OBVIOUS
    <2>2. key.parent = s.parent /\ Place(T, key.token) = a /\ PageFits(T, n, key, r.page)
      BY <1>4, <1>5, <1>6, <2>1, KeyOfCall
    <2> QED BY <2>1, <2>2, Zenon DEF PageFits
  <1>9. a \in Nat
    <2>1. CASE s.next = None BY <1>6, <2>1 DEF Place
    <2>2. CASE s.next # None
      <3>1. s.next \in Tokens BY <2>2, SearchFields DEF MaybeToken
      <3>2. T[s.next] \in Places BY <3>1
      <3> QED BY <1>6, <2>2, <3>2 DEF Place, Places
    <2> QED BY <2>1, <2>2
  <1>10. PICK d \in Nat : d = Len(r.page.nodes) BY <1>1, LenProperties
  <1>11. PageEnd(T, s1) = a + d
    <2>1. CASE r.page.next = None BY <1>2, <1>8, <1>10, <2>1 DEF PageEnd
    <2>2. CASE r.page.next # None BY <1>2, <1>8, <1>10, <2>2 DEF PageEnd
    <2> QED BY <2>1, <2>2
  <1>12. Reached(T, s1) = a
    <2>1. Reached(T, s1) = (a + d) - d BY <1>2, <1>10, <1>11 DEF Reached
    <2> QED BY <1>9, <2>1
  <1>13. Pending(s1) = Pending(s)
    BY <1>2 DEF Pending
  <1>14. \A p, m : Seen(s, L, D, p, m) => Seen(s1, L, D, p, m)
    BY <1>2, <1>13, SeenStays
  <1>15. LogOK(s1, L) BY <1>2, <1>3 DEF LogOK
  <1>16. WalkOK(s1, L, D) BY <1>3, <1>13, <1>14 DEF WalkOK
  <1>17. PlaceOK(T, n, s1, L, D)
    <2>1. Seen(s, L, D, s.parent, a) BY <1>3, <1>7 DEF PlaceOK
    <2>2. Seen(s1, L, D, s1.parent, Reached(T, s1)) BY <1>2, <1>12, <1>14, <2>1
    <2>3. Len(s1.todo) <= PageEnd(T, s1) BY <1>2, <1>9, <1>10, <1>11
    <2>4. s1.todo = SubSeq(Listing[s1.parent], Reached(T, s1) + 1, PageEnd(T, s1))
      BY <1>2, <1>8, <1>10, <1>11, <1>12
    <2>5. s1.next # None => s1.next <= n /\ T[s1.next].parent = s1.parent
      BY <1>2, <1>8
    <2> QED BY <1>2, <2>2, <2>3, <2>4, <2>5 DEF PlaceOK
  <1>18. PageAsked(s1, r1) BY <1>2 DEF PageAsked
  <1> QED BY <1>2, <1>15, <1>16, <1>17, <1>18 DEF TaskOK, Walking, Onward

(* Where the nodes to be visited lie in the listing. *)
LEMMA TodoPlace ==
  ASSUME NEW T \in [Tokens -> Places], NEW n \in Nat,
         \A t \in 1..n : T[t].offset <= Len(Listing[T[t].parent]),
         NEW s \in SearchType, NEW L, NEW D, PlaceOK(T, n, s, L, D), s.pc \in {"nodes", "turn"}
  PROVE  \E a \in Nat, b \in Nat :
           /\ a = Reached(T, s) /\ b = PageEnd(T, s) /\ a <= b /\ b <= Len(Listing[s.parent])
           /\ Len(s.todo) = b - a /\ s.todo = SubSeq(Listing[s.parent], a + 1, b)
           /\ Seen(s, L, D, s.parent, a)
  <1>1. s.parent \in Parents /\ s.todo \in Seq(AllNodes) /\ s.next \in MaybeToken /\ s.next \in Nat
    BY SearchFields
  <1>2. Len(Listing[s.parent]) \in Nat BY <1>1, ListingType
  <1>3. PICK b \in Nat : b = PageEnd(T, s) /\ b <= Len(Listing[s.parent])
    <2>1. CASE s.next = None BY <1>2, <2>1 DEF PageEnd
    <2>2. CASE s.next # None
      <3>1. s.next \in Tokens BY <1>1, <2>2 DEF MaybeToken
      <3>2. T[s.next] \in Places BY <3>1
      <3>3. T[s.next].offset \in Nat BY <3>2 DEF Places
      <3>4. s.next <= n /\ T[s.next].parent = s.parent BY <2>2 DEF PlaceOK
      <3>5. s.next \in 1..n BY <1>1, <2>2, <3>4 DEF None
      <3> QED BY <2>2, <3>3, <3>4, <3>5 DEF PageEnd
    <2> QED BY <2>1, <2>2
  <1>4. PICK d \in Nat : d = Len(s.todo) BY <1>1, LenProperties
  <1>5. d <= b BY <1>3, <1>4 DEF PlaceOK
  <1>6. Reached(T, s) = b - d BY <1>3, <1>4 DEF Reached
  <1>7. PICK a \in Nat : a = b - d BY <1>5
  <1>8. a <= b /\ d = b - a BY <1>5, <1>7
  <1>9. s.todo = SubSeq(Listing[s.parent], a + 1, b) /\ Seen(s, L, D, s.parent, a)
    BY <1>3, <1>6, <1>7 DEF PlaceOK
  <1> QED BY <1>3, <1>4, <1>6, <1>7, <1>8, <1>9, Zenon

(* match_node and the log. *)
LEMMA Matching1 ==
  ASSUME NEW s \in SearchType, NEW L \in Seq(Event), LogOK(s, L), NEW x \in AllNodes,
         IsMatch(s, x)
  PROVE  /\ Append(L, Match(x)) \in Seq(Event)
         /\ \A i \in DOMAIN Append(L, Match(x)) : Append(L, Match(x))[i].kind \in {"progress", "match"}
         /\ Truthful(s.request, Append(L, Match(x)))
         /\ Items(Append(L, Match(x))) = Items(L) \cup {ItemOf[x]}
         /\ Cardinality(MatchesIn(Append(L, Match(x)))) = s.matches + 1
  <1>1. PICK L1 : L1 = Append(L, Match(x)) OBVIOUS
  <1>2. Match(x) \in Event /\ Match(x).kind = "match" BY EventKinds
  <1>3. /\ L1 \in Seq(Event) /\ Len(L) \in Nat /\ L1[Len(L) + 1] = Match(x)
        /\ \A i \in 1..Len(L) : L1[i] = L[i]
        /\ DOMAIN L1 = 1..(Len(L) + 1) /\ DOMAIN L = 1..Len(L)
    BY <1>1, <1>2, LogAppend
  <1>4. \A i \in DOMAIN L1 : L1[i].kind \in {"progress", "match"}
    <2> TAKE i \in DOMAIN L1
    <2>1. CASE i \in 1..Len(L) BY <1>3, <2>1 DEF LogOK
    <2>2. CASE i = Len(L) + 1 BY <1>2, <1>3, <2>2
    <2> QED BY <1>3, <2>1, <2>2
  <1>5. Truthful(s.request, L) /\ s.matches = Cardinality(MatchesIn(L)) BY DEF LogOK
  <1>6. Asked(s.request, x) /\ (ItemOf[x] = NoItem \/ ItemOf[x] \notin Items(L))
    BY DEF IsMatch, Asked, LogOK
  <1>7. /\ Truthful(s.request, L1) /\ Items(L1) = Items(L) \cup {ItemOf[x]}
        /\ Cardinality(MatchesIn(L1)) = Cardinality(MatchesIn(L)) + 1
    <2>1. PICK q : q = s.request OBVIOUS
    <2>2. Truthful(q, L) /\ Asked(q, x) BY <1>5, <1>6, <2>1
    <2>3. ItemOf[x] = NoItem \/ ItemOf[x] \notin Items(L) BY <1>6
    <2>4. Reported(q, L, x, L1) BY <1>1, <2>2, <2>3, LogMatch
    <2> QED BY <2>1, <2>4 DEF Reported
  <1> QED BY <1>1, <1>3, <1>4, <1>5, <1>7

(* The next node of the page. *)
LEMMA NextNode ==
  ASSUME NEW T \in [Tokens -> Places], NEW n \in Nat,
         \A t \in 1..n : T[t].offset <= Len(Listing[T[t].parent]),
         NEW s \in SearchType, NEW L, NEW D, PlaceOK(T, n, s, L, D),
         s.pc = "nodes", s.todo # <<>>
  PROVE  \E a \in Nat, b \in Nat :
           /\ a = Reached(T, s) /\ b = PageEnd(T, s) /\ a + 1 <= b /\ b <= Len(Listing[s.parent])
           /\ Head(s.todo) = Listing[s.parent][a + 1] /\ Head(s.todo) \in AllNodes
           /\ Tail(s.todo) = SubSeq(Listing[s.parent], (a + 1) + 1, b)
           /\ Tail(s.todo) \in Seq(AllNodes) /\ Len(Tail(s.todo)) = b - (a + 1)
           /\ Seen(s, L, D, s.parent, a)
  <1>1. PICK a \in Nat, b \in Nat :
          /\ a = Reached(T, s) /\ b = PageEnd(T, s) /\ a <= b /\ b <= Len(Listing[s.parent])
          /\ Len(s.todo) = b - a /\ s.todo = SubSeq(Listing[s.parent], a + 1, b)
          /\ Seen(s, L, D, s.parent, a)
    BY TodoPlace
  <1>2. s.parent \in Parents /\ s.todo \in Seq(AllNodes) BY SearchFields
  <1>3. PICK w \in Seq(AllNodes) : w = Listing[s.parent] BY <1>2, ListingType
  <1>4. Len(s.todo) # 0 BY <1>2, EmptySeq
  <1>5. a < b /\ a + 1 <= b /\ b <= Len(w) BY <1>1, <1>3, <1>4
  <1>6. /\ Head(SubSeq(w, a + 1, b)) = w[a + 1] /\ w[a + 1] \in AllNodes
        /\ Tail(SubSeq(w, a + 1, b)) = SubSeq(w, (a + 1) + 1, b)
    BY <1>5, SliceHead
  <1>7. /\ SubSeq(w, (a + 1) + 1, b) \in Seq(AllNodes) /\ Len(SubSeq(w, (a + 1) + 1, b)) = b - (a + 1)
    <2>1. PICK c \in Nat : c = a + 1 OBVIOUS
    <2>2. c <= b BY <1>5, <2>1
    <2>3. /\ SubSeq(w, c + 1, b) \in Seq(AllNodes) /\ Len(SubSeq(w, c + 1, b)) = b - c
      BY <1>5, <2>2, Slice
    <2> QED BY <2>1, <2>3
  <1> QED BY <1>1, <1>3, <1>5, <1>6, <1>7, Zenon

(* The search and its log behind a node. *)
Visited(s, x, L, L1, m1, h1, c1, o1, s1) ==
  /\ L1 = IF IsMatch(s, x) THEN Append(L, Match(x)) ELSE L
  /\ m1 = IF IsMatch(s, x) THEN s.matches + 1 ELSE s.matches
  /\ h1 = IF IsMatch(s, x) THEN s.matched \cup ({ItemOf[x]} \ {NoItem}) ELSE s.matched
  /\ c1 = IF x \in Parents THEN Append(s.scopes, [parent |-> x, refresh |-> FALSE])
          ELSE s.scopes
  /\ s1 = [s EXCEPT !.todo = Tail(s.todo), !.visited = s.visited + 1, !.matches = m1,
                    !.matched = h1, !.scopes = c1, !.outbox = o1]

(* process_node when the search goes on. *)
LEMMA NodeVisited ==
  ASSUME NEW T \in [Tokens -> Places], NEW n \in Nat,
         \A t \in 1..n : T[t].offset <= Len(Listing[T[t].parent]),
         NEW s \in SearchType, NEW L \in Seq(Event), NEW D \in SUBSET Parents, NEW gone,
         NEW r, TaskOK(T, n, s, r, L, D, gone),
         s.pc = "nodes", s.todo # <<>>, NEW x, x = Head(s.todo),
         NEW L1, NEW m1, NEW h1, NEW c1, NEW o1 \in Seq(Event), NEW s1,
         Visited(s, x, L, L1, m1, h1, c1, o1, s1), m1 < s.request.results
  PROVE  L1 \in Seq(Event) /\ \A r1 : Onward(T, n, s1, r1, L1, D, gone, o1)
  <1>1. /\ LogOK(s, L) /\ WalkOK(s, L, D) /\ PlaceOK(T, n, s, L, D)
    BY DEF TaskOK, Walking
  <1>2. PICK a \in Nat, b \in Nat :
          /\ a = Reached(T, s) /\ b = PageEnd(T, s) /\ a + 1 <= b /\ b <= Len(Listing[s.parent])
          /\ Head(s.todo) = Listing[s.parent][a + 1] /\ Head(s.todo) \in AllNodes
          /\ Tail(s.todo) = SubSeq(Listing[s.parent], (a + 1) + 1, b)
          /\ Tail(s.todo) \in Seq(AllNodes) /\ Len(Tail(s.todo)) = b - (a + 1)
          /\ Seen(s, L, D, s.parent, a)
    BY <1>1, NextNode
  <1>3. x = Listing[s.parent][a + 1] /\ x \in AllNodes BY <1>2
  <1>4. /\ s.parent \in Parents /\ s.scopes \in Seq(ScopeType) /\ s.matches \in Nat
        /\ s.visited \in Nat
    BY SearchFields
  <1>5. /\ L1 \in Seq(Event) /\ \A i \in DOMAIN L1 : L1[i].kind \in {"progress", "match"}
        /\ Truthful(s.request, L1)
        /\ Items(L1) = IF IsMatch(s, x) THEN Items(L) \cup {ItemOf[x]} ELSE Items(L)
        /\ Cardinality(MatchesIn(L1)) = m1
    <2>1. CASE IsMatch(s, x) BY <1>1, <1>3, <2>1, Matching1 DEF Visited
    <2>2. CASE ~IsMatch(s, x) BY <1>1, <2>2 DEF LogOK, Visited
    <2> QED BY <2>1, <2>2
  <1>6. m1 \in Nat /\ h1 \in SUBSET KnownItems /\ h1 = Items(L1) \ {NoItem}
    <2>1. ItemOf[x] \in KnownItems BY <1>3 DEF KnownItems
    <2>2. s.matched \in SUBSET KnownItems BY DEF SearchType
    <2>3. s.matched = Items(L) \ {NoItem} BY <1>1 DEF LogOK
    <2>4. m1 \in Nat BY <1>4 DEF Visited
    <2> QED BY <1>5, <2>1, <2>2, <2>3, <2>4 DEF Visited
  <1>7. c1 \in Seq(ScopeType) /\ Contents(s.scopes) \subseteq Contents(c1)
        /\ (x \in Parents => \E e \in Contents(c1) : e.parent = x)
    <2>1. CASE x \notin Parents BY <1>4, <2>1 DEF Visited
    <2>2. CASE x \in Parents
      <3>1. PICK e : e = [parent |-> x, refresh |-> FALSE] OBVIOUS
      <3>2. e \in ScopeType /\ e.parent = x BY <2>2, <3>1 DEF ScopeType
      <3>3. c1 = Append(s.scopes, e) BY <2>2, <3>1 DEF Visited
      <3>4. /\ c1 \in Seq(ScopeType) /\ Len(s.scopes) \in Nat /\ DOMAIN s.scopes = 1..Len(s.scopes)
            /\ DOMAIN c1 = 1..(Len(s.scopes) + 1) /\ c1[Len(s.scopes) + 1] = e
            /\ \A i \in 1..Len(s.scopes) : c1[i] = s.scopes[i]
        BY <1>4, <3>2, <3>3, AppendProperties, LenProperties
      <3>5. Contents(s.scopes) \subseteq Contents(c1) BY <3>4 DEF Contents
      <3>6. e \in Contents(c1)
        <4>1. Len(s.scopes) + 1 \in DOMAIN c1 BY <3>4
        <4>2. c1[Len(s.scopes) + 1] \in Contents(c1) BY <4>1, Zenon DEF Contents
        <4> QED BY <3>4, <4>2
      <3> QED BY <3>2, <3>4, <3>5, <3>6
    <2> QED BY <2>1, <2>2
  <1>8. /\ s1 \in SearchType /\ s1.pc = "nodes" /\ s1.scopes = c1
        /\ s1.parent = s.parent /\ s1.todo = Tail(s.todo) /\ s1.next = s.next
        /\ s1.matched = h1 /\ s1.matches = m1 /\ s1.outbox = o1
        /\ s1.request = s.request
    <2>3. s.visited + 1 \in Nat BY <1>4
    <2>0. Tail(s.todo) \in Seq(AllNodes) /\ s.visited + 1 \in Nat
      BY <1>2, <2>3, Zenon
    <2>1. PICK t \in Seq(AllNodes), v \in Nat : t = Tail(s.todo) /\ v = s.visited + 1
      BY <2>0, Zenon
    <2>2. s1 = [s EXCEPT !.todo = t, !.visited = v, !.matches = m1,
                         !.matched = h1, !.scopes = c1, !.outbox = o1]
      BY <2>1 DEF Visited
    <2> QED BY <1>6, <1>7, <2>1, <2>2 DEF SearchType
  <1>9. Pending(s) \subseteq Pending(s1) /\ (x \in Parents => x \in Pending(s1))
    BY <1>7, <1>8 DEF Pending
  <1>10. Items(L) \subseteq Items(L1) BY <1>5
  <1>11. \A p, m : Seen(s, L, D, p, m) => Seen(s1, L1, D, p, m)
    <2>1. s1.request = s.request /\ D \cup Pending(s) \subseteq D \cup Pending(s1)
      BY <1>8, <1>9
    <2> QED BY <1>10, <2>1, SeenStays, Zenon
  <1>12. LogOK(s1, L1) BY <1>5, <1>6, <1>8 DEF LogOK
  <1>13. WalkOK(s1, L1, D) BY <1>1, <1>9, <1>11 DEF WalkOK
  <1>14. Asked(s.request, x) => ItemOf[x] \in Items(L1)
    <2>1. CASE IsMatch(s, x) BY <1>5, <2>1
    <2>2. CASE ~IsMatch(s, x) BY <1>1, <1>5, <2>2 DEF IsMatch, Asked, LogOK
    <2> QED BY <2>1, <2>2
  <1>15. Seen(s1, L1, D, s1.parent, a + 1)
    <2>1. Seen(s1, L1, D, s.parent, a) BY <1>2, <1>11
    <2>2. ASSUME NEW y \in 1..(a + 1)
          PROVE  LET z == Listing[s.parent][y] IN
                 /\ Asked(s1.request, z) => ItemOf[z] \in Items(L1)
                 /\ z \in Parents => z \in D \cup Pending(s1)
      <3>1. CASE y \in 1..a BY <2>1, <3>1 DEF Seen
      <3>2. CASE y = a + 1 BY <1>3, <1>8, <1>9, <1>14, <3>2
      <3> QED BY <3>1, <3>2
    <2> QED BY <1>8, <2>2 DEF Seen
  <1>16. PageEnd(T, s1) = b /\ Reached(T, s1) = a + 1
    <2>1. PageEnd(T, s1) = b BY <1>2, <1>8 DEF PageEnd
    <2>2. Reached(T, s1) = b - (b - (a + 1)) BY <1>2, <1>8, <2>1 DEF Reached
    <2> QED BY <2>1, <2>2
  <1>17. PlaceOK(T, n, s1, L1, D)
    <2>1. Len(s1.todo) <= b BY <1>2, <1>8
    <2>2. s1.next # None => s1.next <= n /\ T[s1.next].parent = s1.parent
      BY <1>1, <1>8 DEF PlaceOK
    <2>3. s1.todo = SubSeq(Listing[s1.parent], (a + 1) + 1, b) BY <1>2, <1>8
    <2> QED BY <1>8, <1>15, <1>16, <2>1, <2>2, <2>3 DEF PlaceOK
  <1>18. \A r1 : PageAsked(s1, r1) BY <1>8 DEF PageAsked
  <1> QED BY <1>5, <1>8, <1>12, <1>13, <1>17, <1>18 DEF TaskOK, Walking, Onward

(* process_page ends. *)
LEMMA PageEnds ==
  ASSUME NEW T, NEW n, NEW s \in SearchType, NEW L \in Seq(Event), NEW D \in SUBSET Parents,
         NEW gone, NEW r, TaskOK(T, n, s, r, L, D, gone), s.pc = "nodes", s.todo = <<>>,
         NEW s1, s1 = [s EXCEPT !.outbox = <<Progress>>, !.pc = "turn"],
         NEW L1, L1 = Append(L, Progress), NEW r1
  PROVE  L1 \in Seq(Event) /\ Onward(T, n, s1, r1, L1, D, gone, <<Progress>>)
  <1>1. /\ LogOK(s, L) /\ WalkOK(s, L, D) /\ PlaceOK(T, n, s, L, D)
    BY DEF TaskOK, Walking
  <1>2. Progress \in Event /\ Progress.kind = "progress" BY EventKinds
  <1>3. PICK o \in Seq(Event) : o = <<Progress>>
    <2>1. <<Progress>> \in Seq(Event) BY <1>2
    <2> QED BY <2>1, Zenon
  <1>4. /\ s1 \in SearchType /\ s1.pc = "turn" /\ s1.scopes = s.scopes
        /\ s1.parent = s.parent /\ s1.todo = s.todo /\ s1.next = s.next
        /\ s1.matched = s.matched /\ s1.matches = s.matches /\ s1.outbox = o
        /\ s1.request = s.request
    <2>1. s1 = [s EXCEPT !.outbox = o, !.pc = "turn"] BY <1>3
    <2> QED BY <2>1 DEF SearchType, Walking
  <1>5. /\ L1 \in Seq(Event) /\ Len(L) \in Nat /\ L1[Len(L) + 1] = Progress
        /\ \A i \in 1..Len(L) : L1[i] = L[i]
        /\ DOMAIN L1 = 1..(Len(L) + 1) /\ DOMAIN L = 1..Len(L)
    BY <1>2, LogAppend
  <1>6. MatchesIn(L1) = MatchesIn(L) /\ Items(L1) = Items(L)
    BY <1>2, LogOther
  <1>7. Truthful(s.request, L1)
    <2>1. PICK q : q = s.request OBVIOUS
    <2>2. Truthful(q, L) BY <1>1, <2>1 DEF LogOK
    <2>3. Truthful(q, L1) BY <1>2, <2>2, LogOther
    <2> QED BY <2>1, <2>3
  <1>8. \A i \in DOMAIN L1 : L1[i].kind \in {"progress", "match"}
    <2> TAKE i \in DOMAIN L1
    <2>1. CASE i \in 1..Len(L) BY <1>1, <1>5, <2>1 DEF LogOK
    <2>2. CASE i = Len(L) + 1 BY <1>2, <1>5, <2>2
    <2> QED BY <1>5, <2>1, <2>2
  <1>9. LogOK(s1, L1) BY <1>1, <1>4, <1>6, <1>7, <1>8 DEF LogOK
  <1>10. Pending(s1) = Pending(s) BY <1>4 DEF Pending
  <1>11. \A p, m : Seen(s, L, D, p, m) => Seen(s1, L1, D, p, m)
    <2>1. Items(L) \subseteq Items(L1) /\ D \cup Pending(s) \subseteq D \cup Pending(s1)
          /\ s1.request = s.request
      BY <1>4, <1>6, <1>10
    <2> QED BY <2>1, SeenStays, Zenon
  <1>12. WalkOK(s1, L1, D) BY <1>1, <1>10, <1>11 DEF WalkOK
  <1>13. PageEnd(T, s1) = PageEnd(T, s) /\ Reached(T, s1) = Reached(T, s)
    BY <1>4 DEF PageEnd, Reached
  <1>14. PlaceOK(T, n, s1, L1, D) BY <1>1, <1>4, <1>11, <1>13 DEF PlaceOK
  <1>15. PageAsked(s1, r1) BY <1>4 DEF PageAsked
  <1> QED BY <1>3, <1>4, <1>5, <1>9, <1>12, <1>14, <1>15 DEF TaskOK, Walking, Onward

(* process_scope ends: its parent is done. *)
LEMMA ScopeEnds ==
  ASSUME NEW T \in [Tokens -> Places], NEW n \in Nat,
         \A t \in 1..n : T[t].offset <= Len(Listing[T[t].parent]),
         NEW s \in SearchType, NEW L, NEW D \in SUBSET Parents, NEW gone, NEW r,
         TaskOK(T, n, s, r, L, D, gone), s.pc = "turn", s.next = None,
         NEW s1, s1 = [s EXCEPT !.pc = "scope"],
         NEW D1, D1 = D \cup {s.parent}, NEW r1
  PROVE  Onward(T, n, s1, r1, L, D1, gone, s.outbox)
  <1>1. /\ LogOK(s, L) /\ WalkOK(s, L, D) /\ PlaceOK(T, n, s, L, D)
    BY DEF TaskOK, Walking
  <1>2. /\ s1 \in SearchType /\ s1.pc = "scope" /\ s1.scopes = s.scopes
        /\ s1.parent = s.parent /\ s1.todo = s.todo /\ s1.next = s.next
        /\ s1.matched = s.matched /\ s1.matches = s.matches /\ s1.outbox = s.outbox
        /\ s1.request = s.request
    BY DEF SearchType, Walking
  <1>3. s.parent \in Parents BY SearchFields
  <1>4. Seen(s, L, D, s.parent, Len(Listing[s.parent]))
    <2>1. PICK a \in Nat, b \in Nat :
            /\ a = Reached(T, s) /\ b = PageEnd(T, s) /\ a <= b /\ b <= Len(Listing[s.parent])
            /\ Len(s.todo) = b - a /\ s.todo = SubSeq(Listing[s.parent], a + 1, b)
            /\ Seen(s, L, D, s.parent, a)
      BY <1>1, TodoPlace
    <2>2. s.todo = <<>> BY <1>1 DEF PlaceOK
    <2>3. Len(s.todo) = 0 BY <2>2
    <2>4. a = b BY <2>1, <2>3
    <2>5. b = Len(Listing[s.parent]) BY <2>1 DEF PageEnd
    <2> QED BY <2>1, <2>4, <2>5
  <1>5. D \cup Pending(s) \subseteq D1 \cup Pending(s1)
    BY <1>2 DEF Pending
  <1>6. \A p, m : Seen(s, L, D, p, m) => Seen(s1, L, D1, p, m)
    <2>1. \A z : z \in D \cup Pending(s) => z \in D1 \cup Pending(s1) BY <1>5
    <2>2. s1.request = s.request BY <1>2
    <2> QED BY <2>1, <2>2 DEF Seen
  <1>7. LogOK(s1, L) BY <1>1, <1>2 DEF LogOK
  <1>8. WalkOK(s1, L, D1) BY <1>1, <1>4, <1>5, <1>6 DEF WalkOK
  <1>9. PlaceOK(T, n, s1, L, D1) BY <1>2 DEF PlaceOK
  <1>10. PageAsked(s1, r1) BY <1>2 DEF PageAsked
  <1> QED BY <1>2, <1>3, <1>7, <1>8, <1>9, <1>10 DEF TaskOK, Walking, Onward

(* process_scope goes on with the continuation of the page. *)
LEMMA ScopeContinues ==
  ASSUME NEW T \in [Tokens -> Places], NEW n \in Nat,
         \A t \in 1..n : T[t].offset <= Len(Listing[T[t].parent]),
         NEW s \in SearchType, NEW L, NEW D \in SUBSET Parents, NEW gone, NEW r,
         TaskOK(T, n, s, r, L, D, gone), s.pc = "turn", s.next # None, s.outbox = <<>>,
         NEW s1, s1 = [s EXCEPT !.pc = "page"],
         NEW r1, r1.pc = "lookup", r1.parent = s.parent, r1.token = s.next
  PROVE  Onward(T, n, s1, r1, L, D, gone, s.outbox)
  <1>1. /\ LogOK(s, L) /\ WalkOK(s, L, D) /\ PlaceOK(T, n, s, L, D)
    BY DEF TaskOK, Walking
  <1>2. /\ s1 \in SearchType /\ s1.pc = "page" /\ s1.scopes = s.scopes
        /\ s1.parent = s.parent /\ s1.todo = s.todo /\ s1.next = s.next
        /\ s1.matched = s.matched /\ s1.matches = s.matches /\ s1.outbox = s.outbox
        /\ s1.request = s.request
    BY DEF SearchType, Walking
  <1>3. Seen(s, L, D, s.parent, Place(T, s.next))
    <2>1. PICK a \in Nat, b \in Nat :
            /\ a = Reached(T, s) /\ b = PageEnd(T, s) /\ a <= b /\ b <= Len(Listing[s.parent])
            /\ Len(s.todo) = b - a /\ s.todo = SubSeq(Listing[s.parent], a + 1, b)
            /\ Seen(s, L, D, s.parent, a)
      BY <1>1, TodoPlace
    <2>2. s.todo = <<>> BY <1>1 DEF PlaceOK
    <2>3. Len(s.todo) = 0 BY <2>2
    <2>4. a = b BY <2>1, <2>3
    <2>5. b = Place(T, s.next) BY <2>1 DEF PageEnd, Place
    <2> QED BY <2>1, <2>4, <2>5
  <1>4. Pending(s1) = Pending(s)
    BY <1>2 DEF Pending
  <1>5. \A p, m : Seen(s, L, D, p, m) => Seen(s1, L, D, p, m)
    <2>1. Items(L) \subseteq Items(L) OBVIOUS
    <2> QED BY <1>2, <1>4, <2>1, SeenStays
  <1>6. LogOK(s1, L) BY <1>1, <1>2 DEF LogOK
  <1>7. WalkOK(s1, L, D) BY <1>1, <1>4, <1>5 DEF WalkOK
  <1>8. Reached(T, s1) = Place(T, s.next) BY <1>2 DEF Reached
  <1>9. PlaceOK(T, n, s1, L, D) BY <1>1, <1>2, <1>3, <1>5, <1>8 DEF PlaceOK
  <1>10. PageAsked(s1, r1) BY <1>2 DEF PageAsked
  <1> QED BY <1>2, <1>6, <1>7, <1>9, <1>10 DEF TaskOK, Walking, Onward

-----------------------------------------------------------------------------
(* The steps of the search *)

SearchGoes(T) == SearchTypes' /\ \E L1, D1 : SearchOK(T, L1, D1)'

SearchStepOK(T) ==
  /\ PagingType' /\ PagingOK(T)' /\ fetches' = fetches
  /\ \A d \in Clients : d # Searcher => req'[d] = req[d]
  /\ SearchGoes(T)

(* The session is left alone. *)
LEMMA PagingSame ==
  ASSUME PagingType, NEW T, PagingOK(T), UNCHANGED pagingVars
  PROVE  /\ PagingType' /\ PagingOK(T)' /\ fetches' = fetches /\ req' = req
         /\ \A d \in Clients : d # Searcher => req'[d] = req[d]
  <1>1. /\ alive' = alive /\ bound' = bound /\ cached' = cached /\ nodes' = nodes
        /\ fetches' = fetches /\ req' = req
    BY DEF pagingVars
  <1> QED BY <1>1 DEF PagingType, PagingOK, Contents

(* What the session knows of the places it has given out, and of the search. *)
LEMMA SearchFacts ==
  ASSUME PagingType, NEW T \in [Tokens -> Places], PagingOK(T), SearchTypes,
         NEW L, NEW D, SearchOK(T, L, D)
  PROVE  /\ search \in SearchType /\ channel \in Seq(Event) /\ reader \in ReaderType
         /\ L \in Seq(Event) /\ D \in SUBSET Parents /\ fetches \in Nat
         /\ TaskOK(T, fetches, search, req[Searcher], L, D, Gone)
         /\ \A t \in 1..fetches : T[t].offset <= Len(Listing[T[t].parent])
         /\ Searcher \in Clients /\ req[Searcher] \in CallType
         /\ CallOK(T, fetches, req[Searcher])
         /\ ~Gone => Delivered(L, reader.events, channel, search.outbox)
  <1>1. Searcher \in Clients BY SearchAssumption
  <1> QED BY <1>1 DEF SearchTypes, SearchOK, PagingType, PagingOK

(* tx.send *)
LEMMA SendOK ==
  ASSUME PagingType, NEW T \in [Tokens -> Places], PagingOK(T), SearchTypes,
         NEW L, NEW D, SearchOK(T, L, D), Send
  PROVE  SearchStepOK(T)
  <1>0. /\ PagingType' /\ PagingOK(T)' /\ fetches' = fetches /\ req' = req
        /\ \A d \in Clients : d # Searcher => req'[d] = req[d]
    BY PagingSame DEF Send
  <1>1. /\ search \in SearchType /\ channel \in Seq(Event) /\ L \in Seq(Event) /\ D \in SUBSET Parents
        /\ TaskOK(T, fetches, search, req[Searcher], L, D, Gone)
        /\ ~Gone => Delivered(L, reader.events, channel, search.outbox)
    BY SearchFacts
  <1>2. search.outbox # <<>> /\ reader' = reader BY DEF Send
  <1>3. search.pc \notin {"close", "closed"} BY <1>1, <1>2 DEF TaskOK
  <1>4. CASE /\ ~Gone /\ channel' = Append(channel, Head(search.outbox))
             /\ search' = [search EXCEPT !.outbox = Tail(@)]
    <2>1. search.outbox \in Seq(Event) BY <1>1, SearchFields
    <2>2. Head(search.outbox) \in Event /\ Tail(search.outbox) \in Seq(Event)
      BY <1>2, <2>1, HeadTailProperties
    <2>3. PICK s1 : s1 = [search EXCEPT !.outbox = Tail(search.outbox)] OBVIOUS
    <2>4. /\ s1 \in SearchType /\ s1.pc = search.pc /\ s1.scopes = search.scopes
          /\ s1.parent = search.parent /\ s1.todo = search.todo /\ s1.next = search.next
          /\ s1.matched = search.matched /\ s1.matches = search.matches
          /\ s1.outbox = Tail(search.outbox) /\ s1.request = search.request
      <3>1. PICK o \in Seq(Event) : o = Tail(search.outbox) BY <2>2, Zenon
      <3>2. s1 = [search EXCEPT !.outbox = o] BY <2>3, <3>1
      <3> QED BY <1>1, <3>1, <3>2 DEF SearchType
    <2>5. search' = s1 BY <1>4, <2>3
    <2>6. SearchTypes'
      <3>1. channel' \in Seq(Event) BY <1>1, <1>4, <2>2
      <3>2. search' \in SearchType BY <2>4, <2>5
      <3> QED BY <1>2, <3>1, <3>2 DEF SearchTypes
    <2>7. TaskOK(T, fetches, s1, req[Searcher], L, D, Gone)
      <3>1. CASE search.pc \in Walking
        <4>1. LogOK(s1, L) BY <1>1, <2>4, <3>1 DEF TaskOK, LogOK
        <4>2. Pending(s1) = Pending(search) BY <2>4 DEF Pending
        <4>3. \A p, m : Seen(search, L, D, p, m) => Seen(s1, L, D, p, m)
          BY <2>4, <4>2 DEF Seen
        <4>4. WalkOK(s1, L, D) BY <1>1, <3>1, <4>2, <4>3 DEF TaskOK, WalkOK
        <4>5. PageEnd(T, s1) = PageEnd(T, search) /\ Reached(T, s1) = Reached(T, search)
          BY <2>4 DEF PageEnd, Reached
        <4>6. PlaceOK(T, fetches, s1, L, D)
          <5>1. PlaceOK(T, fetches, search, L, D) BY <1>1, <3>1 DEF TaskOK
          <5> QED BY <2>4, <4>3, <4>5, <5>1 DEF PlaceOK
        <4>7. PageAsked(s1, req[Searcher])
          <5>1. PageAsked(search, req[Searcher]) BY <1>1, <3>1 DEF TaskOK
          <5> QED BY <1>2, <2>4, <5>1 DEF PageAsked
        <4> QED BY <2>4, <3>1, <4>1, <4>4, <4>6, <4>7 DEF TaskOK, Walking
      <3>2. CASE search.pc \notin Walking
        BY <1>1, <1>3, <2>4, <3>2 DEF TaskOK
      <3> QED BY <3>1, <3>2
    <2>8. Delivered(L, reader.events, Append(channel, Head(search.outbox)), Tail(search.outbox))
      BY <1>1, <1>2, <1>4, DeliveredSend
    <2>9. ~Gone' /\ ~Gone BY <1>2, <1>4 DEF Gone
    <2>10. SearchOK(T, L, D)'
      <3>1. Delivered(L, reader.events, channel, search.outbox)'
        BY <1>2, <1>4, <2>4, <2>5, <2>8 DEF Delivered
      <3>2. TaskOK(T, fetches, search, req[Searcher], L, D, Gone)'
        BY <1>0, <2>5, <2>7, <2>9 DEF TaskOK
      <3>3. reader.state # "ok" BY <1>3 DEF SearchOK
      <3> QED BY <1>1, <1>2, <2>9, <3>1, <3>2, <3>3 DEF SearchOK
    <2> QED BY <1>0, <2>6, <2>10 DEF SearchStepOK, SearchGoes
  <1>5. CASE Gone /\ UNCHANGED channel /\ search' = Over(search, "close", <<>>)
    <2>1. PICK s1 : s1 = Over(search, "close", <<>>) OBVIOUS
    <2>2. <<>> \in Seq(Event) BY EmptySeq
    <2>3. Onward(T, fetches, s1, req'[Searcher], L, D, Gone, <<>>)
      BY <1>1, <1>5, <2>1, <2>2, OverTask
    <2>4. SearchTypes' /\ SearchOK(T, L, D)'
      BY <1>0, <1>1, <1>2, <1>3, <1>5, <2>1, <2>3, TaskMove DEF Onward
    <2> QED BY <1>0, <2>4 DEF SearchStepOK, SearchGoes
  <1> QED BY <1>4, <1>5 DEF Send

(* The search asks for a page. *)
LEMMA SearchAsks ==
  ASSUME PagingType, NEW T \in [Tokens -> Places], PagingOK(T),
         NEW parent \in Parents, NEW token \in MaybeToken, NEW refresh \in BOOLEAN,
         refresh => token = None, Ask(Searcher, parent, token, SearchPageSize, refresh),
         UNCHANGED <<alive, bound, cached, nodes, fetches>>
  PROVE  /\ PagingType' /\ PagingOK(T)' /\ fetches' = fetches
         /\ \A d \in Clients : d # Searcher => req'[d] = req[d]
         /\ req'[Searcher].pc = "lookup" /\ req'[Searcher].parent = parent
         /\ req'[Searcher].token = token
  <1>1. Searcher \in Clients /\ SearchPageSize \in Nat BY SearchAssumption
  <1>2. Begun(T, fetches, Searcher, parent, token, refresh) BY <1>1, AskedCall
  <1>3. PICK r1 \in CallType :
          /\ req' = [req EXCEPT ![Searcher] = r1] /\ CallOK(T, fetches, r1) /\ r1.pc = "lookup"
          /\ r1.parent = parent /\ r1.token = token
    BY <1>2 DEF Begun
  <1> QED BY <1>1, <1>3, AskOK

(* It takes an answer. *)
LEMMA SearchTakes ==
  ASSUME PagingType, NEW T \in [Tokens -> Places], PagingOK(T), Take(Searcher),
         UNCHANGED <<alive, bound, cached, nodes, fetches>>
  PROVE  /\ PagingType' /\ PagingOK(T)' /\ fetches' = fetches
         /\ \A d \in Clients : d # Searcher => req'[d] = req[d]
  <1>1. Searcher \in Clients BY SearchAssumption
  <1>2. NoRequest \in CallType /\ CallOK(T, fetches, NoRequest) BY FreshCall
  <1>3. req' = [req EXCEPT ![Searcher] = NoRequest] BY DEF Take
  <1> QED BY <1>1, <1>2, <1>3, AskOK

(* The task takes a step. *)
LEMMA TaskGoes ==
  ASSUME SearchTypes, NEW T, NEW L, NEW D, SearchOK(T, L, D), search.pc # "closed",
         UNCHANGED <<channel, reader, fetches>>,
         NEW s1, search' = s1, NEW n, n = fetches, NEW r1, r1 = req'[Searcher],
         NEW L1 \in Seq(Event), NEW D1 \in SUBSET Parents, NEW g, g = Gone, NEW out,
         Onward(T, n, s1, r1, L1, D1, g, out),
         ~Gone => Delivered(L1, reader.events, channel, out)
  PROVE  SearchGoes(T)
  <1>1. s1 \in SearchType /\ TaskOK(T, n, s1, r1, L1, D1, g) /\ s1.outbox = out BY DEF Onward
  <1>2. TaskOK(T, fetches, s1, req'[Searcher], L1, D1, Gone) BY <1>1
  <1>3. ~Gone => Delivered(L1, reader.events, channel, s1.outbox) BY <1>1
  <1>4. SearchTypes' /\ SearchOK(T, L1, D1)' BY <1>1, <1>2, <1>3, TaskMove
  <1> QED BY <1>4 DEF SearchGoes

(* The search comes to its verdict. *)
LEMMA StopsWith ==
  ASSUME SearchTypes, NEW T, NEW L, NEW D, SearchOK(T, L, D), search.pc # "closed",
         NEW L1 \in Seq(Event), NEW out \in Seq(Event), search' = Over(search, "stop", out),
         UNCHANGED <<channel, reader, fetches>>, NEW q, q = search.request, Settled(q, L1),
         ~Gone => Delivered(L1, reader.events, channel, out)
  PROVE  SearchGoes(T)
  <1>1. PICK s, n, r1, g, pc :
          s = search /\ n = fetches /\ r1 = req'[Searcher] /\ g = Gone /\ pc = "stop"
    OBVIOUS
  <1>2. PICK s1 : s1 = Over(s, pc, out) OBVIOUS
  <1>3. search' = s1 BY <1>1, <1>2
  <1>4. s \in SearchType /\ D \in SUBSET Parents BY <1>1 DEF SearchTypes, SearchOK
  <1>5. pc \in {"stop", "close"} /\ (pc = "close" => out = <<>>) BY <1>1
  <1>6. Settled(s.request, L1) BY <1>1
  <1>7. Onward(T, n, s1, r1, L1, D, g, out) BY <1>2, <1>4, <1>5, <1>6, OverTask
  <1> QED BY <1>1, <1>3, <1>4, <1>7, TaskGoes

(* process_scope *)
LEMMA NextScopeOK ==
  ASSUME PagingType, NEW T \in [Tokens -> Places], PagingOK(T), SearchTypes,
         NEW L, NEW D, SearchOK(T, L, D), NextScope
  PROVE  SearchStepOK(T)
  <1>1. /\ search \in SearchType /\ L \in Seq(Event) /\ D \in SUBSET Parents
        /\ TaskOK(T, fetches, search, req[Searcher], L, D, Gone)
        /\ ~Gone => Delivered(L, reader.events, channel, search.outbox)
    BY SearchFacts
  <1>2. /\ search.pc = "scope" /\ search.outbox = <<>>
        /\ UNCHANGED <<alive, bound, cached, nodes, lock, fetches, channel, reader>>
    BY DEF NextScope
  <1>3. CASE search.scopes # <<>>
    <2> DEFINE scope == Head(search.scopes)
    <2>1. /\ Ask(Searcher, scope.parent, None, SearchPageSize, scope.refresh)
          /\ search' = [search EXCEPT !.pc = "page", !.scopes = Tail(@), !.parent = scope.parent]
      BY <1>3 DEF NextScope
    <2>2. scope \in ScopeType
      <3>1. search.scopes \in Seq(ScopeType) BY <1>1, SearchFields
      <3> QED BY <1>3, <3>1, HeadTailProperties
    <2>3. PICK parent \in Parents, refresh \in BOOLEAN :
            parent = scope.parent /\ refresh = scope.refresh
      BY <2>2 DEF ScopeType
    <2> HIDE DEF scope
    <2>4. None \in MaybeToken /\ (refresh => None = None)
          /\ Ask(Searcher, parent, None, SearchPageSize, refresh)
      BY <2>1, <2>3 DEF MaybeToken
    <2>5. /\ PagingType' /\ PagingOK(T)' /\ fetches' = fetches
          /\ \A d \in Clients : d # Searcher => req'[d] = req[d]
          /\ req'[Searcher].pc = "lookup" /\ req'[Searcher].parent = parent
          /\ req'[Searcher].token = None
      BY <1>2, <2>4, SearchAsks
    <2>6. PICK s1, r1 : /\ s1 = [search EXCEPT !.pc = "page", !.scopes = Tail(search.scopes),
                                            !.parent = Head(search.scopes).parent]
                        /\ r1 = req'[Searcher]
      OBVIOUS
    <2>7. search' = s1 BY <2>1, <2>6 DEF scope
    <2>8. s1.parent = parent BY <1>1, <2>3, <2>6 DEF SearchType, scope
    <2>9. r1.pc = "lookup" /\ r1.parent = s1.parent /\ r1.token = None
      BY <2>5, <2>6, <2>8
    <2>10. s1 \in SearchType /\ TaskOK(T, fetches, s1, r1, L, D, Gone) /\ s1.outbox = search.outbox
      <3>1. PICK g, n, s, r : g = Gone /\ n = fetches /\ s = search /\ r = req[Searcher] OBVIOUS
      <3>2. /\ s \in SearchType /\ D \in SUBSET Parents /\ TaskOK(T, n, s, r, L, D, g)
            /\ s.pc = "scope" /\ s.outbox = <<>> /\ s.scopes # <<>>
        BY <1>1, <1>2, <1>3, <3>1
      <3>3. Begins(s, s1) BY <2>6, <3>1 DEF Begins
      <3>4. Onward(T, n, s1, r1, L, D, g, <<>>)
        BY <2>9, <3>2, <3>3, ScopeBegins
      <3> QED BY <1>2, <3>1, <3>4 DEF Onward
    <2>11. SearchTypes' /\ SearchOK(T, L, D)'
      BY <1>1, <1>2, <2>6, <2>7, <2>10, TaskMove
    <2> QED BY <2>5, <2>11 DEF SearchStepOK, SearchGoes
  <1>4. CASE search.scopes = <<>>
    <2>1. UNCHANGED req /\ search' = Over(search, "stop", <<Completed(TRUE, FALSE)>>)
      BY <1>4 DEF NextScope
    <2>2. UNCHANGED pagingVars BY <1>2, <2>1 DEF pagingVars
    <2>3. /\ PagingType' /\ PagingOK(T)' /\ fetches' = fetches /\ req' = req
          /\ \A d \in Clients : d # Searcher => req'[d] = req[d]
      BY <2>2, PagingSame
    <2>4. PICK e \in Event : /\ e = Completed(TRUE, FALSE) /\ e.kind = "completed"
                             /\ e.complete = TRUE /\ e.truncated = FALSE
      BY EventKinds
    <2>5. LogOK(search, L) /\ WalkOK(search, L, D) BY <1>1, <1>2 DEF TaskOK, Walking
    <2>6. Whole(search.request, L) BY <1>1, <1>2, <1>4, <2>5, WalkedAll
    <2>7. PICK q : q = search.request OBVIOUS
    <2>8. /\ Append(L, e) \in Seq(Event) /\ Settled(q, Append(L, e))
      <3>1. q.results \in Nat BY <1>1, <2>7, SearchFields
      <3>2. /\ \A i \in DOMAIN L : L[i].kind \in {"progress", "match"}
            /\ Cardinality(MatchesIn(L)) <= q.results /\ Truthful(q, L) /\ Whole(q, L)
        BY <1>1, <2>5, <2>6, <2>7, <3>1, MatchesFinite DEF LogOK
      <3>3. e.kind \in {"completed", "error"} BY <2>4
      <3>4. e.kind = "completed" =>
              /\ e.complete => Truthful(q, L) /\ Whole(q, L)
              /\ e.truncated <=> ~e.complete
        BY <2>4, <3>2
      <3>5. L \in Seq(Event) /\ e \in Event BY <1>1, <2>4
      <3> QED BY <3>2, <3>3, <3>4, <3>5, SettledBy
    <2>9. PICK out \in Seq(Event) : out = <<e>>
      <3>1. <<e>> \in Seq(Event) OBVIOUS
      <3> QED BY <3>1, Zenon
    <2>10. PICK L1 \in Seq(Event) : L1 = Append(L, e) BY <2>8, Zenon
    <2>11. ~Gone => Delivered(L1, reader.events, channel, out)
      BY <1>1, <1>2, <2>9, <2>10, DeliveredOne
    <2>12. search' = Over(search, "stop", out) BY <2>1, <2>4, <2>9
    <2>13. Settled(q, L1) BY <2>8, <2>10
    <2>14. SearchGoes(T) BY <1>2, <2>7, <2>11, <2>12, <2>13, StopsWith
    <2> QED BY <2>3, <2>14 DEF SearchStepOK
  <1> QED BY <1>3, <1>4

(* Names for where the search stands. *)
Stands(T, n, s, r, L, D, g) ==
  /\ L \in Seq(Event) /\ D \in SUBSET Parents /\ TaskOK(T, n, s, r, L, D, g)
  /\ CallOK(T, n, r) /\ \A t \in 1..n : T[t].offset <= Len(Listing[T[t].parent])

(* The same facts about names instead of variables. *)
LEMMA SearchNamed ==
  ASSUME PagingType, NEW T \in [Tokens -> Places], PagingOK(T), SearchTypes,
         NEW L, NEW D, SearchOK(T, L, D)
  PROVE  \E s \in SearchType, n \in Nat, r \in CallType, g \in {Gone}, r1 \in {req'[Searcher]} :
           /\ s = search /\ n = fetches /\ r = req[Searcher] /\ g = Gone /\ r1 = req'[Searcher]
           /\ Stands(T, n, s, r, L, D, g)
  <1>1. /\ search \in SearchType /\ L \in Seq(Event) /\ D \in SUBSET Parents /\ fetches \in Nat
        /\ TaskOK(T, fetches, search, req[Searcher], L, D, Gone)
        /\ \A t \in 1..fetches : T[t].offset <= Len(Listing[T[t].parent])
        /\ req[Searcher] \in CallType /\ CallOK(T, fetches, req[Searcher])
    BY SearchFacts
  <1>2. Stands(T, fetches, search, req[Searcher], L, D, Gone) BY <1>1 DEF Stands
  <1> QED BY <1>1, <1>2, Zenon

(* process_page ends with a progress event. *)
LEMMA PageDoneOK ==
  ASSUME PagingType, NEW T \in [Tokens -> Places], PagingOK(T), SearchTypes,
         NEW L, NEW D, SearchOK(T, L, D), PageDone
  PROVE  SearchStepOK(T)
  <1>1. PICK s \in SearchType, n \in Nat, r \in CallType, g \in {Gone}, r1 \in {req'[Searcher]} :
          /\ s = search /\ n = fetches /\ r = req[Searcher] /\ g = Gone /\ r1 = req'[Searcher]
          /\ Stands(T, n, s, r, L, D, g)
    BY SearchNamed
  <1>2. /\ PagingType' /\ PagingOK(T)' /\ fetches' = fetches
        /\ \A d \in Clients : d # Searcher => req'[d] = req[d]
    BY PagingSame DEF PageDone
  <1>3. s.pc = "nodes" /\ s.outbox = <<>> /\ s.todo = <<>> /\ UNCHANGED <<channel, reader, fetches>>
    BY <1>1, <1>2 DEF PageDone
  <1>4. PICK s1, L1 : /\ s1 = [s EXCEPT !.outbox = <<Progress>>, !.pc = "turn"]
                      /\ L1 = Append(L, Progress)
    OBVIOUS
  <1>5. search' = s1 BY <1>1, <1>4 DEF PageDone
  <1>6. L \in Seq(Event) /\ D \in SUBSET Parents /\ TaskOK(T, n, s, r, L, D, g)
    BY <1>1 DEF Stands
  <1>7. L1 \in Seq(Event) /\ Onward(T, n, s1, r1, L1, D, g, <<Progress>>)
    BY <1>3, <1>4, <1>6, PageEnds
  <1>8. ~Gone => Delivered(L1, reader.events, channel, <<Progress>>)
    <2>1. Progress \in Event BY EventKinds
    <2>2. ~Gone => Delivered(L, reader.events, channel, <<>>) BY <1>1, <1>3 DEF SearchOK
    <2> QED BY <1>4, <1>6, <2>1, <2>2, DeliveredOne
  <1>9. search.pc # "closed" BY <1>1, <1>3
  <1>10. SearchGoes(T) BY <1>1, <1>3, <1>5, <1>6, <1>7, <1>8, <1>9, TaskGoes
  <1> QED BY <1>2, <1>10 DEF SearchStepOK

(* run_search after the verdict. *)
LEMMA VerdictOK ==
  ASSUME PagingType, NEW T \in [Tokens -> Places], PagingOK(T), SearchTypes,
         NEW L, NEW D, SearchOK(T, L, D), Verdict
  PROVE  SearchStepOK(T)
  <1>1. PICK s \in SearchType, n \in Nat, r \in CallType, g \in {Gone}, r1 \in {req'[Searcher]} :
          /\ s = search /\ n = fetches /\ r = req[Searcher] /\ g = Gone /\ r1 = req'[Searcher]
          /\ Stands(T, n, s, r, L, D, g)
    BY SearchNamed
  <1>2. /\ PagingType' /\ PagingOK(T)' /\ fetches' = fetches
        /\ \A d \in Clients : d # Searcher => req'[d] = req[d]
    BY PagingSame DEF Verdict
  <1>3. s.pc = "stop" /\ s.outbox = <<>> /\ UNCHANGED <<channel, reader, fetches>>
    BY <1>1, <1>2 DEF Verdict
  <1>4. PICK s1 : s1 = [s EXCEPT !.pc = "close"] OBVIOUS
  <1>5. search' = s1 BY <1>1, <1>4 DEF Verdict
  <1>6. L \in Seq(Event) /\ D \in SUBSET Parents /\ TaskOK(T, n, s, r, L, D, g)
    BY <1>1 DEF Stands
  <1>7. Onward(T, n, s1, r1, L, D, g, <<>>)
    <2>1. s1 \in SearchType /\ s1.pc = "close" /\ s1.outbox = <<>> /\ s1.request = s.request
      BY <1>3, <1>4 DEF SearchType
    <2>2. g \/ Settled(s.request, L) BY <1>3, <1>6 DEF TaskOK, Walking
    <2>3. TaskOK(T, n, s1, r1, L, D, g) BY <2>1, <2>2 DEF TaskOK, Walking
    <2> QED BY <2>1, <2>3 DEF Onward
  <1>8. ~Gone => Delivered(L, reader.events, channel, <<>>) BY <1>1, <1>3 DEF SearchOK
  <1>9. search.pc # "closed" BY <1>1, <1>3
  <1>10. SearchGoes(T) BY <1>1, <1>3, <1>5, <1>6, <1>7, <1>8, <1>9, TaskGoes
  <1> QED BY <1>2, <1>10 DEF SearchStepOK

(* run_search closes a session of its own and ends. *)
LEMMA CloseOwnOK ==
  ASSUME PagingType, NEW T \in [Tokens -> Places], PagingOK(T), SearchTypes,
         NEW L, NEW D, SearchOK(T, L, D), CloseOwn
  PROVE  SearchStepOK(T)
  <1>1. PICK s \in SearchType, n \in Nat, r \in CallType, g \in {Gone}, r1 \in {req'[Searcher]} :
          /\ s = search /\ n = fetches /\ r = req[Searcher] /\ g = Gone /\ r1 = req'[Searcher]
          /\ Stands(T, n, s, r, L, D, g)
    BY SearchNamed
  <1>2. /\ PagingType' /\ PagingOK(T)' /\ fetches' = fetches
        /\ \A d \in Clients : d # Searcher => req'[d] = req[d]
    <2>1. CASE alive' = FALSE /\ bound' = <<>> /\ cached' = <<>> /\ nodes' = 0
      BY <2>1, VanishOK DEF CloseOwn
    <2>2. CASE UNCHANGED <<alive, bound, cached, nodes>>
      BY <2>2, PagingSame DEF CloseOwn, pagingVars
    <2> QED BY <2>1, <2>2 DEF CloseOwn
  <1>3. s.pc = "close" /\ UNCHANGED <<channel, reader, fetches>>
    BY <1>1, <1>2 DEF CloseOwn
  <1>4. PICK s1 : s1 = [s EXCEPT !.pc = "closed"] OBVIOUS
  <1>5. search' = s1 BY <1>1, <1>4 DEF CloseOwn
  <1>6. L \in Seq(Event) /\ D \in SUBSET Parents /\ TaskOK(T, n, s, r, L, D, g)
    BY <1>1 DEF Stands
  <1>7. s.outbox = <<>> BY <1>3, <1>6 DEF TaskOK
  <1>8. Onward(T, n, s1, r1, L, D, g, <<>>)
    <2>1. s1 \in SearchType /\ s1.pc = "closed" /\ s1.outbox = <<>> /\ s1.request = s.request
      BY <1>3, <1>4, <1>7 DEF SearchType
    <2>2. g \/ Settled(s.request, L) BY <1>3, <1>6 DEF TaskOK, Walking
    <2>3. TaskOK(T, n, s1, r1, L, D, g) BY <2>1, <2>2 DEF TaskOK, Walking
    <2> QED BY <2>1, <2>3 DEF Onward
  <1>9. ~Gone => Delivered(L, reader.events, channel, <<>>) BY <1>1, <1>7 DEF SearchOK
  <1>10. search.pc # "closed" BY <1>1, <1>3
  <1>11. SearchGoes(T) BY <1>1, <1>3, <1>5, <1>6, <1>8, <1>9, <1>10, TaskGoes
  <1> QED BY <1>2, <1>11 DEF SearchStepOK

(* process_scope at the end of a page. *)
LEMMA NextPageOK ==
  ASSUME PagingType, NEW T \in [Tokens -> Places], PagingOK(T), SearchTypes,
         NEW L, NEW D, SearchOK(T, L, D), NextPage
  PROVE  SearchStepOK(T)
  <1>1. PICK s \in SearchType, n \in Nat, r \in CallType, g \in {Gone}, r1 \in {req'[Searcher]} :
          /\ s = search /\ n = fetches /\ r = req[Searcher] /\ g = Gone /\ r1 = req'[Searcher]
          /\ Stands(T, n, s, r, L, D, g)
    BY SearchNamed
  <1>2. /\ s.pc = "turn" /\ s.outbox = <<>>
        /\ UNCHANGED <<alive, bound, cached, nodes, lock, fetches, channel, reader>>
    BY <1>1 DEF NextPage
  <1>3. /\ L \in Seq(Event) /\ D \in SUBSET Parents /\ TaskOK(T, n, s, r, L, D, g)
        /\ \A t \in 1..n : T[t].offset <= Len(Listing[T[t].parent])
    BY <1>1 DEF Stands
  <1>4. ~Gone => Delivered(L, reader.events, channel, <<>>) BY <1>1, <1>2 DEF SearchOK
  <1>5. search.pc # "closed" BY <1>1, <1>2
  <1>6. CASE s.next = None
    <2>1. UNCHANGED req /\ search' = [search EXCEPT !.pc = "scope"] BY <1>1, <1>6 DEF NextPage
    <2>2. /\ PagingType' /\ PagingOK(T)' /\ fetches' = fetches
          /\ \A d \in Clients : d # Searcher => req'[d] = req[d]
      BY <1>2, <2>1, PagingSame DEF pagingVars
    <2>3. PICK s1, D1 : s1 = [s EXCEPT !.pc = "scope"] /\ D1 = D \cup {s.parent} OBVIOUS
    <2>4. search' = s1 BY <1>1, <2>1, <2>3
    <2>5. Onward(T, n, s1, r1, L, D1, g, s.outbox)
      BY <1>2, <1>3, <1>6, <2>3, ScopeEnds
    <2>6. Onward(T, n, s1, r1, L, D1, g, <<>>) BY <1>2, <2>5
    <2>7. D1 \in SUBSET Parents BY <1>3, <2>3, SearchFields
    <2>8. SearchGoes(T) BY <1>1, <1>2, <1>3, <1>4, <1>5, <2>4, <2>6, <2>7, TaskGoes
    <2> QED BY <2>2, <2>8 DEF SearchStepOK
  <1>7. CASE s.next # None
    <2>1. /\ Ask(Searcher, s.parent, s.next, SearchPageSize, FALSE)
          /\ search' = [search EXCEPT !.pc = "page"]
      BY <1>1, <1>7 DEF NextPage
    <2>2. PICK parent \in Parents, token \in MaybeToken, no \in BOOLEAN :
            parent = s.parent /\ token = s.next /\ no = FALSE
      <3>1. s.parent \in Parents /\ s.next \in MaybeToken /\ FALSE \in BOOLEAN BY SearchFields
      <3> QED BY <3>1, Zenon
    <2>3. Ask(Searcher, parent, token, SearchPageSize, no) /\ (no => token = None)
      BY <2>1, <2>2
    <2>4. /\ PagingType' /\ PagingOK(T)' /\ fetches' = fetches
          /\ \A d \in Clients : d # Searcher => req'[d] = req[d]
          /\ req'[Searcher].pc = "lookup" /\ req'[Searcher].parent = parent
          /\ req'[Searcher].token = token
      BY <1>2, <2>3, SearchAsks
    <2>5. r1.pc = "lookup" /\ r1.parent = s.parent /\ r1.token = s.next BY <1>1, <2>2, <2>4
    <2>6. PICK s1 : s1 = [s EXCEPT !.pc = "page"] OBVIOUS
    <2>7. search' = s1 BY <1>1, <2>1, <2>6
    <2>8. Onward(T, n, s1, r1, L, D, g, s.outbox)
      BY <1>2, <1>3, <1>7, <2>5, <2>6, ScopeContinues
    <2>9. Onward(T, n, s1, r1, L, D, g, <<>>) BY <1>2, <2>8
    <2>10. SearchGoes(T) BY <1>1, <1>2, <1>3, <1>4, <1>5, <2>7, <2>9, TaskGoes
    <2> QED BY <2>4, <2>10 DEF SearchStepOK
  <1> QED BY <1>6, <1>7

(* process_scope with the answer of browse. *)
LEMMA SearchPageOK ==
  ASSUME PagingType, NEW T \in [Tokens -> Places], PagingOK(T), SearchTypes,
         NEW L, NEW D, SearchOK(T, L, D), SearchPage
  PROVE  SearchStepOK(T)
  <1>1. PICK s \in SearchType, n \in Nat, r \in CallType, g \in {Gone}, r1 \in {req'[Searcher]} :
          /\ s = search /\ n = fetches /\ r = req[Searcher] /\ g = Gone /\ r1 = req'[Searcher]
          /\ Stands(T, n, s, r, L, D, g)
    BY SearchNamed
  <1>2. /\ s.pc = "page" /\ r.pc \in {"page", "error"} /\ Take(Searcher)
        /\ UNCHANGED <<alive, bound, cached, nodes, lock, fetches, channel, reader>>
    BY <1>1 DEF SearchPage, Answered
  <1>3. /\ L \in Seq(Event) /\ D \in SUBSET Parents /\ TaskOK(T, n, s, r, L, D, g)
        /\ CallOK(T, n, r)
    BY <1>1 DEF Stands
  <1>4. LogOK(s, L) /\ s.outbox = <<>> BY <1>2, <1>3 DEF TaskOK, Walking, PageAsked
  <1>5. ~Gone => Delivered(L, reader.events, channel, <<>>) BY <1>1, <1>4 DEF SearchOK
  <1>6. search.pc # "closed" BY <1>1, <1>2
  <1>7. /\ PagingType' /\ PagingOK(T)' /\ fetches' = fetches
        /\ \A d \in Clients : d # Searcher => req'[d] = req[d]
    BY <1>2, SearchTakes
  <1>8. CASE r.pc = "error"
    <2>1. search' = Over(search, "stop", <<SearchError>>) BY <1>1, <1>8 DEF SearchPage
    <2>2. PICK e \in Event : e = SearchError /\ e.kind = "error" BY EventKinds
    <2>3. PICK q : q = s.request OBVIOUS
    <2>4. /\ \A i \in DOMAIN L : L[i].kind \in {"progress", "match"}
          /\ Cardinality(MatchesIn(L)) <= q.results
      BY <1>3, <1>4, <2>3, SearchFields, MatchesFinite DEF LogOK
    <2>5. e.kind \in {"completed", "error"} /\ e.kind # "completed" BY <2>2
    <2>6. Append(L, e) \in Seq(Event) /\ Settled(q, Append(L, e))
      BY <1>3, <2>4, <2>5, SettledBy
    <2>7. PICK L1 \in Seq(Event) : L1 = Append(L, e) BY <2>6, Zenon
    <2>8. PICK out \in Seq(Event) : out = <<e>>
      <3>1. <<e>> \in Seq(Event) OBVIOUS
      <3> QED BY <3>1, Zenon
    <2>9. ~Gone => Delivered(L1, reader.events, channel, out)
      BY <1>3, <1>5, <2>7, <2>8, DeliveredOne
    <2>10. search' = Over(search, "stop", out) BY <2>1, <2>2, <2>8
    <2>11. Settled(q, L1) /\ q = search.request BY <1>1, <2>3, <2>6, <2>7
    <2>12. SearchGoes(T) BY <1>2, <1>6, <2>9, <2>10, <2>11, StopsWith
    <2> QED BY <1>7, <2>12 DEF SearchStepOK
  <1>9. CASE r.pc = "page"
    <2>1. PICK s1 : s1 = [s EXCEPT !.pc = "nodes", !.todo = r.page.nodes, !.next = r.page.next]
      OBVIOUS
    <2>2. search' = s1 BY <1>1, <1>9, <2>1 DEF SearchPage
    <2>3. Onward(T, n, s1, r1, L, D, g, s.outbox)
      BY <1>2, <1>3, <1>9, <2>1, PageTaken
    <2>4. Onward(T, n, s1, r1, L, D, g, <<>>) BY <1>4, <2>3
    <2>5. SearchGoes(T) BY <1>1, <1>2, <1>3, <1>5, <1>6, <2>2, <2>4, TaskGoes
    <2> QED BY <1>7, <2>5 DEF SearchStepOK
  <1> QED BY <1>2, <1>8, <1>9

(* What is reported of a node, and the log behind it. *)
LEMMA NodeReported ==
  ASSUME NEW s \in SearchType, NEW L \in Seq(Event), LogOK(s, L), NEW x \in AllNodes,
         NEW found, found = IF IsMatch(s, x) THEN <<Match(x)>> ELSE <<>>,
         NEW L0, L0 = IF IsMatch(s, x) THEN Append(L, Match(x)) ELSE L
  PROVE  /\ found \in Seq(Event) /\ L0 \in Seq(Event)
         /\ \A i \in DOMAIN L0 : L0[i].kind \in {"progress", "match"}
         /\ Cardinality(MatchesIn(L0)) <= s.request.results
  <1>1. s.request.results \in Nat /\ s.matches \in Nat BY SearchFields
  <1>2. CASE IsMatch(s, x)
    <2>1. /\ Append(L, Match(x)) \in Seq(Event)
          /\ \A i \in DOMAIN Append(L, Match(x)) : Append(L, Match(x))[i].kind \in {"progress", "match"}
          /\ Cardinality(MatchesIn(Append(L, Match(x)))) = s.matches + 1
      BY <1>2, Matching1
    <2>2. s.matches + 1 <= s.request.results BY <1>1 DEF LogOK
    <2>3. Match(x) \in Event BY EventKinds
    <2>4. <<Match(x)>> \in Seq(Event) BY <2>3
    <2> QED BY <1>1, <1>2, <2>1, <2>2, <2>4
  <1>3. CASE ~IsMatch(s, x)
    <2>1. found = <<>> /\ L0 = L BY <1>3
    <2>2. <<>> \in Seq(Event) BY EmptySeq
    <2>3. Cardinality(MatchesIn(L)) <= s.request.results BY <1>1, MatchesFinite DEF LogOK
    <2> QED BY <2>1, <2>2, <2>3 DEF LogOK
  <1> QED BY <1>2, <1>3

(* It is on its way to the client, alone or with the verdict behind it. *)
LEMMA NodeDelivered ==
  ASSUME NEW s, NEW L \in Seq(Event), NEW x \in AllNodes, NEW e \in Event, NEW read, NEW sent,
         Delivered(L, read, sent, <<>>),
         NEW found, found = IF IsMatch(s, x) THEN <<Match(x)>> ELSE <<>>,
         NEW L0, L0 = IF IsMatch(s, x) THEN Append(L, Match(x)) ELSE L
  PROVE  Delivered(L0, read, sent, found) /\ Delivered(Append(L0, e), read, sent, found \o <<e>>)
  <1>1. CASE IsMatch(s, x)
    <2>1. PICK m \in Event : m = Match(x) BY EventKinds
    <2>2. L0 = Append(L, m) /\ found = <<m>> BY <1>1, <2>1
    <2>3. Delivered(Append(L, m), read, sent, <<m>>) BY DeliveredOne
    <2>4. Delivered(Append(Append(L, m), e), read, sent, <<m>> \o <<e>>) BY DeliveredTwo
    <2> QED BY <2>2, <2>3, <2>4
  <1>2. CASE ~IsMatch(s, x)
    <2>1. L0 = L /\ found = <<>> BY <1>2
    <2>2. <<>> \o <<e>> = <<e>> OBVIOUS
    <2>3. Delivered(Append(L, e), read, sent, <<e>>) BY DeliveredOne
    <2> QED BY <2>1, <2>2, <2>3
  <1> QED BY <1>1, <1>2

(* process_node *)
LEMMA VisitNodeOK ==
  ASSUME PagingType, NEW T \in [Tokens -> Places], PagingOK(T), SearchTypes,
         NEW L, NEW D, SearchOK(T, L, D), VisitNode
  PROVE  SearchStepOK(T)
  <1>1. PICK s \in SearchType, n \in Nat, r \in CallType, g \in {Gone}, r1 \in {req'[Searcher]} :
          /\ s = search /\ n = fetches /\ r = req[Searcher] /\ g = Gone /\ r1 = req'[Searcher]
          /\ Stands(T, n, s, r, L, D, g)
    BY SearchNamed
  <1>2. /\ PagingType' /\ PagingOK(T)' /\ fetches' = fetches
        /\ \A d \in Clients : d # Searcher => req'[d] = req[d]
    BY PagingSame DEF VisitNode
  <1>3. s.pc = "nodes" /\ s.outbox = <<>> /\ s.todo # <<>> /\ UNCHANGED <<channel, reader, fetches>>
    BY <1>1, <1>2 DEF VisitNode
  <1>4. /\ L \in Seq(Event) /\ D \in SUBSET Parents /\ TaskOK(T, n, s, r, L, D, g)
        /\ \A t \in 1..n : T[t].offset <= Len(Listing[T[t].parent])
    BY <1>1 DEF Stands
  <1>5. LogOK(s, L) /\ PlaceOK(T, n, s, L, D) BY <1>3, <1>4 DEF TaskOK, Walking
  <1>6. ~Gone => Delivered(L, reader.events, channel, <<>>) BY <1>1, <1>3 DEF SearchOK
  <1>7. search.pc # "closed" BY <1>1, <1>3
  <1>8. PICK x \in AllNodes : x = Head(s.todo)
    BY <1>3, <1>4, <1>5, NextNode
  <1>9. PICK L0, found, m1, h1, c1 :
          /\ L0 = IF IsMatch(s, x) THEN Append(L, Match(x)) ELSE L
          /\ found = IF IsMatch(s, x) THEN <<Match(x)>> ELSE <<>>
          /\ m1 = IF IsMatch(s, x) THEN s.matches + 1 ELSE s.matches
          /\ h1 = IF IsMatch(s, x) THEN s.matched \cup ({ItemOf[x]} \ {NoItem}) ELSE s.matched
          /\ c1 = IF x \in Parents THEN Append(s.scopes, [parent |-> x, refresh |-> FALSE])
                  ELSE s.scopes
    OBVIOUS
  <1>10. PICK e \in Event : /\ e = Completed(FALSE, TRUE) /\ e.kind = "completed"
                            /\ e.complete = FALSE /\ e.truncated = TRUE
    BY EventKinds
  <1>11. /\ found \in Seq(Event) /\ L0 \in Seq(Event)
         /\ \A i \in DOMAIN L0 : L0[i].kind \in {"progress", "match"}
         /\ Cardinality(MatchesIn(L0)) <= s.request.results
    BY <1>4, <1>5, <1>9, NodeReported
  <1>12. ~Gone => /\ Delivered(L0, reader.events, channel, found)
                  /\ Delivered(Append(L0, e), reader.events, channel, found \o <<e>>)
    BY <1>4, <1>6, <1>9, NodeDelivered
  <1>13. PICK s1 : s1 = [s EXCEPT !.todo = Tail(s.todo), !.visited = s.visited + 1, !.matches = m1,
                    !.matched = h1, !.scopes = c1, !.outbox = found]
    OBVIOUS
  <1>14. \/ search' = Over(search, "stop", found \o <<e>>)
         \/ search' = s1 /\ ~(IsMatch(s, x) /\ m1 >= s.request.results)
    BY <1>1, <1>8, <1>9, <1>10, <1>13 DEF VisitNode
  <1>15. CASE search' = Over(search, "stop", found \o <<e>>)
    <2>1. PICK q : q = s.request OBVIOUS
    <2>2. Cardinality(MatchesIn(L0)) <= q.results BY <1>11, <2>1
    <2>3. /\ e.kind \in {"completed", "error"}
          /\ e.kind = "completed" =>
               /\ e.complete => Truthful(q, L0) /\ Whole(q, L0)
               /\ e.truncated <=> ~e.complete
      BY <1>10
    <2>4. Append(L0, e) \in Seq(Event) /\ Settled(q, Append(L0, e))
      BY <1>11, <2>2, <2>3, SettledBy
    <2>5. PICK L1 \in Seq(Event) : L1 = Append(L0, e) BY <2>4, Zenon
    <2>6. PICK out \in Seq(Event) : out = found \o <<e>>
      <3>1. found \o <<e>> \in Seq(Event) BY <1>11
      <3> QED BY <3>1, Zenon
    <2>7. ~Gone => Delivered(L1, reader.events, channel, out) BY <1>12, <2>5, <2>6
    <2>8. search' = Over(search, "stop", out) BY <1>15, <2>6
    <2>9. Settled(q, L1) /\ q = search.request BY <1>1, <2>1, <2>4, <2>5
    <2>10. SearchGoes(T) BY <1>3, <1>7, <2>7, <2>8, <2>9, StopsWith
    <2> QED BY <1>2, <2>10 DEF SearchStepOK
  <1>16. CASE search' = s1 /\ ~(IsMatch(s, x) /\ m1 >= s.request.results)
    <2>1. Visited(s, x, L, L0, m1, h1, c1, found, s1) BY <1>9, <1>13 DEF Visited
    <2>2. m1 < s.request.results
      <3>1. s.request.results \in Nat /\ s.matches \in Nat BY SearchFields
      <3>2. s.matches < s.request.results BY <1>5 DEF LogOK
      <3> QED BY <1>9, <1>16, <3>1, <3>2
    <2>3. \A z : Onward(T, n, s1, z, L0, D, g, found)
      BY <1>3, <1>4, <1>8, <1>11, <2>1, <2>2, NodeVisited
    <2>4. SearchGoes(T) BY <1>1, <1>3, <1>4, <1>7, <1>11, <1>12, <1>16, <2>3, TaskGoes
    <2> QED BY <1>2, <2>4 DEF SearchStepOK
  <1> QED BY <1>14, <1>15, <1>16

-----------------------------------------------------------------------------
(* The client of the search *)

(* The client goes away. *)
LEMMA ReaderGone ==
  ASSUME PagingType, NEW T \in [Tokens -> Places], PagingOK(T), SearchTypes,
         NEW L, NEW D, SearchOK(T, L, D), NEW state \in {"failed", "gone"},
         reader' = [state |-> state, events |-> <<>>], channel' \in Seq(Event),
         UNCHANGED <<fetches, req, search>>
  PROVE  SearchGoes(T)
  <1>1. /\ search \in SearchType /\ L \in Seq(Event) /\ D \in SUBSET Parents
        /\ TaskOK(T, fetches, search, req[Searcher], L, D, Gone)
    BY SearchFacts
  <1>2. reader'.state = state /\ reader'.events = <<>> OBVIOUS
  <1>3. <<>> \in Seq(Event) /\ DOMAIN <<>> = {} BY EmptySeq
  <1>4. SearchTypes'
    <2>1. PICK none \in Seq(Event) : none = <<>> BY <1>3, Zenon
    <2>2. reader' = [state |-> state, events |-> none] BY <2>1
    <2>3. reader' \in ReaderType BY <2>2 DEF ReaderType
    <2> QED BY <1>1, <2>3 DEF SearchTypes
  <1>5. Gone' BY <1>2 DEF Gone
  <1>6. TaskOK(T, fetches, search, req[Searcher], L, D, Gone)'
    BY <1>1, <1>5 DEF TaskOK
  <1>7. SearchOK(T, L, D)' BY <1>1, <1>2, <1>3, <1>5, <1>6 DEF SearchOK
  <1> QED BY <1>4, <1>7 DEF SearchGoes

(* stream.message in cmd_search. *)
LEMMA ReadOK ==
  ASSUME PagingType, NEW T \in [Tokens -> Places], PagingOK(T), SearchTypes,
         NEW L, NEW D, SearchOK(T, L, D), Read
  PROVE  SearchStepOK(T)
  <1>0. /\ PagingType' /\ PagingOK(T)' /\ fetches' = fetches /\ req' = req
        /\ \A d \in Clients : d # Searcher => req'[d] = req[d]
    BY PagingSame DEF Read
  <1>1. /\ search \in SearchType /\ channel \in Seq(Event) /\ reader \in ReaderType
        /\ L \in Seq(Event) /\ D \in SUBSET Parents
        /\ TaskOK(T, fetches, search, req[Searcher], L, D, Gone)
        /\ ~Gone => Delivered(L, reader.events, channel, search.outbox)
    BY SearchFacts
  <1>2. reader.state = "reading" /\ search' = search /\ ~Gone BY DEF Read, Gone
  <1>3. reader.events \in Seq(Event) BY <1>1 DEF ReaderType
  <1>4. CASE channel # <<>> /\ channel' = Tail(channel) /\ Head(channel) = SearchError
             /\ reader' = [state |-> "failed", events |-> <<>>]
    <2>1. channel' \in Seq(Event) BY <1>1, <1>4, HeadTailProperties
    <2>2. PICK state \in {"failed", "gone"} : state = "failed" OBVIOUS
    <2>3. reader' = [state |-> state, events |-> <<>>] BY <1>4, <2>2
    <2>4. SearchGoes(T) BY <1>0, <1>2, <2>1, <2>3, ReaderGone
    <2> QED BY <1>0, <2>4 DEF SearchStepOK
  <1>5. CASE channel # <<>> /\ channel' = Tail(channel) /\ Head(channel) # SearchError
             /\ reader' = [reader EXCEPT !.events = Append(@, Head(channel))]
    <2>1. Head(channel) \in Event /\ channel' \in Seq(Event)
      BY <1>1, <1>5, HeadTailProperties
    <2>2. PICK e \in Event : e = Head(channel) BY <2>1, Zenon
    <2>3. e.kind # "error" BY <1>5, <2>2, EventKinds
    <2>4. PICK read \in Seq(Event) : read = Append(reader.events, e)
      <3>1. Append(reader.events, e) \in Seq(Event) BY <1>3
      <3> QED BY <3>1, Zenon
    <2>5. reader' = [reader EXCEPT !.events = read] BY <1>5, <2>2, <2>4
    <2>6. reader' \in ReaderType /\ reader'.state = "reading" /\ reader'.events = read
      BY <1>1, <1>2, <2>5 DEF ReaderType
    <2>7. ~Gone' BY <2>6 DEF Gone
    <2>8. Delivered(L, read, Tail(channel), search.outbox)
      BY <1>1, <1>2, <1>5, <2>2, <2>4, DeliveredRead
    <2>9. \A i \in DOMAIN read : read[i].kind # "error"
      <3>1. \A i \in DOMAIN reader.events : reader.events[i].kind # "error" BY DEF SearchOK
      <3>2. PICK old \in Seq(Event) : old = reader.events BY <1>3, Zenon
      <3>3. /\ Len(old) \in Nat /\ read[Len(old) + 1] = e /\ \A i \in 1..Len(old) : read[i] = old[i]
            /\ DOMAIN read = 1..(Len(old) + 1) /\ DOMAIN old = 1..Len(old)
        BY <2>4, <3>2, LogAppend
      <3> TAKE i \in DOMAIN read
      <3>4. CASE i \in 1..Len(old) BY <3>1, <3>2, <3>3, <3>4
      <3>5. CASE i = Len(old) + 1 BY <2>3, <3>3, <3>5
      <3> QED BY <3>3, <3>4, <3>5
    <2>10. TaskOK(T, fetches, search, req[Searcher], L, D, Gone)'
      BY <1>0, <1>1, <1>2, <2>7 DEF TaskOK
    <2>11. Delivered(L, reader.events, channel, search.outbox)'
      BY <1>2, <1>5, <2>6, <2>8 DEF Delivered
    <2>12. SearchOK(T, L, D)' BY <1>1, <2>6, <2>7, <2>9, <2>10, <2>11 DEF SearchOK
    <2>13. SearchTypes' BY <1>1, <1>2, <2>1, <2>6 DEF SearchTypes
    <2> QED BY <1>0, <2>12, <2>13 DEF SearchStepOK, SearchGoes
  <1>6. CASE /\ channel = <<>> /\ search.pc = "closed" /\ UNCHANGED channel
             /\ reader' = [reader EXCEPT !.state = "ok"]
    <2>1. reader' \in ReaderType /\ reader'.state = "ok" /\ reader'.events = reader.events
      BY <1>1, <1>6 DEF ReaderType
    <2>2. ~Gone' BY <2>1 DEF Gone
    <2>3. TaskOK(T, fetches, search, req[Searcher], L, D, Gone)'
      BY <1>0, <1>1, <1>2, <2>2 DEF TaskOK
    <2>4. Delivered(L, reader.events, channel, search.outbox)'
      BY <1>1, <1>2, <1>6, <2>1 DEF Delivered
    <2>5. \A i \in DOMAIN reader'.events : reader'.events[i].kind # "error" BY <2>1 DEF SearchOK
    <2>6. SearchOK(T, L, D)' BY <1>1, <1>2, <1>6, <2>1, <2>2, <2>3, <2>4, <2>5 DEF SearchOK
    <2>7. SearchTypes' BY <1>1, <1>2, <1>6, <2>1 DEF SearchTypes
    <2> QED BY <1>0, <2>6, <2>7 DEF SearchStepOK, SearchGoes
  <1> QED BY <1>4, <1>5, <1>6 DEF Read

(* The command is interrupted. *)
LEMMA HangUpOK ==
  ASSUME PagingType, NEW T \in [Tokens -> Places], PagingOK(T), SearchTypes,
         NEW L, NEW D, SearchOK(T, L, D), HangUp
  PROVE  SearchStepOK(T)
  <1>1. /\ PagingType' /\ PagingOK(T)' /\ fetches' = fetches /\ req' = req
        /\ \A d \in Clients : d # Searcher => req'[d] = req[d]
    BY PagingSame DEF HangUp
  <1>2. channel' \in Seq(Event) BY EmptySeq DEF HangUp
  <1>3. PICK state \in {"failed", "gone"} : state = "gone" OBVIOUS
  <1>4. reader' = [state |-> state, events |-> <<>>] /\ search' = search BY <1>3 DEF HangUp
  <1>5. SearchGoes(T) BY <1>1, <1>2, <1>4, ReaderGone
  <1> QED BY <1>1, <1>5 DEF SearchStepOK

-----------------------------------------------------------------------------
(* The composition *)

(* The search while others work. *)
LEMMA SearchAside ==
  ASSUME SearchTypes, NEW T, NEW L, NEW D, SearchOK(T, L, D),
         UNCHANGED <<searchVars, fetches>>, req'[Searcher] = req[Searcher]
  PROVE  SearchGoes(T)
  <1>1. search' = search /\ channel' = channel /\ reader' = reader BY DEF searchVars
  <1>2. SearchTypes' BY <1>1 DEF SearchTypes
  <1>3. Gone' <=> Gone BY <1>1 DEF Gone
  <1>4. TaskOK(T, fetches, search, req[Searcher], L, D, Gone)'
    BY <1>1, <1>3 DEF SearchOK, TaskOK
  <1>5. SearchOK(T, L, D)'
    BY <1>1, <1>3, <1>4 DEF SearchOK, Delivered
  <1> QED BY <1>2, <1>5 DEF SearchGoes

(* The search while the gateway serves a call, its own or another. *)
LEMMA SearchServed ==
  ASSUME PagingType, NEW T \in [Tokens -> Places], PagingOK(T), SearchTypes,
         NEW L, NEW D, SearchOK(T, L, D), NEW c \in Clients, Served(fetches, req[c], req'[c]),
         \A d \in Clients : d # c => req'[d] = req[d], UNCHANGED searchVars,
         fetches <= fetches', fetches' \in Nat, NEW U, Continues(T, U, fetches)
  PROVE  SearchGoes(U)
  <1>1. search' = search /\ channel' = channel /\ reader' = reader BY DEF searchVars
  <1>2. SearchTypes' BY <1>1 DEF SearchTypes
  <1>3. Gone' <=> Gone BY <1>1 DEF Gone
  <1>4. PICK s \in SearchType, n \in Nat, r \in CallType, g \in {Gone}, r1 \in {req'[Searcher]} :
          /\ s = search /\ n = fetches /\ r = req[Searcher] /\ g = Gone /\ r1 = req'[Searcher]
          /\ Stands(T, n, s, r, L, D, g)
    BY SearchNamed
  <1>5. PICK m \in Nat : m = fetches' BY Zenon
  <1>6. n <= m /\ Continues(T, U, n) BY <1>4, <1>5
  <1>7. Served(n, r, r1) \/ r1 = r
    <2>1. Searcher \in Clients BY SearchAssumption
    <2>2. CASE c = Searcher BY <1>4, <2>2
    <2>3. CASE c # Searcher BY <1>4, <2>1, <2>3
    <2> QED BY <2>2, <2>3
  <1>8. TaskOK(T, n, s, r, L, D, g) BY <1>4 DEF Stands
  <1>9. TaskOK(U, m, s, r1, L, D, g) BY <1>6, <1>7, <1>8, TaskServed
  <1>10. TaskOK(U, fetches', search, req'[Searcher], L, D, Gone) BY <1>4, <1>5, <1>9
  <1>11. TaskOK(U, fetches, search, req[Searcher], L, D, Gone)'
    BY <1>1, <1>3, <1>10 DEF TaskOK
  <1>12. SearchOK(U, L, D)'
    BY <1>1, <1>3, <1>11 DEF SearchOK, Delivered
  <1> QED BY <1>2, <1>12 DEF SearchGoes

(* The inductive invariant: some assignment of places to the tokens explains *)
(* every binding, cached page, call, command and the log of the search.      *)
Known(T) == PagingOK(T) /\ CommandsOK(T) /\ \E L, D : SearchOK(T, L, D)
Inv == PagingType /\ SearchTypes /\ \E T \in [Tokens -> Places] : Known(T)

(* A step of the search or of its client, which no command notices. *)
LEMMA SearchInv ==
  ASSUME NEW T \in [Tokens -> Places], CommandsOK(T), SearchStepOK(T), UNCHANGED cmd
  PROVE  Inv'
  <1>1. \A d \in Commands : req'[d] = req[d]
    BY CommandAssumption, ClientsAssumption DEF SearchStepOK
  <1>2. CommandsOK(T)' BY <1>1, CommandsFrame DEF SearchStepOK
  <1>3. Known(T)' BY <1>2 DEF SearchStepOK, SearchGoes, Known
  <1> QED BY <1>3 DEF SearchStepOK, SearchGoes, Inv

(* The invariant at the start. *)
LEMMA InitInv == Init => Inv
  <1> SUFFICES ASSUME Init PROVE Inv
    OBVIOUS
  <1>1. PagingInit /\ CommandInit /\ SearchInit BY DEF Init
  <1>2. PICK T \in [Tokens -> Places] : TRUE
    <2>1. "root" \in Parents BY PagingAssumption
    <2>2. [parent |-> "root", size |-> 0, offset |-> 0] \in Places BY <2>1 DEF Places
    <2>3. [t \in Tokens |-> [parent |-> "root", size |-> 0, offset |-> 0]] \in [Tokens -> Places]
      BY <2>2
    <2> QED BY <2>3
  <1>3. NoRequest \in CallType /\ NoRequest.pc = "none" /\ CallOK(T, 0, NoRequest)
    BY FreshCall, NoRequestType DEF NoRequest
  <1>4. Contents(<<>>) = {} BY DEF Contents
  <1>5. /\ alive = TRUE /\ bound = <<>> /\ cached = <<>> /\ nodes = 0 /\ fetches = 0
        /\ req = [c \in Clients |-> NoRequest]
    BY <1>1 DEF PagingInit
  <1>6. PagingType
    <2>1. <<>> \in Seq(BindingType) /\ <<>> \in Seq(EntryType) BY EmptySeq
    <2>2. 0 \in 0..MaxFetches BY PagingAssumption
    <2> QED BY <1>3, <1>5, <2>1, <2>2 DEF PagingType
  <1>7. PagingOK(T)
    <2>1. \A t \in 1..0 : FALSE OBVIOUS
    <2> QED BY <1>3, <1>4, <1>5, <2>1 DEF PagingOK
  <1>8. CommandsOK(T)
    <2>1. IdleCommand \in CommandType /\ \A r : CommandOK(T, 0, IdleCommand, r) BY IdleOK
    <2> QED BY <1>1, <1>5, <2>1 DEF CommandInit, CommandsOK
  <1>9. PICK q \in Searches : search = NewSearch(q) BY <1>1 DEF SearchInit
  <1>10. PICK s \in SearchType :
           /\ s = search /\ s.request = q /\ s.outbox = <<Progress>> /\ s.pc = "scope"
           /\ s.scopes = <<[parent |-> "root", refresh |-> q.refresh]>>
           /\ s.next = None /\ s.matched = {} /\ s.matches = 0
    BY <1>9, NewSearchType
  <1>11. /\ channel = <<>> /\ reader = [state |-> "reading", events |-> <<>>]
         /\ reader.state = "reading" /\ reader.events = <<>>
    BY <1>1 DEF SearchInit
  <1>12. SearchTypes
    <2>1. <<>> \in Seq(Event) BY EmptySeq
    <2>2. PICK none \in Seq(Event) : none = <<>> BY <2>1, Zenon
    <2>3. reader = [state |-> "reading", events |-> none] BY <1>11, <2>2
    <2>4. reader \in ReaderType BY <2>3 DEF ReaderType
    <2> QED BY <1>10, <1>11, <2>1, <2>4 DEF SearchTypes
  <1>13. PICK L \in Seq(Event) :
           L = <<Progress>> /\ Len(L) = 1 /\ DOMAIN L = {1} /\ L[1].kind = "progress"
    <2>1. Progress \in Event /\ Progress.kind = "progress" BY EventKinds
    <2>2. <<Progress>> \in Seq(Event) /\ Len(<<Progress>>) = 1 /\ <<Progress>>[1] = Progress
      BY <2>1
    <2>3. DOMAIN <<Progress>> = {1} OBVIOUS
    <2> QED BY <2>1, <2>2, <2>3
  <1>14. LogOK(s, L)
    <2>1. MatchesIn(L) = {} BY <1>13 DEF MatchesIn
    <2>2. Items(L) = {} BY <2>1 DEF Items
    <2>3. Cardinality(MatchesIn(L)) = 0 BY <2>1, FS_EmptySet
    <2>4. Truthful(s.request, L) BY <2>1 DEF Truthful
    <2>5. 0 < s.request.results
      <3>1. s.request \in Searches /\ Searches \subseteq [results : Nat \ {0}, visits : Nat \ {0},
               branches : BOOLEAN, temporary : BOOLEAN, refresh : BOOLEAN]
        BY SearchFields, SearchAssumption
      <3> QED BY <3>1
    <2> QED BY <1>10, <1>13, <2>2, <2>3, <2>4, <2>5 DEF LogOK
  <1>15. WalkOK(s, L, {})
    <2>1. PICK scope : scope = [parent |-> "root", refresh |-> q.refresh] OBVIOUS
    <2>2. scope \in Contents(s.scopes) /\ scope.parent = "root"
      BY <1>10, <2>1 DEF Contents
    <2>3. "root" \in Pending(s) BY <2>2 DEF Pending
    <2> QED BY <2>3 DEF WalkOK
  <1>16. PlaceOK(T, 0, s, L, {}) /\ \A r : PageAsked(s, r)
    BY <1>10 DEF PlaceOK, PageAsked
  <1>17. \A r, g : TaskOK(T, 0, s, r, L, {}, g)
    BY <1>10, <1>14, <1>15, <1>16 DEF TaskOK, Walking
  <1>18. Delivered(L, <<>>, <<>>, <<Progress>>)
    <2>1. SubSeq(L, 0 + 1, 0) = <<>> BY <1>13, SliceEmpty
    <2>2. L = SubSeq(L, 0 + 1, 0 + Len(L))
      <3>1. \A i \in 1..Len(L) : L[i] = L[0 + i] BY <1>13
      <3>2. 0 + Len(L) <= Len(L) BY <1>13
      <3> QED BY <3>1, <3>2, IsSlice
    <2>3. 0 + 1 = 1 /\ 0 + Len(L) = 1 BY <1>13
    <2>4. SubSeq(L, 1, 0) = <<>> /\ SubSeq(L, 1, 1) = L BY <2>1, <2>2, <2>3
    <2> QED BY <1>13, <2>3, <2>4 DEF Delivered
  <1>19. ~Gone BY <1>11 DEF Gone
  <1>20. SearchOK(T, L, {})
    BY <1>5, <1>10, <1>11, <1>17, <1>18, <1>19 DEF SearchOK
  <1> QED BY <1>6, <1>7, <1>8, <1>12, <1>20 DEF Inv, Known

(* Every step keeps it. *)
LEMMA NextInv == Inv /\ [Next]_vars => Inv'
  <1> SUFFICES ASSUME PagingType, SearchTypes, NEW T \in [Tokens -> Places], Known(T), [Next]_vars
               PROVE  Inv'
    BY DEF Inv
  <1>1. PagingOK(T) /\ CommandsOK(T) BY DEF Known
  <1>2. PICK L, D : SearchOK(T, L, D) BY DEF Known
  <1>3. Searcher \in Clients /\ Searcher \notin Commands /\ Commands \subseteq Clients
    BY SearchAssumption, CommandAssumption, ClientsAssumption
  <1>4. ASSUME NEW c \in Clients, GatewayStep(c), UNCHANGED <<cmd, searchVars>>
        PROVE  Inv'
    <2>1. /\ PagingType' /\ fetches <= fetches' /\ \A d \in Clients : d # c => req'[d] = req[d]
          /\ \E U : Continues(T, U, fetches) /\ PagingOK(U)'
          /\ Served(fetches, req[c], req'[c])
      BY <1>1, <1>4, GatewayStepOK DEF StepOK
    <2>2. PICK U : Continues(T, U, fetches) /\ PagingOK(U)' BY <2>1
    <2>3. U \in [Tokens -> Places] BY <2>2 DEF Continues
    <2>4. CommandsOK(U)' BY <1>1, <1>4, <2>2, CommandsServed
    <2>5. fetches' \in Nat BY <2>1, PagingAssumption DEF PagingType
    <2>6. SearchGoes(U) BY <1>1, <1>2, <1>4, <2>1, <2>2, <2>5, SearchServed
    <2> QED BY <2>1, <2>2, <2>3, <2>4, <2>6 DEF Inv, Known, SearchGoes
  <1>5. ASSUME NEW c \in Commands, BrowseBegin(c) \/ BrowseAnswer(c) \/ Interrupt(c),
               UNCHANGED searchVars
        PROVE  Inv'
    <2>1. /\ PagingType' /\ PagingOK(T)' /\ CommandsOK(T)'
          /\ \A d \in Clients : d # c => req'[d] = req[d]
      BY <1>1, <1>5, BrowseBeginOK, BrowseAnswerOK, InterruptOK
    <2>2. req'[Searcher] = req[Searcher] BY <1>3, <2>1
    <2>3. fetches' = fetches BY <1>5 DEF BrowseBegin, BrowseAnswer, Interrupt
    <2>4. SearchGoes(T) BY <1>2, <1>5, <2>2, <2>3, SearchAside
    <2> QED BY <2>1, <2>4 DEF Inv, Known, SearchGoes
  <1>6. ASSUME SearchStep, UNCHANGED cmd PROVE Inv'
    <2>1. SearchStepOK(T)
      BY <1>1, <1>2, <1>6, SendOK, NextScopeOK, SearchPageOK, VisitNodeOK, PageDoneOK, NextPageOK,
         VerdictOK, CloseOwnOK DEF SearchStep
    <2> QED BY <1>1, <1>6, <2>1, SearchInv
  <1>7. ASSUME Read \/ HangUp, UNCHANGED cmd PROVE Inv'
    <2>1. SearchStepOK(T) BY <1>1, <1>2, <1>7, ReadOK, HangUpOK
    <2> QED BY <1>1, <1>7, <2>1, SearchInv
  <1>8. ASSUME Vanish, UNCHANGED <<cmd, searchVars>> PROVE Inv'
    <2>1. PagingType' /\ PagingOK(T)' /\ fetches' = fetches /\ req' = req
      BY <1>1, <1>8, VanishOK DEF Vanish
    <2>2. CommandsOK(T)' BY <1>1, <1>8, <2>1, CommandsFrame
    <2>3. SearchGoes(T) BY <1>2, <1>8, <2>1, SearchAside
    <2> QED BY <2>1, <2>2, <2>3 DEF Inv, Known, SearchGoes
  <1>9. ASSUME UNCHANGED vars PROVE Inv'
    <2>1. UNCHANGED <<pagingVars, cmd, searchVars>> BY <1>9 DEF vars
    <2>2. PagingType' /\ PagingOK(T)' /\ fetches' = fetches /\ req' = req
      BY <1>1, <2>1, PagingSame
    <2>3. CommandsOK(T)' BY <1>1, <2>1, <2>2, CommandsFrame
    <2>4. SearchGoes(T) BY <1>2, <2>1, <2>2, SearchAside
    <2> QED BY <2>2, <2>3, <2>4 DEF Inv, Known, SearchGoes
  <1> QED BY <1>4, <1>5, <1>6, <1>7, <1>8, <1>9 DEF Next

-----------------------------------------------------------------------------
(* The properties *)

(* The rows of every command. *)
LEMMA InvRows == Inv => PrintedIsPrefix /\ RefreshIsFresh
  <1> SUFFICES ASSUME NEW T, CommandsOK(T), NEW c \in Commands
               PROVE  LET k == cmd[c] IN
                      /\ k.rows = SubSeq(Listing["root"], 1, Len(k.rows))
                      /\ k.pc = "printed" /\ k.complete => k.rows = Listing["root"]
                      /\ k.all => /\ Len(k.rows) <= k.cap
                                  /\ k.pc = "printed" => k.complete \/ Len(k.rows) = k.cap
                      /\ k.refresh /\ k.rows # <<>> => k.oldest > k.since
    BY DEF Inv, Known, PrintedIsPrefix, RefreshIsFresh
  <1>1. PICK k \in CommandType : k = cmd[c] /\ RowsOK(k)
    BY DEF CommandsOK, CommandOK
  <1>2. k.oldest \in Nat /\ k.since \in Nat BY TokenType DEF CommandType
  <1> QED BY <1>1, <1>2 DEF RowsOK

(* The log of a search that has come to its verdict is what the property     *)
(* asks for.                                                                 *)
LEMMA SettledLog ==
  ASSUME NEW L \in Seq(Event), L[Len(L)].complete,
         Truthful(search.request, L), Whole(search.request, L)
  PROVE  WholeAndOnce(L)
  <1>1. \A n : Asked(search.request, n) <=> Wanted(n) BY DEF Asked, Wanted
  <1>2. {ItemOf[L[i].node] : i \in MatchesIn(L)} = {ItemOf[n] : n \in {m \in AllNodes : Wanted(m)}}
    BY <1>1 DEF Whole, Items, Item
  <1>3. \A i, j \in MatchesIn(L) :
          ItemOf[L[i].node] = ItemOf[L[j].node] /\ i # j => ItemOf[L[i].node] = NoItem
    BY DEF Truthful, Item
  <1> QED BY <1>2, <1>3 DEF WholeAndOnce

(* What the client of a search has read. *)
LEMMA InvSearch == Inv => CompleteSearchIsWhole
  <1> SUFFICES ASSUME PagingType, SearchTypes, NEW T \in [Tokens -> Places], Known(T)
               PROVE  CompleteSearchIsWhole
    BY DEF Inv
  <1>1. PagingOK(T) BY DEF Known
  <1>2. PICK L, D : SearchOK(T, L, D) BY DEF Known
  <1>3. PICK s \in SearchType, n \in Nat, r \in CallType, g \in {Gone}, r1 \in {req'[Searcher]} :
          /\ s = search /\ n = fetches /\ r = req[Searcher] /\ g = Gone /\ r1 = req'[Searcher]
          /\ Stands(T, n, s, r, L, D, g)
    BY <1>1, <1>2, SearchNamed
  <1>4. L \in Seq(Event) /\ TaskOK(T, n, s, r, L, D, g) BY <1>3 DEF Stands
  <1>5. s.request.results \in Nat BY SearchFields
  <1>6. PICK read \in Seq(Event) : read = reader.events BY DEF SearchTypes, ReaderType
  <1>7. ~Gone => /\ Cardinality(MatchesIn(read)) <= Cardinality(MatchesIn(L))
                 /\ channel = <<>> /\ search.outbox = <<>> => read = L
    BY <1>2, <1>4, <1>6, DeliveredPrefix DEF SearchOK
  <1>8. Cardinality(MatchesIn(read)) <= search.request.results
    <2>1. CASE Gone
      <3>1. read = <<>> BY <1>2, <1>6, <2>1 DEF SearchOK
      <3>2. MatchesIn(read) = {} BY <3>1 DEF MatchesIn
      <3>3. Cardinality(MatchesIn(read)) = 0 BY <3>2, FS_EmptySet
      <3> QED BY <1>3, <1>5, <3>3
    <2>2. CASE ~Gone
      <3>1. Cardinality(MatchesIn(L)) <= s.request.results
        <4>1. CASE s.pc \in Walking
          <5>1. LogOK(s, L) BY <1>4, <4>1 DEF TaskOK
          <5> QED BY <1>4, <1>5, <5>1, MatchesFinite DEF LogOK
        <4>2. CASE s.pc \notin Walking
          BY <1>3, <1>4, <2>2, <4>2 DEF TaskOK, Settled
        <4> QED BY <4>1, <4>2
      <3>2. Cardinality(MatchesIn(L)) \in Nat /\ Cardinality(MatchesIn(read)) \in Nat
        BY <1>4, MatchesFinite
      <3> QED BY <1>3, <1>5, <1>7, <2>2, <3>1, <3>2
    <2> QED BY <2>1, <2>2
  <1>9. ASSUME reader.state = "ok"
        PROVE  /\ LastEvent.kind = "completed"
               /\ \A i \in 1..(Len(reader.events) - 1) : reader.events[i].kind # "completed"
               /\ LastEvent.complete => WholeAndOnce(reader.events)
               /\ LastEvent.truncated <=> ~LastEvent.complete
    <2>1. ~Gone BY <1>9 DEF Gone
    <2>2. channel = <<>> /\ search.pc = "closed" BY <1>2, <1>9 DEF SearchOK
    <2>3. search.outbox = <<>> BY <1>3, <1>4, <2>2 DEF TaskOK
    <2>4. reader.events = L BY <1>6, <1>7, <2>1, <2>2, <2>3
    <2>5. Settled(search.request, L) BY <1>3, <1>4, <2>1, <2>2 DEF TaskOK, Walking
    <2>6. L[Len(L)].kind # "error"
      <3>1. Len(L) \in DOMAIN L
        <4>1. L # <<>> BY <2>5 DEF Settled
        <4>2. Len(L) \in Nat /\ Len(L) # 0 /\ DOMAIN L = 1..Len(L)
          BY <1>4, <4>1, LenProperties, EmptySeq
        <4> QED BY <4>2
      <3> QED BY <1>2, <2>4, <3>1 DEF SearchOK
    <2>7. L[Len(L)].kind = "completed" BY <2>5, <2>6 DEF Settled
    <2>8. \A i \in 1..(Len(L) - 1) : L[i].kind # "completed" BY <2>5 DEF Settled
    <2>9. /\ L[Len(L)].complete => Truthful(search.request, L) /\ Whole(search.request, L)
          /\ L[Len(L)].truncated <=> ~L[Len(L)].complete
      BY <2>5, <2>7 DEF Settled
    <2>10. L[Len(L)].complete => WholeAndOnce(L) BY <1>4, <2>9, SettledLog
    <2> QED BY <2>4, <2>7, <2>8, <2>9, <2>10 DEF LastEvent
  <1> QED BY <1>6, <1>8, <1>9 DEF CompleteSearchIsWhole

(* The invariant holds in every reachable state. *)
LEMMA Invariance == Spec => []Inv
  BY InitInv, NextInv, PTL DEF Spec

(* cmd_browse prints a part of one listing without gap or repetition, all of *)
(* it if it says so, and --all stops at its cap: for every namespace, page   *)
(* size, cache size and number of clients of the session.                    *)
THEOREM PrintedRowsAreAPrefix == Spec => []PrintedIsPrefix
  BY Invariance, InvRows, PTL

(* With --refresh, cmd_browse shows only pages fetched from the OPC server   *)
(* after it began, although its later requests may be served from the cache. *)
THEOREM RefreshesAreFresh == Spec => []RefreshIsFresh
  BY Invariance, InvRows, PTL

(* The verdict of a live search is true: a complete one has reported every   *)
(* item asked for once, a search cut short says so, and max_results is kept. *)
THEOREM CompleteSearchesAreWhole == Spec => []CompleteSearchIsWhole
  BY Invariance, InvSearch, PTL
=============================================================================
