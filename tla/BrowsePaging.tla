---------------------------- MODULE BrowsePaging ----------------------------
(***************************************************************************)
(* The pages of one browse session: continuation tokens, what each is      *)
(* bound to, the page cache, and calls of several clients that overlap.    *)
(*                                                                         *)
(* Code: crates/opcda-bridge-gateway/src/browse.rs (Session and            *)
(* browse_existing), opc_da_adapter.rs (browse_page).                      *)
(*                                                                         *)
(* BrowseSessions asks which session lives how long and leaves the tokens  *)
(* out; here there is one session, and it may vanish at any moment.  The   *)
(* number of a native fetch stands for the fresh tokens of its page.  A    *)
(* node and its key are one: only a search descends below the root.        *)
(***************************************************************************)
EXTENDS Naturals, Sequences

CONSTANTS
  Clients,      \* tasks that ask for pages
  Parents,      \* "root" and the nodes one can expand
  Listing,      \* the native children of each parent, in order
  Sizes,        \* page sizes asked for
  MaxBound,     \* MAX_PAGE_BINDINGS_PER_SESSION
  MaxCached,    \* MAX_CACHED_PAGES_PER_SESSION
  MaxNodes,     \* MAX_NODE_BINDINGS_PER_SESSION
  MaxFetches,   \* bound on the native calls that succeed
  NoClient

VARIABLES
  alive,     \* the session is in the map
  bound,     \* page_bindings, in the order of page_binding_order
  cached,    \* pages, in the order of page_order
  nodes,     \* number of node_bindings
  lock,      \* holder of operation_lock
  fetches,   \* native pages fetched so far
  req        \* the call each client has in flight, and its answer

pagingVars == <<alive, bound, cached, nodes, lock, fetches, req>>

None == 0
Tokens == 1..MaxFetches
NoPage == [nodes |-> <<>>, next |-> None, complete |-> TRUE, fetch |-> None]
NoRequest == [pc |-> "none", parent |-> "root", token |-> None, size |-> 1,
              refresh |-> FALSE, offset |-> 0, page |-> NoPage]

Contents(s) == {s[i] : i \in DOMAIN s}
Drop(s, n) == SubSeq(s, n + 1, Len(s))
Newest(s, n) == IF Len(s) > n THEN Drop(s, Len(s) - n) ELSE s
Least(m, n) == IF m < n THEN m ELSE n
AllNodes == UNION {Contents(Listing[p]) : p \in Parents}

ASSUME PagingAssumption ==
  /\ MaxBound \in Nat \ {0} /\ MaxCached \in Nat \ {0}
  /\ MaxNodes \in Nat /\ MaxFetches \in Nat
  /\ Sizes \subseteq Nat \ {0} /\ NoClient \notin Clients
  /\ "root" \in Parents /\ \A p \in Parents : Listing[p] \in Seq(AllNodes)

PagingTypeOK ==
  /\ alive \in BOOLEAN /\ nodes \in 0..MaxNodes /\ fetches \in 0..MaxFetches
  /\ lock \in Clients \cup {NoClient}
  /\ Len(bound) <= MaxBound /\ Len(cached) <= MaxCached
  /\ \A b \in Contents(bound) :
       /\ b.token \in Tokens /\ b.parent \in Parents /\ b.size \in Nat
       /\ b.offset \in 0..Len(Listing[b.parent])
  /\ \A c \in Clients :
       /\ req[c].pc \in {"none", "lookup", "await", "native", "store", "page", "error"}
       /\ Contents(req[c].page.nodes) \subseteq AllNodes

PagingInit ==
  /\ alive = TRUE /\ bound = <<>> /\ cached = <<>> /\ nodes = 0
  /\ lock = NoClient /\ fetches = 0
  /\ req = [c \in Clients |-> NoRequest]

-----------------------------------------------------------------------------
PageKeyParent(r) == [parent |-> r.parent, token |-> None, size |-> r.size]
                                                  \* mutant of PageKey

(* PageKey: what the answer to a request is cached under. *)
PageKey(r) == [parent |-> r.parent, token |-> r.token, size |-> r.size]

Hits(r) == {e \in Contents(cached) : e.key = PageKey(r)}

(* retain: the elements of s that are in K, in their order. *)
Retain(s, K) ==
  LET kept[i \in 0..Len(s)] ==
        IF i = 0 THEN <<>>
        ELSE IF s[i] \in K THEN Append(kept[i - 1], s[i]) ELSE kept[i - 1]
  IN kept[Len(s)]

(* cache_page *)
CachePage(r, page) ==
  Newest(Append(Retain(cached, {e \in Contents(cached) : e.key # PageKey(r)}),
                [key |-> PageKey(r), page |-> page]), MaxCached)

(* bind_page *)
BindPage(r, page) ==
  IF page.next = None THEN bound
  ELSE Newest(Append(bound, [token |-> page.next, parent |-> r.parent, size |-> r.size,
                             offset |-> r.offset + Len(page.nodes)]), MaxBound)

(* invalidate_parent *)
InvalidateParent(p) ==
  /\ cached' = Retain(cached, {e \in Contents(cached) : e.key.parent # p})
  /\ bound' = Retain(bound, {b \in Contents(bound) : b.parent # p})

(* A page token is honoured for the parent and the page size it was made for. *)
Bindings(r) ==
  {b \in Contents(bound) : b.token = r.token /\ b.size = r.size /\ b.parent = r.parent}

Offset(r) == IF r.token = None THEN 0 ELSE (CHOOSE b \in Bindings(r) : TRUE).offset

-----------------------------------------------------------------------------
(* A client asks for a page.  A refresh never carries a token. *)
Ask(c, parent, token, size, refresh) ==
  req' = [req EXCEPT ![c] = [NoRequest EXCEPT !.pc = "lookup", !.parent = parent,
                               !.token = token, !.size = size, !.refresh = refresh]]

Take(c) == req' = [req EXCEPT ![c] = NoRequest]

Answered(c) == req[c].pc \in {"page", "error"}

Fail(c) == req' = [req EXCEPT ![c] = [NoRequest EXCEPT !.pc = "error"]]
Answer(c, page) == req' = [req EXCEPT ![c].pc = "page", ![c].page = page]

(* The part of browse_existing before the operation lock: the session, the   *)
(* token, the cache.                                                         *)
Lookup(c) ==
  LET r == req[c] IN
  /\ r.pc = "lookup"
  /\ \/ /\ ~alive \/ (r.token # None /\ Bindings(r) = {})
        /\ Fail(c) /\ UNCHANGED <<bound, cached>>
     \/ /\ alive /\ (r.token # None => Bindings(r) # {}) /\ r.refresh
        /\ InvalidateParent(r.parent)
        /\ req' = [req EXCEPT ![c].pc = "await"]
     \/ /\ alive /\ (r.token # None => Bindings(r) # {}) /\ ~r.refresh
        /\ IF Hits(r) # {} THEN Answer(c, (CHOOSE e \in Hits(r) : TRUE).page)
           ELSE req' = [req EXCEPT ![c].pc = "await", ![c].offset = Offset(r)]
        /\ UNCHANGED <<bound, cached>>
  /\ UNCHANGED <<alive, nodes, lock, fetches>>

RecheckTakesCached(c) ==                          \* mutant of Recheck
  LET r == req[c] IN
  /\ r.pc = "await" /\ lock = NoClient
  /\ \/ ~alive /\ Fail(c) /\ UNCHANGED lock
     \/ alive /\ Hits(r) # {} /\ Answer(c, (CHOOSE e \in Hits(r) : TRUE).page) /\ UNCHANGED lock
     \/ /\ alive /\ Hits(r) = {}
        /\ req' = [req EXCEPT ![c].pc = "native"] /\ lock' = c
  /\ UNCHANGED <<alive, bound, cached, nodes, fetches>>

(* The operation lock is taken and the session and the cache are looked at   *)
(* again; a refresh does not look at the cache.                              *)
Recheck(c) ==
  LET r == req[c] IN
  /\ r.pc = "await" /\ lock = NoClient
  /\ \/ ~alive /\ Fail(c) /\ UNCHANGED lock
     \/ /\ alive /\ ~r.refresh /\ Hits(r) # {}
        /\ Answer(c, (CHOOSE e \in Hits(r) : TRUE).page) /\ UNCHANGED lock
     \/ /\ alive /\ (r.refresh \/ Hits(r) = {})
        /\ req' = [req EXCEPT ![c].pc = "native"] /\ lock' = c
  /\ UNCHANGED <<alive, bound, cached, nodes, fetches>>

(* The OPC server returns the next `size` children of the cursor, with a     *)
(* continuation if some are left, and perhaps with one when none is.         *)
NativePages(r) ==
  LET rest == Drop(Listing[r.parent], r.offset) IN
  {[nodes |-> SubSeq(rest, 1, Least(r.size, Len(rest))), next |-> next,
    complete |-> complete, fetch |-> fetches + 1] :
      next \in {fetches + 1} \cup (IF Len(rest) > r.size THEN {} ELSE {None}),
      complete \in BOOLEAN}

NativeBrowse(c) ==
  LET r == req[c] IN
  /\ r.pc = "native"
  /\ \/ /\ fetches < MaxFetches /\ fetches' = fetches + 1
        /\ \E page \in NativePages(r) :
             req' = [req EXCEPT ![c].pc = "store", ![c].page = page]
        /\ UNCHANGED lock
     \/ Fail(c) /\ lock' = NoClient /\ UNCHANGED fetches
  /\ UNCHANGED <<alive, bound, cached, nodes>>

(* A page is complete exactly if nothing continues it. *)
Consistent(page) == page.complete <=> (page.next = None)

StoreKeepsLock(c) ==                              \* mutant of Store
  LET r == req[c]
      kept == alive /\ Consistent(r.page) /\ nodes + Len(r.page.nodes) <= MaxNodes IN
  /\ r.pc = "store"
  /\ \/ ~kept /\ Fail(c) /\ UNCHANGED <<bound, cached, nodes, lock>>
     \/ /\ kept /\ Answer(c, r.page) /\ lock' = NoClient
        /\ nodes' = nodes + Len(r.page.nodes)
        /\ bound' = BindPage(r, r.page) /\ cached' = CachePage(r, r.page)
  /\ UNCHANGED <<alive, fetches>>

(* The part of browse_existing after the native call. *)
Store(c) ==
  LET r == req[c]
      kept == alive /\ Consistent(r.page) /\ nodes + Len(r.page.nodes) <= MaxNodes IN
  /\ r.pc = "store" /\ lock' = NoClient
  /\ \/ ~kept /\ Fail(c) /\ UNCHANGED <<bound, cached, nodes>>
     \/ /\ kept /\ Answer(c, r.page)
        /\ nodes' = nodes + Len(r.page.nodes)
        /\ bound' = BindPage(r, r.page) /\ cached' = CachePage(r, r.page)
  /\ UNCHANGED <<alive, fetches>>

(* The session expires, whatever is in flight, or somebody closes it. *)
Vanish ==
  /\ alive /\ alive' = FALSE /\ bound' = <<>> /\ cached' = <<>> /\ nodes' = 0
  /\ UNCHANGED <<lock, fetches, req>>

GatewayStep(c) == Lookup(c) \/ Recheck(c) \/ NativeBrowse(c) \/ Store(c)
=============================================================================
