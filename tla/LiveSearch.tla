----------------------------- MODULE LiveSearch -----------------------------
(***************************************************************************)
(* A live search: the task that walks the namespace breadth first and      *)
(* sends events through a bounded channel, and the command that reads them.*)
(*                                                                         *)
(* Code: crates/opcda-bridge-gateway/src/server/search.rs, service.rs      *)
(* (search), crates/opcda-bridge/src/client.rs (SearchStream) and          *)
(* crates/opcda-bridge-client/src/commands/search.rs (cmd_search).         *)
(*                                                                         *)
(* Matching of names is a set of nodes; breadcrumbs and the numbers of a   *)
(* progress event are left out.                                            *)
(***************************************************************************)
EXTENDS BrowsePaging, FiniteSets

CONSTANTS
  Searcher,         \* the client that is the search task
  Matching,         \* nodes whose name or item matches the query
  ItemOf,           \* ItemID of a node; nodes of two branches may share one
  NoItem,
  SearchPageSize,   \* DEFAULT_PAGE_SIZE of the gateway
  Searches,         \* requests: result limit, visit limit (MAX_SEARCH_VISITED),
                    \* include_branches, own session, refresh
  ChannelSize       \* capacity of the channel

ASSUME SearchAssumption ==
  /\ Searcher \in Clients /\ ChannelSize \in Nat \ {0} /\ SearchPageSize \in Nat \ {0}
  /\ Searches \subseteq [results : Nat \ {0}, visits : Nat \ {0}, branches : BOOLEAN,
                          temporary : BOOLEAN, refresh : BOOLEAN]

(* The namespace is what a client can reach by expanding nodes. *)
ASSUME NamespaceAssumption ==
  \A S \in SUBSET Parents :
    "root" \in S /\ (\A p \in S : Contents(Listing[p]) \cap Parents \subseteq S)
      => S = Parents

VARIABLES
  search,     \* the task: program counter and SearchContext
  channel,    \* events sent and not yet read
  reader      \* the command at the other end: state, and the events it read

searchVars == <<search, channel, reader>>

(* outbox: the events the task is about to send, one await after the other.  *)
NewSearch(r) ==
  [pc |-> "scope", scopes |-> <<[parent |-> "root", refresh |-> r.refresh]>>,
   parent |-> "root", todo |-> <<>>, next |-> None, matched |-> {}, matches |-> 0,
   visited |-> 0, outbox |-> <<[kind |-> "progress"]>>, request |-> r]

(* SearchContext is dropped at the end. *)
Over(s, pc, outbox) ==
  [NewSearch(s.request) EXCEPT !.pc = pc, !.scopes = <<>>, !.outbox = outbox]

Match(n) == [kind |-> "match", node |-> n]
Progress == [kind |-> "progress"]
Completed(complete, truncated) ==
  [kind |-> "completed", complete |-> complete, truncated |-> truncated]
SearchError == [kind |-> "error"]

SearchTypeOK ==
  /\ search.pc \in {"scope", "page", "nodes", "turn", "stop", "close", "closed"}
  /\ Len(channel) <= ChannelSize /\ search.next \in {None} \cup Tokens
  /\ search.matches \in Nat /\ search.visited \in Nat
  /\ reader.state \in {"reading", "ok", "failed", "gone"}

(* The task starts with a session of its own or with one it is given. *)
SearchInit ==
  /\ \E r \in Searches : search = NewSearch(r)
  /\ channel = <<>> /\ reader = [state |-> "reading", events |-> <<>>]

Gone == reader.state \in {"gone", "failed"}

-----------------------------------------------------------------------------
(* tx.send: waits for room, fails once the receiver is dropped.  A search    *)
(* that cannot send stops.                                                   *)
Send ==
  /\ search.outbox # <<>>
  /\ \/ /\ ~Gone /\ Len(channel) < ChannelSize
        /\ channel' = Append(channel, Head(search.outbox))
        /\ search' = [search EXCEPT !.outbox = Tail(@)]
     \/ /\ Gone /\ UNCHANGED channel
        /\ search' = Over(search, "close", <<>>)
  /\ UNCHANGED <<pagingVars, reader>>

(* process_scope: the first page of the next scope; only the first one of    *)
(* all is refreshed.  Without another scope the search is complete.          *)
NextScope ==
  /\ search.pc = "scope" /\ search.outbox = <<>>
  /\ \/ /\ search.scopes # <<>>
        /\ LET scope == Head(search.scopes) IN
             /\ Ask(Searcher, scope.parent, None, SearchPageSize, scope.refresh)
             /\ search' = [search EXCEPT !.pc = "page", !.scopes = Tail(@),
                             !.parent = scope.parent]
     \/ /\ search.scopes = <<>> /\ UNCHANGED req
        /\ search' = Over(search, "stop", <<Completed(TRUE, FALSE)>>)
  /\ UNCHANGED <<alive, bound, cached, nodes, lock, fetches, channel, reader>>

(* An error of browse is sent and ends the search. *)
SearchPage ==
  /\ search.pc = "page" /\ Answered(Searcher)
  /\ search' = IF req[Searcher].pc = "error"
               THEN Over(search, "stop", <<SearchError>>)
               ELSE [search EXCEPT !.pc = "nodes", !.todo = req[Searcher].page.nodes,
                                   !.next = req[Searcher].page.next]
  /\ Take(Searcher)
  /\ UNCHANGED <<alive, bound, cached, nodes, lock, fetches, channel, reader>>

IsMatchAgain(s, n) ==                             \* mutant of IsMatch
  n \in Matching /\ (ItemOf[n] # NoItem \/ s.request.branches)

(* match_node: each item counts once; a branch without an item only if       *)
(* branches are asked for, and as often as it is met.                        *)
IsMatch(s, n) ==
  /\ n \in Matching
  /\ \/ ItemOf[n] # NoItem /\ ItemOf[n] \notin s.matched
     \/ ItemOf[n] = NoItem /\ s.request.branches

(* process_node.  A limit that is reached is reported and ends the search.   *)
VisitNode ==
  LET n == Head(search.todo)
      hit == IsMatch(search, n)
      matches == IF hit THEN search.matches + 1 ELSE search.matches
      full == hit /\ matches >= search.request.results
      tired == search.visited + 1 >= search.request.visits
      found == IF hit THEN <<Match(n)>> ELSE <<>>
      halt == IF full \/ tired THEN <<Completed(FALSE, TRUE)>> ELSE <<>>
  IN
  /\ search.pc = "nodes" /\ search.outbox = <<>> /\ search.todo # <<>>
  /\ search' = IF halt # <<>> THEN Over(search, "stop", found \o halt)
               ELSE [search EXCEPT
                 !.todo = Tail(@), !.visited = @ + 1, !.matches = matches,
                 !.matched = IF hit THEN @ \cup ({ItemOf[n]} \ {NoItem}) ELSE @,
                 !.scopes = IF n \in Parents
                            THEN Append(@, [parent |-> n, refresh |-> FALSE]) ELSE @,
                 !.outbox = found]
  /\ UNCHANGED <<pagingVars, channel, reader>>

(* process_page ends with a progress event, process_scope goes on with the   *)
(* continuation of the page or ends.  pc "turn": the event is to be sent.    *)
PageDone ==
  /\ search.pc = "nodes" /\ search.outbox = <<>> /\ search.todo = <<>>
  /\ search' = [search EXCEPT !.outbox = <<Progress>>, !.pc = "turn"]
  /\ UNCHANGED <<pagingVars, channel, reader>>

NextPage ==
  /\ search.pc = "turn" /\ search.outbox = <<>>
  /\ IF search.next = None
     THEN search' = [search EXCEPT !.pc = "scope"] /\ UNCHANGED req
     ELSE /\ Ask(Searcher, search.parent, search.next, SearchPageSize, FALSE)
          /\ search' = [search EXCEPT !.pc = "page"]
  /\ UNCHANGED <<alive, bound, cached, nodes, lock, fetches, channel, reader>>

(* run_search: the verdict is sent, then a session of its own is closed, and *)
(* with the task the sender goes away.                                       *)
Verdict ==
  /\ search.pc = "stop" /\ search.outbox = <<>>
  /\ search' = [search EXCEPT !.pc = "close"]
  /\ UNCHANGED <<pagingVars, channel, reader>>

CloseUnlessGone ==                                \* mutant of CloseOwn
  /\ search.pc = "close"
  /\ \/ /\ search.request.temporary /\ alive /\ lock = NoClient /\ ~Gone
        /\ alive' = FALSE /\ bound' = <<>> /\ cached' = <<>> /\ nodes' = 0
     \/ /\ ~(search.request.temporary /\ alive /\ ~Gone) /\ UNCHANGED <<alive, bound, cached, nodes>>
  /\ search' = [search EXCEPT !.pc = "closed"]
  /\ UNCHANGED <<lock, fetches, req, channel, reader>>

CloseOwn ==
  /\ search.pc = "close"
  /\ \/ /\ search.request.temporary /\ alive /\ lock = NoClient
        /\ alive' = FALSE /\ bound' = <<>> /\ cached' = <<>> /\ nodes' = 0
     \/ /\ ~(search.request.temporary /\ alive) /\ UNCHANGED <<alive, bound, cached, nodes>>
  /\ search' = [search EXCEPT !.pc = "closed"]
  /\ UNCHANGED <<lock, fetches, req, channel, reader>>

(* stream.message in cmd_search: an event, an error, or the end. *)
Read ==
  /\ reader.state = "reading"
  /\ \/ /\ channel # <<>> /\ channel' = Tail(channel)
        /\ reader' = IF Head(channel) = SearchError THEN [state |-> "failed", events |-> <<>>]
                     ELSE [reader EXCEPT !.events = Append(@, Head(channel))]
     \/ /\ channel = <<>> /\ search.pc = "closed" /\ UNCHANGED channel
        /\ reader' = [reader EXCEPT !.state = "ok"]
  /\ UNCHANGED <<pagingVars, search>>

(* The command is interrupted and its stream dropped. *)
HangUp ==
  /\ reader.state = "reading" /\ reader' = [state |-> "gone", events |-> <<>>]
  /\ channel' = <<>>
  /\ UNCHANGED <<pagingVars, search>>

SearchStep ==
  Send \/ NextScope \/ SearchPage \/ VisitNode \/ PageDone \/ NextPage \/ Verdict \/ CloseOwn

-----------------------------------------------------------------------------
MatchesIn(events) == {i \in DOMAIN events : events[i].kind = "match"}
Wanted(n) == n \in Matching /\ (ItemOf[n] # NoItem \/ search.request.branches)
LastEvent == reader.events[Len(reader.events)]

(* A complete search reported every matching item of the namespace, once     *)
(* even where two branches hold it.                                          *)
WholeAndOnce(events) ==
  LET found == MatchesIn(events)
      item(i) == ItemOf[events[i].node] IN
  /\ {item(i) : i \in found} = {ItemOf[n] : n \in {m \in AllNodes : Wanted(m)}}
  /\ \A i, j \in found : item(i) = item(j) /\ i # j => item(i) = NoItem

(* A command that ends without an error has read one verdict, as the last    *)
(* event, and the verdict is true: complete means that nothing is missing,   *)
(* a search that was cut short says so, and max_results is never exceeded.   *)
CompleteSearchIsWhole ==
  /\ Cardinality(MatchesIn(reader.events)) <= search.request.results
  /\ reader.state = "ok" =>
       /\ LastEvent.kind = "completed"
       /\ \A i \in 1..(Len(reader.events) - 1) : reader.events[i].kind # "completed"
       /\ LastEvent.complete => WholeAndOnce(reader.events)
       /\ LastEvent.truncated <=> ~LastEvent.complete

(* "Dropping this value drops the underlying gRPC stream, allowing the       *)
(* gateway to stop scheduling further search work": a search whose client is *)
(* gone ends, wherever it was, and closes the session it opened for itself.  *)
AbandonedSearchEnds ==
  Gone ~> search.pc = "closed" /\ (search.request.temporary => ~alive)
=============================================================================
