---------------------------- MODULE BrowseCommand ----------------------------
(***************************************************************************)
(* The browse command of the client: one page, or with --all page after    *)
(* page until the listing is complete or the safety cap is reached.        *)
(*                                                                         *)
(* Code: crates/opcda-bridge-client/src/commands/browse.rs (cmd_browse) on *)
(* crates/opcda-bridge/src/client.rs (browse_page) and                     *)
(* types/conversions.rs (BrowsePage).                                      *)
(***************************************************************************)
EXTENDS BrowsePaging

CONSTANTS
  Commands,     \* the clients that are browse commands
  Caps          \* values of --max-results

ASSUME CommandAssumption == Commands \subseteq Clients /\ Caps \subseteq Nat \ {0}

(* since: the native fetches made before a refreshing command began; oldest: *)
(* the first of those it shows. *)
VARIABLE cmd

IdleCommand == [pc |-> "idle", all |-> FALSE, size |-> 1, cap |-> 1, refresh |-> FALSE,
                rows |-> <<>>, next |-> None, complete |-> FALSE, oldest |-> MaxFetches,
                since |-> 0]

Failed == [IdleCommand EXCEPT !.pc = "failed"]

CommandTypeOK ==
  \A c \in Commands :
    /\ cmd[c].pc \in {"idle", "asking", "printed", "failed"}
    /\ Contents(cmd[c].rows) \subseteq AllNodes
    /\ cmd[c].next \in {None} \cup Tokens

CommandInit == cmd = [c \in Commands |-> IdleCommand]

-----------------------------------------------------------------------------
(* page_size.min(max_results) first, page_size.min(remaining) then. *)
RequestSize(k) == IF k.all THEN Least(k.size, k.cap - Len(k.rows)) ELSE k.size

BrowseBegin(c) ==
  /\ cmd[c].pc = "idle"
  /\ \E all \in BOOLEAN, size \in Sizes, cap \in Caps, refresh \in BOOLEAN :
       LET k == [IdleCommand EXCEPT !.pc = "asking", !.all = all, !.size = size,
                   !.cap = IF all THEN cap ELSE @, !.refresh = refresh,
                   !.since = IF refresh THEN fetches ELSE 0]
       IN /\ cmd' = [cmd EXCEPT ![c] = k]
          /\ Ask(c, "root", None, RequestSize(k), refresh)
  /\ UNCHANGED <<alive, bound, cached, nodes, lock, fetches>>

(* ensure_page_bound *)
PageBound(k, page) ==
  /\ Len(page.nodes) <= RequestSize(k)
  /\ ~(~page.complete /\ page.nodes = <<>>)

(* should_fetch_browse_page; at the cap a warning is printed with the rows. *)
FetchMore(k) == k.all /\ ~k.complete /\ Len(k.rows) < k.cap

Extend(k, page) ==
  [k EXCEPT !.rows = @ \o page.nodes, !.next = page.next, !.complete = page.complete,
            !.oldest = IF k.refresh THEN Least(@, page.fetch) ELSE @]

(* The client library refuses a page that contradicts itself. *)
BrowseAnswer(c) ==
  LET k == cmd[c]
      page == req[c].page
      more == Extend(k, page) IN
  /\ k.pc = "asking" /\ Answered(c)
  /\ \/ /\ req[c].pc = "error" \/ ~Consistent(page) \/ ~PageBound(k, page)
        /\ cmd' = [cmd EXCEPT ![c] = Failed] /\ Take(c)
     \/ /\ req[c].pc = "page" /\ Consistent(page) /\ PageBound(k, page)
        /\ IF FetchMore(more)
           THEN /\ cmd' = [cmd EXCEPT ![c] = more]
                /\ Ask(c, "root", more.next, RequestSize(more), FALSE)
           ELSE cmd' = [cmd EXCEPT ![c] = [more EXCEPT !.pc = "printed"]] /\ Take(c)
  /\ UNCHANGED <<alive, bound, cached, nodes, lock, fetches>>

(* A command is interrupted: the gateway drops its handler, and the lock.    *)
Interrupt(c) ==
  /\ cmd[c].pc = "asking" /\ ~Answered(c)
  /\ cmd' = [cmd EXCEPT ![c] = Failed] /\ Take(c)
  /\ lock' = IF lock = c THEN NoClient ELSE lock
  /\ UNCHANGED <<alive, bound, cached, nodes, fetches>>

-----------------------------------------------------------------------------
(* What a command prints is a part of one listing without gap or repetition, *)
(* and all of it if it says "Complete: true", whoever else pages through,    *)
(* refreshes or closes the session and however the caches overflow; --all    *)
(* ("stopping after at most {max_results} results") stays below its cap and  *)
(* stops short of it only with a complete listing.                           *)
PrintedIsPrefix ==
  \A c \in Commands : LET k == cmd[c] IN
    /\ k.rows = SubSeq(Listing["root"], 1, Len(k.rows))
    /\ k.pc = "printed" /\ k.complete => k.rows = Listing["root"]
    /\ k.all => /\ Len(k.rows) <= k.cap
                /\ k.pc = "printed" => k.complete \/ Len(k.rows) = k.cap

(* "Bypass cached namespace metadata": with --refresh, every page was        *)
(* fetched from the OPC server after the command began.                      *)
RefreshIsFresh ==
  \A c \in Commands : cmd[c].refresh /\ cmd[c].rows # <<>> => cmd[c].oldest > cmd[c].since

(* Every command ends, although the client of a search that shares the       *)
(* session may have stopped reading.                                         *)
CommandsEnd == \A c \in Commands : cmd[c].pc = "asking" ~> cmd[c].pc \in {"printed", "failed"}

(* "Follow continuation tokens until complete or capped": a command that     *)
(* nobody disturbs does not fail.  The last request of --all asks for fewer  *)
(* children than the token it follows was made for, and is refused.          *)
TokensAreFollowed ==
  [][\A c \in Commands :
       /\ cmd[c].next # None /\ req[c].pc = "lookup" /\ alive
       /\ \E e \in Contents(bound) : e.token = cmd[c].next
       => req'[c].pc # "error"]_<<req, cmd>>
=============================================================================
