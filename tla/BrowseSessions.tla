--------------------------- MODULE BrowseSessions ---------------------------
(***************************************************************************)
(* Browse sessions: who opens, uses, expires and closes the native session *)
(* behind a gateway session, while calls overlap.                          *)
(*                                                                         *)
(* Code: crates/opcda-bridge-gateway/src/browse.rs (BrowseManager) and     *)
(* server/search.rs, server/service.rs (its callers).                      *)
(*                                                                         *)
(* A session and its native session share one identifier.  Every section   *)
(* under the lock of the session map is a step, and so is every await.     *)
(* Pages are told apart by their parent; the opaque tokens that stand for  *)
(* nodes and continuations are left out.                                   *)
(***************************************************************************)
EXTENDS Naturals, Sequences, FiniteSets, Functions

CONSTANTS
  Calls,        \* tasks that serve Browse, Search and CloseBrowseSession
  Ids,          \* session identifiers, each used once
  Keys,         \* parents whose page one can ask for
  MaxSessions,  \* MAX_ACTIVE_SESSIONS
  MaxPages,     \* MAX_CACHED_PAGES_PER_SESSION
  MaxRounds,    \* bound on the pages of one search
  NoCall, NoId

ASSUME SessionAssumption ==
  /\ MaxSessions \in Nat /\ MaxPages \in Nat \ {0} /\ MaxRounds \in Nat
  /\ NoCall \notin Calls /\ NoId \notin Ids

VARIABLES
  live,       \* keys of the session map
  stale,      \* those not used for SESSION_TTL
  native,     \* each native session; "failed": its close returned an error;
              \* "lost": open, and nobody will ask for its close
  lock,       \* holder of each operation_lock
  pages,      \* page_order of each session, oldest first
  call        \* program counter and locals

vars == <<live, stale, native, lock, pages, call>>

(* expired: sessions taken out of the map that this call has yet to close;   *)
(* temporary: the session is the call's own; then: where close_expired goes. *)
Idle == [pc |-> "idle", id |-> NoId, key |-> CHOOSE k \in Keys : TRUE,
         refresh |-> FALSE, temporary |-> FALSE, search |-> FALSE,
         rounds |-> 0, expired |-> {}, then |-> "idle"]

Places ==
  {"idle", "sweep", "closeExpired", "closingExpired", "capacity", "opening",
   "insert", "closeExtra", "lookup", "await", "recheck", "native", "store",
   "next", "report", "close", "awaitClose", "remove", "closing"}

TypeOK ==
  /\ live \subseteq Ids /\ stale \subseteq live
  /\ native \in [Ids -> {"none", "open", "lost", "closed", "failed"}]
  /\ lock \in [Ids -> Calls \cup {NoCall}]
  /\ \A s \in Ids : Range(pages[s]) \subseteq Keys /\ Len(pages[s]) <= MaxPages
  /\ call \in [Calls -> [pc : Places, id : Ids \cup {NoId}, key : Keys,
                         refresh : BOOLEAN, temporary : BOOLEAN, search : BOOLEAN,
                         rounds : 0..MaxRounds, expired : SUBSET Ids, then : Places]]

Init ==
  /\ live = {} /\ stale = {} /\ native = [s \in Ids |-> "none"]
  /\ lock = [s \in Ids |-> NoCall] /\ pages = [s \in Ids |-> <<>>]
  /\ call = [c \in Calls |-> Idle]

At(c, pc) == call[c].pc = pc
Goto(c, pc) == call' = [call EXCEPT ![c].pc = pc]
Mine(c) == call[c].id

(* Session::touch *)
Touch(s) == stale' = stale \ {s}

Free(s) == lock' = [lock EXCEPT ![s] = NoCall]

(* A browse is over.  A session opened for this call alone is closed when    *)
(* the browse failed, and after a search.                                    *)
Done(c, ok) ==
  call' = [call EXCEPT ![c] =
    IF @.temporary /\ (@.search \/ ~ok) THEN [@ EXCEPT !.pc = "close"] ELSE Idle]

(* A search has something to send to its reader: matches, or the error. *)
Return(c, ok) ==
  IF call[c].search THEN Goto(c, IF ok THEN "next" ELSE "report") ELSE Done(c, ok)

(* close_browse_session has returned.  An error is logged or passed on to    *)
(* the client; nobody tries again.                                           *)
CloseNative(s) == \E r \in {"closed", "failed"} : native' = [native EXCEPT ![s] = r]

-----------------------------------------------------------------------------
(* Requests *)

Begin(c, request) ==
  /\ At(c, "idle")
  /\ \E s \in Ids \cup {NoId}, k \in Keys, r \in BOOLEAN :
       /\ s # NoId => native[s] # "none"
       /\ call' = [call EXCEPT ![c] =
                     [request EXCEPT !.id = s, !.key = k, !.refresh = r,
                                     !.temporary = (s = NoId),
                                     !.then = IF s = NoId THEN @ ELSE "lookup"]]
  /\ UNCHANGED <<live, stale, native, lock, pages>>

(* browse sweeps before it calls open_session, which sweeps again. *)
Browse(c) == Begin(c, [Idle EXCEPT !.pc = "sweep", !.then = "sweep"])

(* Search opens a session, if none is given, and browses page after page. *)
Search(c) ==
  Begin(c, [Idle EXCEPT !.pc = "sweep", !.then = "capacity", !.search = TRUE,
                        !.rounds = MaxRounds])

CloseSession(c) ==
  /\ At(c, "idle")
  /\ \E s \in Ids :
       /\ native[s] # "none"
       /\ call' = [call EXCEPT ![c] = [Idle EXCEPT !.pc = "close", !.id = s]]
  /\ UNCHANGED <<live, stale, native, lock, pages>>

(* SESSION_TTL passes without a use. *)
GrowStale(s) ==
  /\ s \in live \ stale /\ stale' = stale \cup {s}
  /\ UNCHANGED <<live, native, lock, pages, call>>

-----------------------------------------------------------------------------
(* remove_expired and close_expired *)
Sweep(c) ==
  /\ At(c, "sweep")
  /\ live' = live \ stale /\ stale' = {}
  /\ pages' = [s \in Ids |-> IF s \in stale THEN <<>> ELSE pages[s]]
  /\ call' = [call EXCEPT ![c].pc = "closeExpired", ![c].expired = stale]
  /\ UNCHANGED <<native, lock>>

CloseExpired(c) ==
  /\ At(c, "closeExpired")
  /\ \/ \E s \in call[c].expired :
          /\ lock[s] = NoCall /\ lock' = [lock EXCEPT ![s] = c]
          /\ Goto(c, "closingExpired")
     \/ /\ call[c].expired = {}
        /\ call' = [call EXCEPT ![c].pc = call[c].then,
                      ![c].then = IF @ = "sweep" THEN "capacity" ELSE @]
        /\ UNCHANGED lock
  /\ UNCHANGED <<live, stale, native, pages>>

(* browse refuses an oversized page and a refresh with a page token after it *)
(* has swept; a search asks for neither.                                     *)
Refuse(c) ==
  /\ At(c, "closeExpired") /\ call[c].expired = {}
  /\ ~call[c].search /\ call[c].then \in {"sweep", "lookup"}
  /\ call' = [call EXCEPT ![c] = Idle]
  /\ UNCHANGED <<live, stale, native, lock, pages>>

CloseExpiredUntilGone(c) ==            \* mutant of NativeCloseExpired
  /\ At(c, "closingExpired")
  /\ \E s \in call[c].expired :
       /\ lock[s] = c /\ Free(s) /\ CloseNative(s)
       /\ call' = [call EXCEPT ![c].pc = "closeExpired",
                     ![c].expired = {e \in @ : e # s \/ native'[s] = "failed"}]
  /\ UNCHANGED <<live, stale, pages>>

NativeCloseExpired(c) ==
  /\ At(c, "closingExpired")
  /\ \E s \in call[c].expired :
       /\ lock[s] = c /\ Free(s) /\ CloseNative(s)
       /\ call' = [call EXCEPT ![c].pc = "closeExpired", ![c].expired = @ \ {s}]
  /\ UNCHANGED <<live, stale, pages>>

(* open_session: the capacity is looked at before and after the native open. *)
Full == Cardinality(live) >= MaxSessions

Capacity(c) ==
  /\ At(c, "capacity")
  /\ call' = [call EXCEPT ![c] = IF Full THEN Idle ELSE [@ EXCEPT !.pc = "opening"]]
  /\ UNCHANGED <<live, stale, native, lock, pages>>

NativeOpen(c) ==
  /\ At(c, "opening")
  /\ \/ \E s \in Ids :
          /\ native[s] = "none" /\ native' = [native EXCEPT ![s] = "open"]
          /\ call' = [call EXCEPT ![c].pc = "insert", ![c].id = s]
     \/ call' = [call EXCEPT ![c] = Idle] /\ UNCHANGED native
  /\ UNCHANGED <<live, stale, lock, pages>>

(* A search browses its new session like any other one. *)
Opened(c) ==
  call' = [call EXCEPT ![c].pc = IF call[c].search THEN "sweep" ELSE "lookup",
                       ![c].then = "lookup"]

InsertUnchecked(c) ==                  \* mutant of Insert
  /\ At(c, "insert") /\ live' = live \cup {Mine(c)} /\ Opened(c)
  /\ UNCHANGED <<stale, native, lock, pages>>

Insert(c) ==
  /\ At(c, "insert")
  /\ \/ Full /\ Goto(c, "closeExtra") /\ UNCHANGED live
     \/ ~Full /\ live' = live \cup {Mine(c)} /\ Opened(c)
  /\ UNCHANGED <<stale, native, lock, pages>>

DropExtra(c) ==                        \* mutant of CloseExtra
  /\ At(c, "closeExtra") /\ call' = [call EXCEPT ![c] = Idle]
  /\ UNCHANGED <<live, stale, native, lock, pages>>

CloseExtra(c) ==
  /\ At(c, "closeExtra") /\ CloseNative(Mine(c))
  /\ call' = [call EXCEPT ![c] = Idle]
  /\ UNCHANGED <<live, stale, lock, pages>>

-----------------------------------------------------------------------------
(* browse_existing *)

Cached(c) == call[c].key \in Range(pages[Mine(c)])

(* invalidate_parent *)
Without(s, k) == SelectSeq(s, LAMBDA e : e # k)

(* No such session, or the session of another server; an unknown parent or   *)
(* a token of another listing is noticed after the session was touched.      *)
Lookup(c) ==
  /\ At(c, "lookup")
  /\ \/ Return(c, FALSE) /\ UNCHANGED <<stale, pages>>
     \/ Mine(c) \in live /\ Touch(Mine(c)) /\ Return(c, FALSE) /\ UNCHANGED pages
     \/ /\ Mine(c) \in live /\ Touch(Mine(c))
        /\ pages' = IF call[c].refresh
                    THEN [pages EXCEPT ![Mine(c)] = Without(@, call[c].key)] ELSE pages
        /\ IF ~call[c].refresh /\ Cached(c) THEN Return(c, TRUE) ELSE Goto(c, "await")
  /\ UNCHANGED <<live, native, lock>>

AwaitLock(c) ==
  /\ At(c, "await") /\ lock[Mine(c)] = NoCall
  /\ lock' = [lock EXCEPT ![Mine(c)] = c] /\ Goto(c, "recheck")
  /\ UNCHANGED <<live, stale, native, pages>>

RecheckNothing(c) ==                   \* mutant of Recheck
  /\ At(c, "recheck") /\ Goto(c, "native")
  /\ UNCHANGED <<live, stale, native, lock, pages>>

(* Another call may have closed the session or fetched the page meanwhile.   *)
Recheck(c) ==
  /\ At(c, "recheck")
  /\ \/ /\ Mine(c) \notin live
        /\ Return(c, FALSE) /\ Free(Mine(c)) /\ UNCHANGED stale
     \/ /\ Mine(c) \in live /\ Touch(Mine(c))
        /\ IF ~call[c].refresh /\ Cached(c)
           THEN Return(c, TRUE) /\ Free(Mine(c))
           ELSE Goto(c, "native") /\ UNCHANGED lock
  /\ UNCHANGED <<live, native, pages>>

(* The native call fails, or returns a page that contradicts itself. *)
NativeBrowse(c) ==
  /\ At(c, "native")
  /\ \/ Goto(c, "store") /\ UNCHANGED lock
     \/ Return(c, FALSE) /\ Free(Mine(c))
  /\ UNCHANGED <<live, stale, native, pages>>

(* cache_page *)
CachePage(s, k) ==
  LET order == Append(Without(s, k), k) IN
  IF Len(order) > MaxPages THEN Tail(order) ELSE order

(* The page is kept if the session still exists and has room for its nodes. *)
Store(c) ==
  /\ At(c, "store") /\ Free(Mine(c))
  /\ \/ Mine(c) \notin live /\ Return(c, FALSE) /\ UNCHANGED <<stale, pages>>
     \/ Mine(c) \in live /\ Touch(Mine(c)) /\ Return(c, FALSE) /\ UNCHANGED pages
     \/ /\ Mine(c) \in live /\ Touch(Mine(c))
        /\ pages' = [pages EXCEPT ![Mine(c)] = CachePage(@, call[c].key)]
        /\ Return(c, TRUE)
  /\ UNCHANGED <<live, native>>

(* process_scope: a search goes on with another page or is at an end, once   *)
(* the channel to its client, who need not read, has had room for what it    *)
(* found, or the client is gone.                                             *)
NextPage(c) ==
  /\ At(c, "next")
  /\ \/ /\ call[c].rounds > 0
        /\ \E k \in Keys :
             call' = [call EXCEPT ![c].pc = "sweep", ![c].key = k, ![c].refresh = FALSE,
                                  ![c].rounds = @ - 1]
     \/ Done(c, TRUE)
  /\ UNCHANGED <<live, stale, native, lock, pages>>

(* run_search sends the error before it closes the session. *)
Report(c) ==
  /\ At(c, "report") /\ Done(c, FALSE)
  /\ UNCHANGED <<live, stale, native, lock, pages>>

-----------------------------------------------------------------------------
(* close_session *)
FindSession(c) ==
  /\ At(c, "close")
  /\ call' = [call EXCEPT ![c] =
                IF Mine(c) \in live THEN [@ EXCEPT !.pc = "awaitClose"] ELSE Idle]
  /\ UNCHANGED <<live, stale, native, lock, pages>>

AwaitClose(c) ==
  /\ At(c, "awaitClose") /\ lock[Mine(c)] = NoCall
  /\ lock' = [lock EXCEPT ![Mine(c)] = c] /\ Goto(c, "remove")
  /\ UNCHANGED <<live, stale, native, pages>>

Remove(c) ==
  /\ At(c, "remove")
  /\ \/ /\ Mine(c) \notin live /\ call' = [call EXCEPT ![c] = Idle] /\ Free(Mine(c))
        /\ UNCHANGED <<live, stale, pages>>
     \/ /\ Mine(c) \in live /\ live' = live \ {Mine(c)} /\ Touch(Mine(c))
        /\ pages' = [pages EXCEPT ![Mine(c)] = <<>>]
        /\ Goto(c, "closing") /\ UNCHANGED lock
  /\ UNCHANGED native

NativeClose(c) ==
  /\ At(c, "closing")
  /\ CloseNative(Mine(c)) /\ Free(Mine(c))
  /\ call' = [call EXCEPT ![c] = Idle]
  /\ UNCHANGED <<live, stale, pages>>

(* The client disconnects: the handler is dropped where it awaits, and the   *)
(* guard of an operation lock with it.  The native close or open it had asked *)
(* for is still carried out, but nobody hears of the session opened, and the  *)
(* expired sessions it had not come to are forgotten.  A search that has its  *)
(* session runs in its own task.                                              *)
Closing(c, s) ==
  \/ At(c, "closingExpired") /\ lock[s] = c
  \/ call[c].pc \in {"closing", "closeExtra"} /\ Mine(c) = s

Abandon(c) ==
  /\ call[c].search => Mine(c) = NoId \/ At(c, "closeExtra")
  /\ \/ call[c].pc \in {"closingExpired", "opening", "closeExtra", "await",
                        "native", "awaitClose", "closing"}
     \/ At(c, "closeExpired") /\ \E s \in call[c].expired : lock[s] # NoCall
  /\ \E opened \in {NoId} \cup {s \in Ids : At(c, "opening") /\ native[s] = "none"} :
     \E r \in {"closed", "failed"} :
       native' = [s \in Ids |-> IF Closing(c, s) THEN r
                                ELSE IF s = opened \/ s \in call[c].expired THEN "lost"
                                ELSE native[s]]
  /\ lock' = [s \in Ids |-> IF lock[s] = c THEN NoCall ELSE lock[s]]
  /\ call' = [call EXCEPT ![c] = Idle]
  /\ UNCHANGED <<live, stale, pages>>

-----------------------------------------------------------------------------
NativeCall(c) ==
  NativeCloseExpired(c) \/ NativeOpen(c) \/ CloseExtra(c) \/ NativeBrowse(c) \/ NativeClose(c)

(* What a search does when its reader has made room. *)
Deliver(c) == NextPage(c) \/ Report(c)

HandlerStep(c) ==
  \/ Sweep(c) \/ CloseExpired(c) \/ Refuse(c) \/ Capacity(c) \/ Insert(c)
  \/ Lookup(c) \/ AwaitLock(c) \/ Recheck(c) \/ Store(c)
  \/ FindSession(c) \/ AwaitClose(c) \/ Remove(c)

BrowseStep(c) == HandlerStep(c) \/ NativeCall(c) \/ Deliver(c)

Next ==
  \/ \E c \in Calls : Browse(c) \/ Search(c) \/ CloseSession(c)
  \/ \E c \in Calls : BrowseStep(c) \/ Abandon(c)
  \/ \E s \in Ids : GrowStale(s)

Spec == Init /\ [][Next]_vars

(* Tasks are scheduled and a Tokio mutex is fair: the steps of its own that   *)
(* a call cannot take at once are those that await a lock.  Native calls have *)
(* no timeout and a reader need not read: neither is assumed to go on.        *)
FairSpec == Spec /\ \A c \in Calls : SF_vars(HandlerStep(c))

-----------------------------------------------------------------------------
(* Two opens that both saw room do not exceed the limit.                     *)
SessionsBounded == Cardinality(live) <= MaxSessions

(* The native session is open as long as somebody browses it, although it    *)
(* may expire or be closed by another call at any moment.                    *)
NoUseAfterClose == \A c \in Calls : At(c, "native") => native[Mine(c)] \in {"open", "lost"}

Held(s) ==
  \E c \in Calls : \/ s \in call[c].expired
                   \/ Mine(c) = s /\ call[c].pc \in {"insert", "closeExtra", "closing"}

(* A native session is open exactly as long as it is in the map or in the    *)
(* hands of a call that will ask for its close: no race of opens, expiry and *)
(* closing forgets one, keeps one in the map that was closed, or closes one  *)
(* twice.  Outside are only sessions whose close failed, and those whose     *)
(* handler was dropped with the list of the expired.                         *)
NativeIsOwned == \A s \in Ids : native[s] = "open" <=> s \in live \/ Held(s)

(* "expired_sessions_are_closed_before_the_next_request", even when the      *)
(* client of that request goes away.                                         *)
NativeIsClosed == \A s \in Ids : native[s] # "lost"

InNative(c) == call[c].pc \in {"closingExpired", "opening", "closeExtra", "native", "closing"}

(* A search waits for its reader. *)
Waiting(c) == call[c].pc \in {"next", "report"}

(* As long as native calls return, every call returns or waits for its own   *)
(* reader: nobody waits for a lock that is not given back, and a search whose *)
(* reader never reads holds up no other call, however closes fail.           *)
CallsReturn ==
  (\A c \in Calls : []<>~InNative(c)) =>
    \A c \in Calls : ~At(c, "idle") ~> At(c, "idle") \/ Waiting(c)

=============================================================================
