----------------------------- MODULE QueryCache -----------------------------
(***************************************************************************)
(* Indexed search: a query result is read from a generation, remembered    *)
(* under the number of that generation and served from memory, while the   *)
(* generation may be replaced, reclaimed or deleted at any moment.         *)
(*                                                                         *)
(* Code: index/query.rs (IndexManager::search, QueryCache, IndexDb::search)*)
(* index/status.rs (status), index/traversal.rs (promotion, finish_build), *)
(* index/scheduler.rs (profile change), index/enrollment.rs (deletion).    *)
(*                                                                         *)
(* One server.  The matches of a query are abstracted to the rows they     *)
(* were read from: which build wrote them and whether all of them are      *)
(* there.  Ranking, limits and match modes are part of the key.            *)
(***************************************************************************)
EXTENDS Sequences, FiniteSets, IndexStatus

CONSTANTS
  Searches,     \* tasks that serve SearchIndex
  Keys,         \* query, match mode and limit of a CacheKey
  Capacity,     \* query_cache_capacity
  MaxGen,       \* bound on generation numbers
  MaxBuilds,    \* bound on the builds that are started
  Clears,       \* TRUE: deletions and profile changes take place
  DbErrors,     \* TRUE: the database cannot be read or written at times
  StatusCalls   \* bound on the status calls at a time; they only read what is shared

ASSUME CacheAssumption ==
  /\ Capacity \in Nat \ {0} /\ MaxGen \in Nat \ {0} /\ MaxBuilds \in Nat
  /\ StatusCalls \in Nat \ {0}
  /\ Clears \in BOOLEAN /\ DbErrors \in BOOLEAN /\ Keys # {}

VARIABLES
  state,          \* state column of generations, "none": no such row
  rows,           \* entries of each generation
  builds,         \* builds started so far
  enrolled,       \* the server has a row in enrolled_servers
  build,          \* where the build of the server is; "none": none in the runtime
  lastError,      \* the runtime has a last_error
  deletion,       \* where the deletion is; the server is in `deleting` unless "none"
  deletionError,  \* the server has an entry in deletion_errors
  order, values,  \* the QueryCache: keys, oldest first, and what they stand for
  search          \* program counter and locals

db == <<state, rows, builds, enrolled>>
runtime == <<build, lastError>>
deleting == <<deletion, deletionError>>
cache == <<order, values>>
vars == <<db, runtime, deleting, cache, search>>

Gens == 1..MaxGen
Parts == {"none", "some", "all"}
NoRows == [build |-> 0, part |-> "none"]
Rows == [build : 0..MaxBuilds, part : Parts]
Entries == [gen : Gens, key : Keys, rows : Rows, cut : BOOLEAN]
CacheKey(e) == <<e.gen, e.key>>

(* What a status call has read so far. *)
NoView == [deletionError |-> FALSE, promoting |-> FALSE, readError |-> FALSE,
           rows |-> NoStatusRows]

(* active: active_generation of the status; gen: the generation searched;    *)
(* found: the matches; void: the matches were dropped for a deletion, only   *)
(* the status is still read.  The code does not have cut (a deletion or a    *)
(* profile change came in between), had (there was an index when the status  *)
(* call began and its tables were not emptied since) and failing (the last   *)
(* build had failed by then, and its error was not forgotten since).         *)
Idle == [pc |-> "idle", key |-> CHOOSE k \in Keys : TRUE, active |-> 0, gen |-> 0,
         found |-> NoRows, void |-> FALSE, cut |-> FALSE, had |-> FALSE,
         failing |-> FALSE, view |-> NoView, status |-> EmptyStatus("notIndexed")]

TypeOK ==
  /\ state \in [Gens -> {"none", "staging", "active", "superseded", "failed"}]
  /\ rows \in [Gens -> Rows] /\ builds \in 0..MaxBuilds /\ enrolled \in BOOLEAN
  /\ build \in {"none", "reserved", "invalidated", "writing", "promoting", "promoted",
                "unmarked", "finished", "failed"}
  /\ deletion \in {"none", "asked", "deleted"}
  /\ lastError \in BOOLEAN /\ deletionError \in BOOLEAN
  /\ Len(order) <= Capacity /\ IsInjective(order) /\ values \subseteq Entries
  /\ Range(order) = {CacheKey(e) : e \in values} /\ Cardinality(values) = Len(order)
  /\ \A s \in Searches :
       /\ search[s].pc \in {"idle", "deleting", "errors", "promoting", "enrollment",
                           "rows", "runtime", "status", "generation", "cache", "query",
                           "check", "insert", "done"}
       /\ search[s].key \in Keys /\ search[s].found \in Rows
       /\ search[s].active \in 0..MaxGen /\ search[s].gen \in 0..MaxGen
       /\ search[s].status.state \in IndexStates /\ search[s].status.error \in Errors

Init ==
  /\ state = [g \in Gens |-> "none"] /\ rows = [g \in Gens |-> NoRows]
  /\ builds = 0 /\ enrolled = FALSE /\ build = "none" /\ lastError = FALSE
  /\ deletion = "none" /\ deletionError = FALSE
  /\ order = <<>> /\ values = {} /\ search = [s \in Searches |-> Idle]

Present == {g \in Gens : state[g] # "none"}
Staging == {g \in Gens : state[g] = "staging"}
Active == {g \in Gens : state[g] = "active"}
NextGen == Max(Present \cup {0}) + 1

ClearCache == order' = <<>> /\ values' = {}

-----------------------------------------------------------------------------
(* The build of the server *)

Enroll ==
  /\ ~enrolled /\ enrolled' = TRUE
  /\ UNCHANGED <<state, rows, builds, runtime, deleting, cache, search>>

ErrorForgotten ==
  /\ lastError' = FALSE
  /\ search' = [s \in Searches |-> [search[s] EXCEPT !.failing = FALSE]]

(* reserve_refresh_build forgets the error of the build before. *)
ReserveBuild ==
  /\ build = "none" /\ deletion = "none" /\ enrolled /\ builds < MaxBuilds
  /\ build' = "reserved" /\ ErrorForgotten
  /\ UNCHANGED <<db, deleting, cache>>

(* start_generation: the highest number in the table, plus one. *)
StartGeneration ==
  /\ build = "reserved" /\ NextGen <= MaxGen /\ builds < MaxBuilds
  /\ builds' = builds + 1 /\ build' = "writing"
  /\ state' = [state EXCEPT ![NextGen] = "staging"]
  /\ rows' = [rows EXCEPT ![NextGen] = [build |-> builds + 1, part |-> "none"]]
  /\ UNCHANGED <<enrolled, lastError, deleting, cache, search>>

(* The inventory cannot be started: record_start_failure notes it in a row   *)
(* of its own, if that can be written, and a cancellation is no failure.     *)
StartFails ==
  /\ build = "reserved"
  /\ \/ build' = "finished" /\ UNCHANGED state
     \/ build' = "failed" /\ NextGen <= MaxGen /\ state' = [state EXCEPT ![NextGen] = "failed"]
     \/ build' = "failed" /\ DbErrors /\ UNCHANGED state
  /\ UNCHANGED <<rows, builds, enrolled, lastError, deleting, cache, search>>

InsertEntries(g, part) ==
  /\ build = "writing" /\ g \in Staging
  /\ rows[g].part # "all" /\ rows' = [rows EXCEPT ![g].part = part]
  /\ UNCHANGED <<state, builds, enrolled, runtime, deleting, cache, search>>

(* The last entries are stored before the promotion. *)
MarkPromoting(g) ==
  /\ build = "writing" /\ g \in Staging /\ rows[g].part = "all"
  /\ build' = "promoting"
  /\ UNCHANGED <<db, lastError, deleting, cache, search>>

(* mutant of Promote: two transactions *)
PromoteInTwo(g) ==
  /\ build = "promoting" /\ g \in Staging
  /\ state' = [h \in Gens |-> CASE h \in Active -> "superseded"
                                [] h = g /\ Active = {} -> "active"
                                [] OTHER -> state[h]]
  /\ build' = IF Active = {} THEN "promoted" ELSE build
  /\ UNCHANGED <<rows, builds, enrolled, lastError, deleting, cache, search>>

(* promote_with_profile, in one transaction. *)
Promote(g) ==
  /\ build = "promoting" /\ g \in Staging
  /\ state' = [h \in Gens |-> CASE h = g -> "active"
                                [] h \in Active -> "superseded"
                                [] OTHER -> state[h]]
  /\ build' = "promoted"
  /\ UNCHANGED <<rows, builds, enrolled, lastError, deleting, cache, search>>

ClearPromoting ==
  /\ build = "promoted" /\ build' = "unmarked"
  /\ UNCHANGED <<db, lastError, deleting, cache, search>>

(* fail_generation, or discard_empty_generation without entries; a build     *)
(* that the operator cancelled leaves no error in the runtime.               *)
GiveUp(g) ==
  /\ build \in {"writing", "promoting"} /\ g \in Staging
  /\ build' \in {"failed", "finished"}
  /\ \/ state' = [state EXCEPT ![g] = "failed"] /\ UNCHANGED rows
     \/ /\ rows[g].part = "none" /\ state' = [state EXCEPT ![g] = "none"]
        /\ rows' = [rows EXCEPT ![g] = NoRows]
  /\ UNCHANGED <<builds, enrolled, lastError, deleting, cache, search>>

(* finish_promoted_build empties the cache after the promotion. *)
FinishPromoted ==
  /\ build = "unmarked" /\ build' = "finished" /\ ClearCache
  /\ UNCHANGED <<db, lastError, deleting, search>>

(* finish_build: the result of the build, then the build leaves the runtime. *)
FinishBuild ==
  /\ build \in {"finished", "failed"}
  /\ build' = "none" /\ lastError' = (build = "failed")
  /\ UNCHANGED <<db, deleting, cache, search>>

(* Background cleanup of what is obsolete, in batches, while nobody builds. *)
Reclaim(g) ==
  /\ build = "none"
  /\ state[g] = "superseded" \/ (state[g] = "failed" /\ Active # {})
  /\ \/ /\ rows[g].part # "none" /\ UNCHANGED state
        /\ \E part \in {"some", "none"} \ {rows[g].part} :
             rows' = [rows EXCEPT ![g].part = part]
     \/ /\ rows[g].part = "none" /\ state' = [state EXCEPT ![g] = "none"]
        /\ rows' = [rows EXCEPT ![g] = NoRows]
  /\ UNCHANGED <<builds, enrolled, runtime, deleting, cache, search>>

-----------------------------------------------------------------------------
(* What empties the tables *)
Emptied ==
  /\ state' = [g \in Gens |-> "none"] /\ rows' = [g \in Gens |-> NoRows]
  /\ search' = [s \in Searches |-> [search[s] EXCEPT
                  !.cut = search[s].pc # "idle", !.had = FALSE, !.failing = FALSE]]
  /\ UNCHANGED builds

(* refresh_after_profile_change: clear_server under a reserved build, then   *)
(* the cache, then the build goes on.                                        *)
ProfileChange ==
  /\ Clears /\ build = "reserved" /\ Active # {}
  /\ Emptied /\ build' = "invalidated"
  /\ UNCHANGED <<enrolled, lastError, deleting, cache>>

KeepCache ==                           \* mutant of InvalidateCache
  /\ build = "invalidated" /\ build' = "reserved"
  /\ UNCHANGED <<db, lastError, deleting, cache, search>>

InvalidateCache ==
  /\ build = "invalidated" /\ build' = "reserved" /\ ClearCache
  /\ UNCHANGED <<db, lastError, deleting, search>>

DeleteIndex ==
  /\ Clears /\ deletion = "none" /\ enrolled
  /\ deletion' = "asked" /\ deletionError' = FALSE
  /\ UNCHANGED <<db, runtime, cache, search>>

(* delete_index_background waits for the build, deletes, empties the cache,  *)
(* forgets the runtime, and the server is no longer in `deleting`.           *)
DeleteRows ==
  /\ deletion = "asked" /\ build = "none"
  /\ deletion' = "deleted" /\ Emptied /\ enrolled' = FALSE
  /\ UNCHANGED <<runtime, deletionError, cache>>

DeleteCached ==
  /\ deletion = "deleted" /\ deletion' = "none"
  /\ ClearCache /\ ErrorForgotten
  /\ UNCHANGED <<db, build, deletionError>>

(* The delete lock or the database is not to be had; the error is kept until *)
(* the next deletion is asked for.                                           *)
DeleteFails ==
  /\ DbErrors /\ deletion = "asked" /\ build = "none"
  /\ deletion' = "none" /\ deletionError' = TRUE
  /\ UNCHANGED <<db, runtime, cache, search>>

-----------------------------------------------------------------------------
(* search *)
At(s, pc) == search[s].pc = pc
Goto(s, pc) == search' = [search EXCEPT ![s].pc = pc]
Reply(s, found, cut) ==
  search' = [search EXCEPT ![s].pc = "done", ![s].gen = 0, ![s].found = found, ![s].cut = cut]

(* At most StatusCalls of them at a time. *)
MayCallStatus ==
  StatusCalls > Cardinality({s \in Searches : search[s].pc \in
    {"deleting", "errors", "promoting", "enrollment", "rows", "runtime", "status"}})

SearchIndex(s) ==
  /\ At(s, "idle") /\ MayCallStatus
  /\ \E k \in Keys : search' = [search EXCEPT ![s] = [Idle EXCEPT !.pc = "deleting", !.key = k]]
  /\ UNCHANGED <<db, runtime, deleting, cache>>

(* status: `deleting` first, ... *)
StatusDeleting(s) ==
  /\ At(s, "deleting")
  /\ IF deletion # "none"
     THEN search' = [search EXCEPT ![s].pc = "status", ![s].status = EmptyStatus("deleting")]
     ELSE search' = [search EXCEPT ![s].pc = "errors", ![s].had = Active # {},
                                   ![s].failing = lastError /\ build = "none"]
  /\ UNCHANGED <<db, runtime, deleting, cache>>

StatusDeletionError(s) ==
  /\ At(s, "errors")
  /\ search' = [search EXCEPT ![s].pc = "promoting", ![s].view.deletionError = deletionError]
  /\ UNCHANGED <<db, runtime, deleting, cache>>

StatusPromoting(s) ==
  /\ At(s, "promoting")
  /\ search' = [search EXCEPT ![s].pc = "enrollment",
                             ![s].view.promoting = build \in {"promoting", "promoted"}]
  /\ UNCHANGED <<db, runtime, deleting, cache>>

(* ... the enrollment, which counts as given when it cannot be read during a *)
(* promotion, ...                                                            *)
StatusEnrollment(s) ==
  LET v == search[s].view IN
  /\ At(s, "enrollment")
  /\ \/ enrolled /\ Goto(s, "rows")
     \/ /\ ~enrolled
        /\ search' = [search EXCEPT ![s].pc = "status",
             ![s].status = ApplyDeletionError(EmptyStatus("notIndexed"), v.deletionError),
             ![s].view = NoView]
     \/ /\ DbErrors /\ v.promoting
        /\ search' = [search EXCEPT ![s].pc = "rows", ![s].view.readError = TRUE]
  /\ UNCHANGED <<db, runtime, deleting, cache>>

(* ... the generations, of which there are none when they cannot be read     *)
(* during a promotion, ...                                                   *)
LoadStatusRows(s) ==
  /\ At(s, "rows")
  /\ \/ search' = [search EXCEPT ![s].pc = "runtime", ![s].view.rows = FromRows(state)]
     \/ /\ DbErrors /\ search[s].view.promoting
        /\ search' = [search EXCEPT ![s].pc = "runtime", ![s].view.readError = TRUE]
  /\ UNCHANGED <<db, runtime, deleting, cache>>

(* ... and the runtime. *)
StatusRuntime(s) ==
  LET v == search[s].view
      building == build # "none" IN
  /\ At(s, "runtime")
  /\ \E stale \in BOOLEAN :
       search' = [search EXCEPT ![s].pc = "status",
         ![s].view = [NoView EXCEPT !.readError = v.readError],
         ![s].status = ApplyDeletionError(
           ApplyStatusErrors(BaseStatus(v.rows, building, v.promoting, stale),
                             building, lastError, v.readError), v.deletionError)]
  /\ UNCHANGED <<db, runtime, deleting, cache>>

(* Which generation is searched; what the status call has read is no longer  *)
(* needed.                                                                   *)
ChooseGeneration(s) ==
  LET m == search[s]
      Then(pc, gen) == search' = [search EXCEPT ![s] =
        [m EXCEPT !.pc = pc, !.active = m.status.active, !.gen = gen, !.view = NoView,
                  !.had = FALSE, !.failing = FALSE, !.status = EmptyStatus("notIndexed")]]
  IN /\ At(s, "status")
     /\ IF m.void \/ m.status.state = "deleting" THEN Then("done", 0)
        ELSE IF m.status.active > 0 THEN Then("cache", m.status.active)
        ELSE IF m.status.state = "promoting" THEN Then("done", 0)
        ELSE Then("generation", 0)
     /\ UNCHANGED <<db, runtime, deleting, cache>>

(* search_generation: without a complete index, what has been built so far.  *)
SearchGeneration(s) ==
  /\ At(s, "generation")
  /\ IF Active \cup Staging = {} THEN Reply(s, NoRows, search[s].cut)
     ELSE search' = [search EXCEPT ![s].pc = "query",
            ![s].gen = Max(IF Active # {} THEN Active ELSE Staging)]
  /\ UNCHANGED <<db, runtime, deleting, cache>>

Without(k) == SelectSeq(order, LAMBDA j : j # k)
Hits(g, k) == {e \in values : CacheKey(e) = <<g, k>>}

(* QueryCache::get makes the entry the youngest. *)
Lookup(s) ==
  LET g == search[s].gen
      k == search[s].key IN
  /\ At(s, "cache")
  /\ \/ \E e \in Hits(g, k) :
          /\ order' = Append(Without(<<g, k>>), <<g, k>>)
          /\ Reply(s, e.rows, search[s].cut \/ e.cut)
     \/ Hits(g, k) = {} /\ UNCHANGED order /\ Goto(s, "query")
  /\ UNCHANGED <<db, runtime, deleting, values>>

(* IndexDb::search on a connection of its own. *)
Query(s) ==
  /\ At(s, "query")
  /\ search' = [search EXCEPT ![s].pc = "check", ![s].found = rows[search[s].gen]]
  /\ UNCHANGED <<db, runtime, deleting, cache>>

(* A deletion that began meanwhile makes the matches void, and the status is *)
(* read again.                                                               *)
CheckDeleting(s) ==
  /\ At(s, "check")
  /\ \/ /\ deletion # "none" /\ MayCallStatus
        /\ search' = [search EXCEPT ![s] = [Idle EXCEPT !.pc = "deleting",
                        !.key = search[s].key, !.void = TRUE, !.cut = TRUE]]
     \/ deletion = "none" /\ Goto(s, "insert")
  /\ UNCHANGED <<db, runtime, deleting, cache>>

(* QueryCache::insert: the entry replaces one of the same key and is the     *)
(* youngest; what is too much goes, the oldest first.                        *)
CacheInsert(e) ==
  LET longer == Append(Without(CacheKey(e)), CacheKey(e))
      full == Len(longer) > Capacity IN
  /\ order' = IF full THEN Tail(longer) ELSE longer
  /\ values' = {v \in (values \ Hits(e.gen, e.key)) \cup {e} :
                  full => CacheKey(v) # Head(longer)}

(* Only results of a complete generation are remembered. *)
Insert(s) ==
  LET m == search[s] IN
  /\ At(s, "insert") /\ Reply(s, m.found, m.cut)
  /\ IF m.active = m.gen
     THEN CacheInsert([gen |-> m.gen, key |-> m.key, rows |-> m.found, cut |-> m.cut])
     ELSE UNCHANGED cache
  /\ UNCHANGED <<db, runtime, deleting>>

(* The database cannot be read: the caller gets an error. *)
SearchFails(s) ==
  /\ DbErrors
  /\ \/ search[s].pc \in {"generation", "query"}
     \/ search[s].pc \in {"enrollment", "rows"} /\ ~search[s].view.promoting
  /\ search' = [search EXCEPT ![s] = Idle]
  /\ UNCHANGED <<db, runtime, deleting, cache>>

Answered(s) ==
  /\ At(s, "done") /\ search' = [search EXCEPT ![s] = Idle]
  /\ UNCHANGED <<db, runtime, deleting, cache>>

-----------------------------------------------------------------------------
SearchStep(s) ==
  \/ SearchIndex(s) \/ StatusDeleting(s) \/ StatusDeletionError(s) \/ StatusPromoting(s)
  \/ StatusEnrollment(s) \/ LoadStatusRows(s) \/ StatusRuntime(s) \/ ChooseGeneration(s)
  \/ SearchGeneration(s) \/ Lookup(s) \/ Query(s) \/ CheckDeleting(s) \/ Insert(s)
  \/ SearchFails(s) \/ Answered(s)

Next ==
  \/ \E s \in Searches : SearchStep(s)
  \/ Enroll \/ ReserveBuild \/ StartGeneration \/ StartFails \/ ClearPromoting
  \/ FinishPromoted \/ FinishBuild
  \/ \E g \in Gens : MarkPromoting(g) \/ Promote(g) \/ GiveUp(g) \/ Reclaim(g)
  \/ \E g \in Gens, part \in {"some", "all"} : InsertEntries(g, part)
  \/ ProfileChange \/ InvalidateCache
  \/ DeleteIndex \/ DeleteRows \/ DeleteCached \/ DeleteFails

Spec == Init /\ [][Next]_vars

-----------------------------------------------------------------------------
(* A search of the active generation that is about to be answered from the   *)
(* cache gets what this generation holds.                                    *)
HitIsCurrent ==
  \A s \in Searches : At(s, "cache") /\ search[s].gen \in Active =>
    \A e \in Hits(search[s].gen, search[s].key) : e.rows = rows[e.gen]

(* docs/indexing-and-search.md: "A no-match result is authoritative only     *)
(* when the index is complete."  A search whose status names a complete      *)
(* generation is answered from all of its rows.                              *)
CompleteIsAuthoritative ==
  \A s \in Searches : At(s, "done") /\ search[s].active > 0 =>
    search[s].found.part = "all"

(* The same while that generation is the active one and neither this search  *)
(* nor the one that remembered the answer was interrupted by a deletion or a *)
(* profile change: the answer holds every row of the generation the status   *)
(* names and of no other build, whether it was read or remembered, although  *)
(* builds, promotions, cleanups and failures happen at every step.           *)
UndisturbedAnswerIsWhole ==
  \A s \in Searches :
    At(s, "done") /\ search[s].active \in Active /\ ~search[s].cut =>
      search[s].found.part = "all" /\ search[s].found = rows[search[s].active]

(* A server that has an index when a status call begins, and whose tables    *)
(* nobody empties, is shown with an active generation, although a promotion  *)
(* may replace it between any two of the reads: search would otherwise fall  *)
(* back to an unfinished generation.                                         *)
IndexIsAcknowledged ==
  \A s \in Searches :
    At(s, "status") /\ search[s].had /\ ~search[s].view.readError
    => search[s].status.active > 0

(* A failed build is reported until another one is reserved, even when it    *)
(* left no row behind, whichever of the reads of a status call it precedes.  *)
FailureIsReported ==
  \A s \in Searches :
    At(s, "status") /\ search[s].failing => search[s].status.state = "failed"

=============================================================================
