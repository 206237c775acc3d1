---------------------------- MODULE CleanupBatch ----------------------------
(***************************************************************************)
(* What a cleanup deletes, beside the builds of the same server: candidates *)
(* are read without the writer gate and deleted later, under it, in batches *)
(* of two tables that have to stay in step; and when it runs: on requests   *)
(* only, which a build makes when it has left something behind.             *)
(*                                                                          *)
(* Code: crates/opcda-bridge-gateway/src/index/scheduler.rs                 *)
(* (run_scheduled_cleanup, cleanup_obsolete_generations_coordinated,        *)
(* cleanup_one_batch, delete_cleanup_batch), traversal.rs (the places that  *)
(* call schedule_cleanup) and store.rs (start_generation, insert_entries,   *)
(* promote_with_profile, clear_server, open_once).                          *)
(*                                                                          *)
(* One server.  Every database transaction is a step.  Rows of `entries`    *)
(* are counted per generation; rows of `entries_fts` are told apart by      *)
(* rowid, which SQLite assigns as one more than the largest in use.  The    *)
(* worker flag, which lets a request wait, is the subject of CleanupQueue.  *)
(***************************************************************************)
EXTENDS Naturals, FiniteSetsExt, Functions

CONSTANTS
  MaxGen,      \* bound on generation numbers
  MaxRow,      \* bound on rows of entries_fts
  BatchSize,   \* CLEANUP_BATCH_SIZE
  Clears,      \* TRUE: the index is deleted or cleared meanwhile
  DbErrors,    \* TRUE: a database operation may fail
  MaxRestarts  \* bound on restarts of the gateway

Gens == 1..MaxGen
Rows == 1..MaxRow
NoGen == 0

ASSUME BatchAssumption ==
  /\ MaxGen \in Nat /\ MaxRow \in Nat /\ MaxRestarts \in Nat
  /\ BatchSize \in Nat \ {0} /\ Clears \in BOOLEAN /\ DbErrors \in BOOLEAN

VARIABLES
  state,      \* generations.state
  entries,    \* rows of entries, per generation
  fts,        \* generation of each row of entries_fts
  build,      \* where the server's build is; in active_builds unless "no"
  owed,       \* a released build has yet to call schedule_cleanup
  requested,  \* cleanup_tasks[server].requested
  pc,         \* step of run_scheduled_cleanup, "idle" when it does not run
  cursor,     \* fts_after_rowid
  ftsFound,   \* fts_candidates
  gensFound,  \* generation_candidates
  gaveUp,     \* history: the last attempt, or the search for work, failed
  restarts    \* how often the gateway has been restarted

Building == build # "no"

db == <<state, entries, fts>>
run == <<pc, cursor, ftsFound, gensFound, gaveUp>>
batchVars == <<db, build, owed, requested, run, restarts>>

BatchTypeOK ==
  /\ state \in [Gens -> {"none", "staging", "active", "superseded", "failed"}]
  /\ entries \in [Gens -> Nat]
  /\ fts \in [Rows -> Gens \cup {NoGen}]
  /\ build \in {"no", "reserved", "staging", "ending"}
  /\ owed \in BOOLEAN /\ requested \in BOOLEAN /\ gaveUp \in BOOLEAN
  /\ pc \in {"idle", "check", "begin", "discover", "delete", "wait", "clear"}
  /\ cursor \in Rows \cup {0}
  /\ ftsFound \subseteq (Rows \X Gens) /\ gensFound \subseteq Gens
  /\ restarts \in 0..MaxRestarts

BatchInit ==
  /\ state = [g \in Gens |-> "none"] /\ entries = [g \in Gens |-> 0]
  /\ fts = [r \in Rows |-> NoGen] /\ build = "no"
  /\ owed = FALSE /\ requested = FALSE /\ gaveUp = FALSE
  /\ pc = "idle" /\ cursor = 0 /\ ftsFound = {} /\ gensFound = {} /\ restarts = 0

-----------------------------------------------------------------------------
In(st) == {g \in Gens : state[g] = st}

(* The condition of every query of the cleanup. *)
Obsolete(g) ==
  state[g] = "superseded" \/ (state[g] = "failed" /\ In("active") # {})

HasObsolete == \E g \in Gens : Obsolete(g)

FtsRows == {r \in Rows : fts[r] # NoGen}
RowsOf(g) == {r \in Rows : fts[r] = g}

LastIn(S) == IF S = {} THEN 0 ELSE Max(S)

(* ORDER BY rowid LIMIT CLEANUP_BATCH_SIZE *)
First(S) == {x \in S : Cardinality({y \in S : y < x}) < BatchSize}

(* Builds: reserve_refresh_build, start_generation, insert_entries,          *)
(* promote_with_profile, fail_generation or abandon_generation, and          *)
(* finalize_owned_build.  While a build is in active_builds a cleanup does   *)
(* nothing but wait, so a request made there is part of the step before it.  *)
Reserve ==
  /\ build = "no" /\ build' = "reserved"
  /\ UNCHANGED <<db, owed, requested, run, restarts>>

StartGeneration ==
  /\ build = "reserved" /\ build' = "staging" /\ requested' = TRUE
  /\ \E g \in Gens :
       /\ g = LastIn(Gens \ In("none")) + 1
       /\ state' = [state EXCEPT ![g] = "staging"]
  /\ UNCHANGED <<entries, fts, owed, run, restarts>>

(* The build's own generation: an older staging row is one that a build      *)
(* could not mark as failed.                                                 *)
IsMine(g) == build = "staging" /\ g = LastIn(In("staging"))

InsertEntry ==
  /\ \E g \in Gens, r \in Rows :
       /\ IsMine(g) /\ r = LastIn(FtsRows) + 1
       /\ entries' = [entries EXCEPT ![g] = @ + 1]
       /\ fts' = [fts EXCEPT ![r] = g]
  /\ UNCHANGED <<state, build, owed, requested, run, restarts>>

Promote ==
  /\ \E g \in Gens :
       /\ IsMine(g)
       /\ state' = [h \in Gens |-> IF h = g THEN "active"
                                  ELSE IF state[h] = "active" THEN "superseded"
                                  ELSE state[h]]
  /\ build' = "ending" /\ requested' = TRUE
  /\ UNCHANGED <<entries, fts, owed, run, restarts>>

(* An empty generation may be dropped; an error of the database is logged.   *)
GiveUp ==
  /\ \E g \in Gens :
       /\ IsMine(g)
       /\ \/ state' = [state EXCEPT ![g] = "failed"] /\ requested' = TRUE
          \/ /\ entries[g] = 0 /\ RowsOf(g) = {}
             /\ state' = [state EXCEPT ![g] = "none"] /\ UNCHANGED requested
          \/ DbErrors /\ UNCHANGED <<state, requested>>
  /\ build' = "ending"
  /\ UNCHANGED <<entries, fts, owed, run, restarts>>

(* The build leaves active_builds first and asks for a cleanup later.  Bound: *)
(* one build at a time is between the two.                                   *)
ClearActiveBuild ==
  /\ build \in {"reserved", "ending"} /\ build' = "no"
  /\ ~owed /\ owed' = TRUE
  /\ UNCHANGED <<db, requested, run, restarts>>

ScheduleCleanup ==
  /\ owed /\ owed' = FALSE /\ requested' = TRUE
  /\ UNCHANGED <<db, build, run, restarts>>

NoTables ==
  /\ state' = [g \in Gens |-> "none"] /\ entries' = [g \in Gens |-> 0]
  /\ fts' = [r \in Rows |-> NoGen]

(* delete_index when no build runs; clear_server under the reservation of    *)
(* the build that follows a change of the browse profile.                    *)
ClearServer ==
  /\ Clears /\ build \in {"no", "reserved"}
  /\ NoTables
  /\ UNCHANGED <<build, owed, requested, run, restarts>>

-----------------------------------------------------------------------------
(* The cleanup *)

(* spawn_cleanup_worker_if_idle found the request. *)
StartRun ==
  /\ pc = "idle" /\ requested /\ pc' = "check"
  /\ UNCHANGED <<db, build, owed, requested, cursor, ftsFound, gensFound, gaveUp,
                 restarts>>

(* cleanup_task_should_run takes the request before anything is read. *)
TakeRequest ==
  /\ pc = "check" /\ pc' = "begin" /\ requested' = FALSE /\ gaveUp' = FALSE
  /\ UNCHANGED <<db, build, owed, cursor, ftsFound, gensFound, restarts>>

(* The run ends with the step `to`. *)
Stop(to) == pc' = to /\ ftsFound' = {} /\ gensFound' = {} /\ UNCHANGED cursor

(* Every attempt starts with a fresh cursor. *)
BeginWithOldCursor ==                  \* mutant of Begin
  /\ pc = "begin"
  /\ pc' = IF HasObsolete THEN "discover" ELSE "clear"
  /\ UNCHANGED <<db, build, owed, requested, cursor, ftsFound, gensFound, gaveUp,
                 restarts>>

Begin ==
  /\ pc = "begin"
  /\ pc' = IF HasObsolete THEN "discover" ELSE "clear"
  /\ cursor' = 0
  /\ UNCHANGED <<db, build, owed, requested, ftsFound, gensFound, gaveUp, restarts>>

(* cleanup_fts_candidates: the next rows by rowid. *)
FtsCandidates ==
  {<<r, fts[r]>> : r \in First({q \in FtsRows : q > cursor /\ Obsolete(fts[q])})}

GenerationCandidates ==
  First({g \in Gens : Obsolete(g) /\ entries[g] = 0 /\ RowsOf(g) = {}})

(* A batch that meets a build, or nothing to delete, ends the run: it waits  *)
(* with its request registered again, or is finished.                        *)
EndRun ==
  \/ Building /\ Stop("wait") /\ requested' = TRUE
  \/ ~Building /\ ~HasObsolete /\ Stop("clear") /\ UNCHANGED requested

(* cleanup_one_batch up to the writer gate. *)
Discover ==
  /\ pc = "discover"
  /\ \/ EndRun
     \/ /\ ~Building /\ HasObsolete
        /\ pc' = "delete" /\ ftsFound' = FtsCandidates
        /\ gensFound' = IF FtsCandidates = {} THEN GenerationCandidates ELSE {}
        /\ UNCHANGED <<cursor, requested>>
  /\ UNCHANGED <<db, build, owed, gaveUp, restarts>>

(* DELETE FROM entries ... LIMIT: which of the obsolete rows is up to SQLite. *)
EntriesGone(gone) ==
  LET rows == [g \in Gens |-> IF Obsolete(g) THEN entries[g] ELSE 0] IN
  /\ \A g \in Gens : gone[g] <= rows[g]
  /\ SumFunction(gone) = Min({BatchSize, SumFunction(rows)})

(* The candidates are looked at again. *)
UncheckedFts == {c[1] : c \in ftsFound}             \* mutant of FtsGone

FtsGone == {c[1] : c \in {d \in ftsFound : fts[d[1]] = d[2] /\ Obsolete(d[2])}}

GensGone(gone) ==
  {g \in gensFound : Obsolete(g) /\ entries[g] = gone[g]}

NextCursor == Max({cursor} \cup {c[1] : c \in ftsFound})

(* cleanup_one_batch under the writer gate: delete_cleanup_batch, and the    *)
(* end of the run when it found nothing to delete.                           *)
Delete ==
  /\ pc = "delete"
  /\ \/ EndRun /\ UNCHANGED db
     \/ /\ ~Building /\ HasObsolete
        /\ \E gone \in [Gens -> 0..BatchSize] :
             /\ EntriesGone(gone)
             /\ entries' = [g \in Gens |-> entries[g] - gone[g]]
             /\ fts' = [r \in Rows |-> IF r \in FtsGone THEN NoGen ELSE fts[r]]
             /\ state' = [g \in Gens |-> IF g \in GensGone(gone) THEN "none" ELSE state[g]]
             /\ IF SumFunction(gone) = 0 /\ FtsGone = {} /\ GensGone(gone) = {}
                THEN Stop("clear")
                ELSE /\ pc' = "discover" /\ ftsFound' = {} /\ gensFound' = {}
                     /\ cursor' = NextCursor
        /\ UNCHANGED requested
  /\ UNCHANGED <<build, owed, gaveUp, restarts>>

(* The attempt fails: retry_cleanup_after_failure tries again or, at its     *)
(* limit, lets the run count as finished.                                    *)
AttemptFails ==
  /\ DbErrors /\ pc \in {"begin", "discover", "delete"}
  /\ \/ Stop("check") /\ UNCHANGED gaveUp
     \/ Stop("clear") /\ gaveUp' = TRUE
  /\ UNCHANGED <<db, build, owed, requested, restarts>>

(* wait_for_deferred_cleanup: a build has ended, whatever has begun since.   *)
Resume ==
  /\ pc = "wait" /\ pc' = "check"
  /\ UNCHANGED <<db, build, owed, requested, cursor, ftsFound, gensFound, gaveUp,
                 restarts>>

(* clear_finished_cleanup_task: once more for what was requested meanwhile.  *)
ClearFinished ==
  /\ pc = "clear" /\ pc' = IF requested THEN "check" ELSE "idle"
  /\ UNCHANGED <<db, build, owed, requested, cursor, ftsFound, gensFound, gaveUp,
                 restarts>>

(* "namespace index relational and full-text data are inconsistent": what    *)
(* open_once insists on.                                                     *)
TablesAgree == (\E g \in Gens : entries[g] > 0) <=> FtsRows # {}

(* The process ends and the database is opened again: open_once moves a file *)
(* whose tables disagree away and starts from nothing; initialize_database   *)
(* asks for a cleanup unless its query fails.                                *)
Restart ==
  /\ restarts < MaxRestarts /\ restarts' = restarts + 1
  /\ build' = "no" /\ owed' = FALSE /\ Stop("idle")
  /\ \/ /\ TablesAgree
        /\ state' = [g \in Gens |->
                       IF state[g] # "staging" THEN state[g]
                       ELSE IF In("active") # {} THEN "superseded" ELSE "failed"]
        /\ UNCHANGED <<entries, fts>>
     \/ ~TablesAgree /\ NoTables
  /\ \/ requested' = HasObsolete' /\ gaveUp' = FALSE
     \/ DbErrors /\ requested' = FALSE /\ gaveUp' = TRUE

-----------------------------------------------------------------------------
BatchNext ==
  \/ Reserve \/ StartGeneration \/ InsertEntry \/ Promote \/ GiveUp
  \/ ClearActiveBuild \/ ScheduleCleanup \/ ClearServer
  \/ StartRun \/ TakeRequest \/ Begin \/ Discover \/ Delete \/ AttemptFails \/ Resume \/ ClearFinished
  \/ Restart

BatchSpec == BatchInit /\ [][BatchNext]_batchVars

-----------------------------------------------------------------------------
(* However old the candidates are when the writer gate is won, and whatever  *)
(* was deleted, rebuilt under the same generation number and given the same  *)
(* rowids since, the cleanup takes no row of a generation that is being      *)
(* built or served.                                                          *)
DeletesOnlyObsolete ==
  [][Delete => \A g \in Gens :
       ~Obsolete(g) => /\ state'[g] = state[g] /\ entries'[g] = entries[g]
                       /\ \A r \in RowsOf(g) : fts'[r] = g]_batchVars

(* Nothing obsolete is left behind unasked: when the cleanup is done and no  *)
(* request is registered, either everything obsolete is gone, or the build   *)
(* that made it so has yet to ask, or the cleanup failed.  A run skips what  *)
(* became obsolete below its cursor, and counts as finished all the same.    *)
LeftoversAreRequested ==
  pc = "idle" /\ HasObsolete => requested \/ owed \/ Building \/ gaveUp

(* A generation goes last: no row is left that belongs to none.              *)
NoOrphans ==
  \A g \in Gens : state[g] = "none" => entries[g] = 0 /\ RowsOf(g) = {}

=============================================================================
