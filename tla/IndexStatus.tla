----------------------------- MODULE IndexStatus -----------------------------
(***************************************************************************)
(* The status of an index as a function of what IndexManager::status has   *)
(* read, one lock and one query after the other.                           *)
(*                                                                         *)
(* Code: index/status.rs (status_during_build ... empty_status),           *)
(* index/store.rs (status_rows, StatusRows::from_rows).                    *)
(*                                                                         *)
(* Of an IndexStatus: the state, active_generation and where last_error    *)
(* comes from.  Counts, timestamps, limits and metrics are copied from the *)
(* same row or the same build and left out.                                *)
(***************************************************************************)
EXTENDS Naturals, FiniteSetsExt

IndexStates == {"notIndexed", "partial", "ready", "stale", "refreshing", "promoting",
                "failed", "deleting"}
Errors == {"none", "generation", "build", "read", "deletion"}

(* The first row of a state in status_rows, which sorts by generation, the   *)
(* youngest first; 0: there is none.                                         *)
Newest(table, st) == Max({g \in DOMAIN table : table[g] = st} \cup {0})

(* StatusRows::from_rows *)
FromRows(table) ==
  [active |-> Newest(table, "active"), staging |-> Newest(table, "staging"),
   failed |-> Newest(table, "failed")]

NoStatusRows == [active |-> 0, staging |-> 0, failed |-> 0]
FailedAfterActive(r) == r.active > 0 /\ r.failed > r.active

(* active, or else staging, or else failed *)
ShownRow(r) ==
  IF r.active > 0 THEN "active" ELSE IF r.staging > 0 THEN "staging"
  ELSE IF r.failed > 0 THEN "failed" ELSE "none"

EmptyStatus(st) == [state |-> st, active |-> 0, error |-> "none"]

(* status_from_row: only an active row names a generation. *)
StatusFromRow(r, st) ==
  [state |-> st, active |-> r.active,
   error |-> IF ShownRow(r) = "failed" THEN "generation" ELSE "none"]

StatusFromRuntimeBuild(promoting) ==
  EmptyStatus(IF promoting THEN "promoting" ELSE "partial")

StatusDuringBuild(r, promoting) ==
  IF ShownRow(r) = "none" THEN StatusFromRuntimeBuild(promoting)
  ELSE StatusFromRow(r, CASE promoting -> "promoting"
                          [] ~promoting /\ ShownRow(r) = "active" -> "refreshing"
                          [] ~promoting /\ ShownRow(r) = "staging" -> "partial"
                          [] OTHER -> "failed")

(* stale: more than the refresh interval has passed since the completion. *)
StatusFromActiveRow(r, stale) ==
  IF FailedAfterActive(r)
  THEN [StatusFromRow(r, "failed") EXCEPT !.error = "generation"]
  ELSE StatusFromRow(r, IF stale THEN "stale" ELSE "ready")

StatusWithoutBuild(r, stale) ==
  CASE ShownRow(r) = "active" -> StatusFromActiveRow(r, stale)
    [] ShownRow(r) = "staging" -> StatusFromRow(r, "partial")
    [] ShownRow(r) = "failed" -> StatusFromRow(r, "failed")
    [] OTHER -> EmptyStatus("notIndexed")

BaseStatus(r, building, promoting, stale) ==
  IF building THEN StatusDuringBuild(r, promoting) ELSE StatusWithoutBuild(r, stale)

(* mutant of ApplyStatusErrors: only the rows tell of a failure *)
RowsTellFailures(status, building, buildError, readError) ==
  [status EXCEPT !.error = IF readError THEN "read" ELSE @]

(* The error of the last build shows only while no other build runs; a read  *)
(* error leaves the state alone.                                             *)
ApplyStatusErrors(status, building, buildError, readError) ==
  LET ended == ~building /\ buildError IN
  [status EXCEPT !.state = IF ended THEN "failed" ELSE @,
                 !.error = CASE readError -> "read" [] ~readError /\ ended -> "build"
                             [] OTHER -> @]

ApplyDeletionError(status, deletionError) ==
  IF deletionError THEN [status EXCEPT !.state = "failed", !.error = "deletion"]
  ELSE status
=============================================================================
