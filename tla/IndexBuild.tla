----------------------------- MODULE IndexBuild -----------------------------
(***************************************************************************)
(* The life of a namespace-index build in the gateway's IndexManager: who  *)
(* may start one, how its staging generation is written and promoted, how  *)
(* the reservation is released, and how operator cancellation, deletion,   *)
(* graceful shutdown and a restart of the process interleave with it.      *)
(*                                                                         *)
(* Code: crates/opcda-bridge-gateway/src/index/{enrollment,traversal,      *)
(* scheduler,store}.rs.  One step of the model is one critical section (or *)
(* one database transaction) of the code; what happens between two awaits  *)
(* or two lock acquisitions of one task can interleave with every other    *)
(* task.  A refresh call, the build task it spawns and the release of the  *)
(* reservation are one element of Tasks; the element's identity stands for *)
(* the ownership token (Arc<()>) and for the inventory control the call    *)
(* creates, both compared by Arc::ptr_eq in the code.                      *)
(***************************************************************************)
EXTENDS Naturals, FiniteSets

CONSTANTS
  Servers,         \* OPC servers (ProgIDs) that discovery reports
  Tasks,           \* refresh calls in flight, each with the build it starts
  Items,           \* ItemIDs an inventory may report
  NoTask,          \* absence of a task (None in the code)
  Orphan,          \* token or control of a call that its client abandoned
  Env,             \* bound: what the environment does
  MaxGen,          \* bound: generation numbers of one server
  MaxFailures,     \* bound: consecutive_failures saturates here
  MaxRestarts,     \* bound: process restarts
  MaxOrphans,      \* bound: reservations left behind by abandoned calls
  Concurrency,     \* settings.concurrency
  Threshold        \* settings.circuit_failure_threshold

ASSUME BuildAssumption ==
  /\ NoTask \notin Tasks /\ Orphan \notin Tasks /\ NoTask # Orphan
  /\ Env \subseteq {"manual", "forced", "auto", "cancel", "delete", "shutdown",
                     "clock", "panic", "dberror", "cleanup"}
  /\ MaxGen \in Nat \ {0}
  /\ MaxFailures \in Nat
  /\ MaxRestarts \in Nat
  /\ MaxOrphans \in Nat
  /\ Concurrency \in Nat \ {0}
  /\ Threshold \in Nat
  /\ Servers # {} /\ IsFiniteSet(Servers) /\ IsFiniteSet(Items)

VARIABLES
  \* --- durable: the SQLite store ---
  enrolled,   \* servers with a row in enrolled_servers
  optedIn,    \* those with auto_refresh_enabled = 1
  gens,       \* [Servers -> [1..MaxGen -> state of the generation row]]
  rows,       \* [Servers -> [1..MaxGen -> items in entries / entries_fts]]
  count,      \* [Servers -> [1..MaxGen -> entry_count]]
  dbRetry,    \* [Servers -> retry_after, failures, circuit keys of index_meta]
  \* --- memory of the process ---
  deleting,   \* IndexManager.deleting
  owners,     \* coordination.build_owners: [Servers -> token or NoTask]
  active,     \* coordination.active_builds
  lock,       \* holder of the server's build file lock (build_locks)
  build,      \* servers whose RuntimeState.build is Some
  ctl,        \* RuntimeBuild.control
  opUntil,    \* RuntimeBuild.operator_cancelled_until
  retry,      \* RuntimeState retry_after, consecutive_failures, circuit_open
  pending,    \* IndexManager.pending_cancels
  cancelled,  \* [Tasks -> has the task's InventoryControl been cancelled]
  cancelling, \* servers whose Cancel call has passed its checks
  stopping,   \* background_tasks: "no" | "requested" | "cancelled" | "idle"
  dpc,        \* [Servers -> step of delete_index_background]
  restarts,   \* bounds Restart
  \* --- locals of the refresh / build tasks ---
  pc, srv, kind, gen, seen, error, withCtl, sent, buffered, kept, end

durable == <<enrolled, optedIn, gens, rows, count, dbRetry>>
runtime == <<build, ctl, opUntil, retry>>
registry == <<owners, active, lock>>
locals == <<srv, kind, gen, seen, sent, buffered, kept, end>>
outcome == <<error, withCtl>>
others == <<deleting, pending, cancelling, stopping, dpc, restarts>>
vars == <<durable, runtime, registry, locals, outcome, others, pc, cancelled>>

-----------------------------------------------------------------------------
(* retry_after is only compared with the clock: `wait` says that it is set  *)
(* and still to come; max over two deadlines is disjunction.                *)
RetryState == [wait : BOOLEAN, failures : 0..MaxFailures, open : BOOLEAN]
NoRetry == [wait |-> FALSE, failures |-> 0, open |-> FALSE]

(* operator_cancelled_until: None, passed, still to come.                   *)
Deadline == {"none", "past", "future"}

Gens == 1..MaxGen
GenState == {"absent", "staging", "active", "superseded", "failed"}

(* SELECT COALESCE(MAX(generation), 0) + 1 FROM generations. *)
IsNextGen(s, g) ==
  /\ \A h \in Gens : gens[s][h] # "absent" => h < g
  /\ g = 1 \/ \E h \in Gens : gens[s][h] # "absent" /\ h + 1 = g

HasActive(s) == \E g \in Gens : gens[s][g] = "active"

(* has_obsolete_generations: what cleanup may delete. *)
Obsolete(s, g) ==
  \/ gens[s][g] = "superseded"
  \/ gens[s][g] = "failed" /\ HasActive(s)

ShuttingDown == stopping # "no"

(* A write to the database or a lock file may fail (disk full, I/O error).  *)
DbError == "dberror" \in Env

Step(t, from, to) == pc[t] = from /\ pc' = [pc EXCEPT ![t] = to]

(* The build runs in the task that launch_refresh_build spawned, no longer  *)
(* in the call that reserved it.                                            *)
Spawned(t) == pc[t] = "loop" \/ end[t] # "open"

(* From the reservation to the release of the file lock.                    *)
ReservedStep ==
  {"invalidate", "starting", "attach", "attached", "probe", "startgen",
   "launch", "loop", "settle", "promote", "fail", "abandon", "startfail",
   "finish", "persist", "disown", "deactivate", "unlock"}

PcSet == ReservedStep \cup
  {"idle", "validate", "enroll", "probing", "reserve", "take", "unpend"}

EndState ==
  {"open", "complete", "incomplete", "cancelled", "interrupted", "failed"}

DeleteSteps ==
  {"none", "cancel", "wait", "lock", "db", "forget", "unpend", "done"}

Owner == Tasks \cup {NoTask, Orphan}

StoreOK ==
  /\ enrolled \in SUBSET Servers /\ optedIn \in SUBSET Servers
  /\ gens \in [Servers -> [Gens -> GenState]]
  /\ rows \in [Servers -> [Gens -> SUBSET Items]]
  /\ count \in [Servers -> [Gens -> Nat]]
  /\ dbRetry \in [Servers -> RetryState]

MemoryOK ==
  /\ deleting \in SUBSET Servers /\ active \in SUBSET Servers
  /\ build \in SUBSET Servers /\ pending \in SUBSET Servers
  /\ cancelling \in SUBSET Servers
  /\ owners \in [Servers -> Owner]
  /\ lock \in [Servers -> {"free", "build", "delete"}]
  /\ ctl \in [Servers -> Owner]
  /\ opUntil \in [Servers -> Deadline]
  /\ retry \in [Servers -> RetryState]
  /\ stopping \in {"no", "requested", "cancelled", "idle"}
  /\ dpc \in [Servers -> DeleteSteps]
  /\ restarts \in 0..MaxRestarts

TasksOK ==
  /\ pc \in [Tasks -> PcSet]
  /\ srv \in [Tasks -> Servers]
  /\ kind \in [Tasks -> {"manual", "forced", "auto", "profile"}]
  /\ gen \in [Tasks -> 0..MaxGen]
  /\ seen \in [Tasks -> 0..MaxGen]
  /\ error \in [Tasks -> {"none", "error", "interrupted"}]
  /\ withCtl \in [Tasks -> BOOLEAN]
  /\ cancelled \in [Tasks -> BOOLEAN]
  /\ sent \in [Tasks -> SUBSET Items]
  /\ buffered \in [Tasks -> SUBSET Items]
  /\ kept \in [Tasks -> Nat]
  /\ end \in [Tasks -> EndState]

(* The types of the store, of the process memory and of the task locals.    *)
TypeOK == StoreOK /\ MemoryOK /\ TasksOK

-----------------------------------------------------------------------------
AnyServer == CHOOSE s \in Servers : TRUE

PerServer(v) == [s \in Servers |-> v]
PerTask(v) == [t \in Tasks |-> v]
PerGen(v) == [g \in Gens |-> v]

EmptyStore ==
  /\ gens = PerServer(PerGen("absent"))
  /\ rows = PerServer(PerGen({}))
  /\ count = PerServer(PerGen(0))
  /\ dbRetry = PerServer(NoRetry)
  /\ enrolled = {} /\ optedIn = {}

(* IndexManager::new: nothing of a previous process survives in memory.     *)
FreshProcess ==
  /\ deleting = {} /\ active = {} /\ build = {} /\ pending = {}
  /\ cancelling = {} /\ stopping = "no"
  /\ owners = PerServer(NoTask) /\ lock = PerServer("free")
  /\ ctl = PerServer(NoTask) /\ opUntil = PerServer("none")
  /\ retry = PerServer(NoRetry) /\ dpc = PerServer("none")
  /\ pc = PerTask("idle") /\ cancelled = PerTask(FALSE)
  /\ srv = PerTask(AnyServer) /\ kind = PerTask("manual")
  /\ gen = PerTask(0) /\ seen = PerTask(0)
  /\ error = PerTask("none") /\ withCtl = PerTask(FALSE)
  /\ sent = PerTask({}) /\ buffered = PerTask({})
  /\ kept = PerTask(0) /\ end = PerTask("open")

Init == EmptyStore /\ FreshProcess /\ restarts = 0

-----------------------------------------------------------------------------
(* Building blocks of the task actions.                                     *)

(* The call (or the spawned build task) is over; its locals die with it.    *)
Return(t) ==
  /\ pc' = [pc EXCEPT ![t] = "idle"]
  /\ srv' = [srv EXCEPT ![t] = AnyServer]
  /\ kind' = [kind EXCEPT ![t] = "manual"]
  /\ gen' = [gen EXCEPT ![t] = 0] /\ seen' = [seen EXCEPT ![t] = 0]
  /\ error' = [error EXCEPT ![t] = "none"]
  /\ withCtl' = [withCtl EXCEPT ![t] = FALSE]
  /\ sent' = [sent EXCEPT ![t] = {}] /\ buffered' = [buffered EXCEPT ![t] = {}]
  /\ kept' = [kept EXCEPT ![t] = 0] /\ end' = [end EXCEPT ![t] = "open"]
  /\ cancelled' = [cancelled EXCEPT ![t] = FALSE]

(* Go on at step `to` with the outcome that finish_build_owned (c = FALSE)  *)
(* or finish_build_for_control_owned (c = TRUE) will be called with.        *)
Outcome(t, to, e, c) ==
  /\ pc' = [pc EXCEPT ![t] = to]
  /\ error' = [error EXCEPT ![t] = e]
  /\ withCtl' = [withCtl EXCEPT ![t] = c]

CancelControl(t) == cancelled' = [cancelled EXCEPT ![t] = TRUE]

(* A snapshot of the active generation (its number and completed_at) taken  *)
(* by the scheduler stops matching when that generation is replaced or      *)
(* deleted: completed_at differs even when the number is reused.            *)
ForgetSeen(s) ==
  seen' = [t \in Tasks |-> IF srv[t] = s THEN 0 ELSE seen[t]]

-----------------------------------------------------------------------------
(* Enrollment and reservation.                                              *)

(* refresh, up to the await of validate_server_for_enrollment.              *)
Refresh(t, s, k) ==
  /\ k \in Env /\ pc[t] = "idle" /\ s \notin deleting /\ ~ShuttingDown
  /\ pc' = [pc EXCEPT ![t] = IF s \in enrolled THEN "reserve" ELSE "validate"]
  /\ srv' = [srv EXCEPT ![t] = s]
  /\ kind' = [kind EXCEPT ![t] = k]
  /\ UNCHANGED <<durable, runtime, registry, gen, seen, sent, buffered, kept,
                 end, outcome, others, cancelled>>

(* list_servers answered, failed, timed out or did not report the server.   *)
Validate(t) ==
  \/ /\ Step(t, "validate", "enroll")
     /\ UNCHANGED <<locals, outcome, cancelled, durable, runtime, registry, others>>
  \/ /\ pc[t] = "validate" /\ Return(t)
     /\ UNCHANGED <<durable, runtime, registry, others>>

Enroll(t) ==
  /\ Step(t, "enroll", "reserve")
  /\ enrolled' = enrolled \cup {srv[t]}
  /\ UNCHANGED <<optedIn, gens, rows, count, dbRetry, runtime, registry, locals,
                 outcome, others, cancelled>>

(* load_persisted_retry_state: what reserve_refresh_build decides on.       *)
LoadedRetry(s) ==
  LET wait == retry[s].wait \/ dbRetry[s].wait
  IN  IF s \in build THEN retry[s]
      ELSE [wait |-> wait, failures |-> dbRetry[s].failures,
            open |-> dbRetry[s].open /\ wait]

BackingOff(t) ==
  LET r == LoadedRetry(srv[t])
  IN  kind[t] # "forced" /\ (r.wait \/ r.open)

Automatic(t) == kind[t] \in {"auto", "profile"}

BusyWithoutRegistries(t) ==            \* mutant of Busy
  BackingOff(t) \/ Cardinality(active) >= Concurrency

(* The early return of reserve_refresh_build, before the retry state is     *)
(* loaded.                                                                  *)
Ineligible(t) ==
  \/ ShuttingDown
  \/ srv[t] \in deleting
  \/ srv[t] \notin enrolled
  \/ Automatic(t) /\ srv[t] \notin optedIn

Busy(t) ==
  \/ srv[t] \in build
  \/ BackingOff(t)
  \/ Cardinality(active) >= Concurrency
  \/ lock[srv[t]] # "free"
  \/ owners[srv[t]] # NoTask

(* Bound: no build starts when the last generation number is in use.        *)
AtBound(s) == gens[s][MaxGen] # "absent"

(* reserve_refresh_build declines, or bails out: the call returns.  With too *)
(* little free space it does so before the retry state is loaded, with an    *)
(* error of the lock file afterwards.                                        *)
ReserveDenied(t) ==
  LET loaded == [retry EXCEPT ![srv[t]] = LoadedRetry(srv[t])] IN
  /\ pc[t] = "reserve"
  /\ \/ (Ineligible(t) \/ DbError) /\ retry' = retry
     \/ /\ ~Ineligible(t)
        /\ Busy(t) \/ AtBound(srv[t]) \/ DbError
        /\ retry' = loaded
  /\ Return(t)
  /\ UNCHANGED <<durable, build, ctl, opUntil, registry, others>>

ReserveGranted(t) ==
  LET s == srv[t] IN
  /\ ~Ineligible(t) /\ ~Busy(t) /\ ~AtBound(s)
  /\ Step(t, "reserve", IF kind[t] = "profile" THEN "invalidate" ELSE "starting")
  /\ retry' = [retry EXCEPT ![s] = LoadedRetry(s)]
  /\ owners' = [owners EXCEPT ![s] = t]
  /\ active' = active \cup {s}
  /\ lock' = [lock EXCEPT ![s] = "build"]
  /\ build' = build \cup {s}
  /\ ctl' = [ctl EXCEPT ![s] = NoTask]
  /\ opUntil' = [opUntil EXCEPT ![s] = "none"]
  /\ UNCHANGED <<durable, locals, outcome, others, cancelled>>

-----------------------------------------------------------------------------
(* The scheduler: one loop that looks at opted-in servers one after another. *)

SchedulerIdle == \A u \in Tasks : Automatic(u) => Spawned(u)

AutomaticAllowed(s) ==
  /\ s \in optedIn /\ HasActive(s)
  /\ s \notin build /\ s \notin deleting
  /\ ~LoadedRetry(s).wait

(* refresh_if_due and refresh_existing_index_if_due, up to the await of the *)
(* capability probe.                                                        *)
RefreshIfDue(t, s) ==
  /\ "auto" \in Env
  /\ Step(t, "idle", "probing") /\ SchedulerIdle /\ ~ShuttingDown
  /\ AutomaticAllowed(s)
  /\ srv' = [srv EXCEPT ![t] = s]
  /\ kind' = [kind EXCEPT ![t] = "auto"]
  /\ \E g \in Gens : gens[s][g] = "active" /\ seen' = [seen EXCEPT ![t] = g]
  /\ UNCHANGED <<durable, runtime, registry, gen, sent, buffered, kept, end,
                 outcome, others, cancelled>>

(* The probe answered: the snapshot is rechecked, then the stale or failed   *)
(* index is refreshed, or rebuilt when the browse profile changed.           *)
RefreshAfterProbe(t) ==
  LET s == srv[t]
      current == AutomaticAllowed(s) /\ seen[t] # 0
  IN
  \/ /\ current
     /\ Step(t, "probing", "reserve")
     /\ \E k \in {"auto", "profile"} : kind' = [kind EXCEPT ![t] = k]
     /\ UNCHANGED <<durable, runtime, registry, srv, gen, seen, sent, buffered,
                    kept, end, outcome, others, cancelled>>
  \/ /\ pc[t] = "probing"   \* probe failed, nothing due, or snapshot stale
     /\ Return(t)
     /\ UNCHANGED <<durable, runtime, registry, others>>

(* refresh_after_profile_change, once reserved: recheck in one write         *)
(* transaction, drop the incompatible generations, rebuild from nothing.     *)
InvalidateProfile(t) ==
  LET s == srv[t]
      stale == s \in pending \/ s \notin optedIn \/ seen[t] = 0
  IN
  /\ pc[t] = "invalidate"
  /\ \/ /\ stale
        /\ Outcome(t, "finish", "none", FALSE)
        /\ UNCHANGED <<gens, rows, count, seen>>
     \/ /\ ~stale
        /\ pc' = [pc EXCEPT ![t] = "starting"]
        /\ gens' = [gens EXCEPT ![s] = PerGen("absent")]
        /\ rows' = [rows EXCEPT ![s] = PerGen({})]
        /\ count' = [count EXCEPT ![s] = PerGen(0)]
        /\ ForgetSeen(s)
        /\ UNCHANGED outcome
     \/ /\ DbError
        /\ pc' = [pc EXCEPT ![t] = "startfail"]
        /\ UNCHANGED <<gens, rows, count, seen, outcome>>
  /\ UNCHANGED <<enrolled, optedIn, dbRetry, runtime, registry, srv, kind, gen,
                 sent, buffered, kept, end, others, cancelled>>

-----------------------------------------------------------------------------
(* Startup of a reserved build.                                             *)

(* start_refresh_inventory: the handle is there, or the start failed.       *)
StartInventory(t) ==
  LET s == srv[t] IN
  /\ pc[t] = "starting"
  /\ \/ /\ pc' = [pc EXCEPT ![t] = "attach"]
        /\ UNCHANGED <<pending, outcome>>
     \/ /\ s \in pending
        /\ pending' = pending \ {s}
        /\ Outcome(t, "finish", "none", FALSE)
     \/ /\ s \notin pending
        /\ pc' = [pc EXCEPT ![t] = "startfail"]
        /\ UNCHANGED <<pending, outcome>>
  /\ UNCHANGED <<durable, runtime, registry, locals, deleting, cancelling,
                 stopping, dpc, restarts, cancelled>>

(* record_start_failure: a failed generation without rows tells the reason.  *)
RecordStartFailure(t) ==
  LET s == srv[t] IN
  /\ pc[t] = "startfail"
  /\ Outcome(t, "finish", "error", FALSE)
  /\ \/ \E g \in Gens :
          /\ IsNextGen(s, g)
          /\ gens' = [gens EXCEPT ![s][g] = "failed"]
     \/ DbError /\ UNCHANGED gens
  /\ UNCHANGED <<enrolled, optedIn, rows, count, dbRetry, runtime, registry,
                 locals, others, cancelled>>

(* attach_refresh_control: pacing is applied, then the control is published  *)
(* under the runtime lock.                                                   *)
AttachControl(t) ==
  LET s == srv[t] IN
  /\ pc[t] = "attach"
  /\ \/ /\ s \in build                            \* published
        /\ pc' = [pc EXCEPT ![t] = "attached"]
        /\ ctl' = [ctl EXCEPT ![s] = t]
        /\ UNCHANGED <<pending, outcome, cancelled>>
     \/ /\ s \in pending                          \* pacing failed or no build
        /\ pending' = pending \ {s}
        /\ Outcome(t, "finish", "none", FALSE)
        /\ CancelControl(t) /\ UNCHANGED ctl
     \/ /\ s \notin pending                       \* pacing failed
        /\ pc' = [pc EXCEPT ![t] = "startfail"]
        /\ CancelControl(t) /\ UNCHANGED <<pending, ctl, outcome>>
     \/ /\ s \notin pending /\ s \notin build     \* build disappeared
        /\ Outcome(t, "finish", "error", FALSE)
        /\ CancelControl(t) /\ UNCHANGED <<pending, ctl>>
  /\ UNCHANGED <<durable, build, opUntil, retry, registry, locals, deleting,
                 cancelling, stopping, dpc, restarts>>

TakePendingCancelOnlyShutdown(t) ==    \* mutant of TakePendingCancel
  /\ pc[t] = "attached"
  /\ IF ShuttingDown
     THEN Outcome(t, "finish", "none", FALSE) /\ CancelControl(t)
     ELSE pc' = [pc EXCEPT ![t] = "probe"] /\ UNCHANGED <<outcome, cancelled>>
  /\ UNCHANGED <<durable, runtime, registry, locals, others>>

(* take_pending_cancel after the control was published, then the shutdown    *)
(* check of refresh_reserved.                                                *)
TakePendingCancel(t) ==
  LET s == srv[t] IN
  /\ pc[t] = "attached"
  /\ \/ /\ s \in pending
        /\ pending' = pending \ {s}
        /\ Outcome(t, "finish", "none", TRUE)
        /\ CancelControl(t)
     \/ /\ s \notin pending /\ ShuttingDown
        /\ Outcome(t, "finish", "none", FALSE)
        /\ CancelControl(t) /\ UNCHANGED pending
     \/ /\ s \notin pending /\ ~ShuttingDown
        /\ pc' = [pc EXCEPT ![t] = "probe"]
        /\ UNCHANGED <<pending, outcome, cancelled>>
  /\ UNCHANGED <<durable, runtime, registry, locals, deleting, cancelling,
                 stopping, dpc, restarts>>

(* Error paths of start_refresh_generation: an already cancelled control is  *)
(* not a failure.                                                            *)
StartGenerationFailed(t) ==
  /\ IF cancelled[t]
     THEN Outcome(t, "finish", "none", TRUE)
     ELSE pc' = [pc EXCEPT ![t] = "startfail"] /\ UNCHANGED outcome
  /\ CancelControl(t)

ProbeCapabilities(t) ==
  /\ \/ Step(t, "probe", "startgen") /\ UNCHANGED <<outcome, cancelled>>
     \/ pc[t] = "probe" /\ StartGenerationFailed(t)
  /\ UNCHANGED <<durable, runtime, registry, locals, others>>

(* db.start_generation: (re)enroll and insert the staging row.               *)
StartGeneration(t) ==
  LET s == srv[t] IN
  /\ pc[t] = "startgen"
  /\ \/ /\ pc' = [pc EXCEPT ![t] = "launch"]
        /\ enrolled' = enrolled \cup {s}
        /\ \E g \in Gens :
             /\ IsNextGen(s, g)
             /\ gens' = [gens EXCEPT ![s][g] = "staging"]
             /\ gen' = [gen EXCEPT ![t] = g]
        /\ UNCHANGED <<outcome, cancelled>>
     \/ DbError /\ StartGenerationFailed(t) /\ UNCHANGED <<enrolled, gens, gen>>
  /\ UNCHANGED <<optedIn, rows, count, dbRetry, runtime, registry, srv, kind,
                 seen, sent, buffered, kept, end, others>>

(* launch_refresh_build: the published control is still ours, nobody         *)
(* cancelled it, and the task registry accepts the build task.               *)
LaunchBuild(t) ==
  LET s == srv[t]
      ours == s \in build /\ ctl[s] = t
  IN
  /\ pc[t] = "launch"
  /\ \/ /\ ~ours
        /\ Outcome(t, "abandon", IF cancelled[t] THEN "none" ELSE "error", FALSE)
        /\ CancelControl(t)
     \/ /\ ours /\ cancelled[t]
        /\ Outcome(t, "abandon", "none", TRUE)
        /\ UNCHANGED cancelled
     \/ /\ ours /\ ~cancelled[t] /\ ShuttingDown   \* seen before or by spawn
        /\ \E c \in BOOLEAN : Outcome(t, "abandon", "none", c)
        /\ CancelControl(t)
     \/ /\ ours /\ ~cancelled[t] /\ ~ShuttingDown
        /\ pc' = [pc EXCEPT ![t] = "loop"]
        /\ UNCHANGED <<outcome, cancelled>>
  /\ UNCHANGED <<durable, runtime, registry, locals, others>>

-----------------------------------------------------------------------------
(* The run state of a build is dropped when its generation is settled.      *)
DropRun(t) ==
  /\ sent' = [sent EXCEPT ![t] = {}]
  /\ buffered' = [buffered EXCEPT ![t] = {}]
  /\ kept' = [kept EXCEPT ![t] = 0]

(* run_build: the spawned task drains the inventory into the generation.    *)

(* insert_entries in one transaction: INSERT OR IGNORE keeps one row per     *)
(* ItemID and counts the rows that are new.                                  *)
InsertEntries(t, batch) ==
  LET s == srv[t]
      g == gen[t]
  IN
  /\ gens[s][g] # "absent"                        \* foreign key
  /\ rows' = [rows EXCEPT ![s][g] = @ \cup batch]
  /\ kept' = [kept EXCEPT ![t] = @ + Cardinality(batch \ rows[s][g])]
  /\ buffered' = [buffered EXCEPT ![t] = {}]

(* handle_entry_event: buffered, or committed when the batch is full.        *)
ReceiveEntry(t, i) ==
  /\ pc[t] = "loop"
  /\ sent' = [sent EXCEPT ![t] = @ \cup {i}]
  /\ \/ /\ buffered' = [buffered EXCEPT ![t] = @ \cup {i}]
        /\ UNCHANGED <<rows, kept>>
     \/ InsertEntries(t, buffered[t] \cup {i})
  /\ UNCHANGED <<enrolled, optedIn, gens, count, dbRetry, runtime, registry, srv,
                 kind, gen, seen, end, outcome, others, pc, cancelled>>

(* commit_pending_if_due: the commit interval elapsed.                       *)
CommitDue(t) ==
  /\ pc[t] = "loop" /\ buffered[t] # {}
  /\ InsertEntries(t, buffered[t])
  /\ UNCHANGED <<enrolled, optedIn, gens, count, dbRetry, runtime, registry, srv,
                 kind, gen, seen, sent, end, outcome, others, pc, cancelled>>

(* The loop ends with e; c is the control flag it leaves behind.             *)
LeaveLoop(t, e, c) ==
  /\ Step(t, "loop", "settle")
  /\ end' = [end EXCEPT ![t] = e]
  /\ cancelled' = [cancelled EXCEPT ![t] = c]
  /\ UNCHANGED <<durable, runtime, registry, srv, kind, gen, seen, sent, buffered,
                 kept, outcome, others>>

(* A Completed event; a truncated inventory is a failure.  The inventory     *)
(* reports "cancelled" only when its control was cancelled.                  *)
InventoryCompleted(t) ==
  \E e \in {"complete", "incomplete", "cancelled", "failed"} :
    /\ e = "cancelled" => cancelled[t]
    /\ LeaveLoop(t, e, cancelled[t])

(* Error event, commit or progress write failed (the control stays as it     *)
(* is); event timeout, rejected pacing, failed readiness (it is cancelled).  *)
InventoryFailed(t) ==
  \E c \in {cancelled[t], TRUE} : LeaveLoop(t, "failed", c)

OperatorCancelled(t) ==
  LET s == srv[t] IN s \in build /\ opUntil[s] # "none" /\ ctl[s] = t

(* The stream ended without a terminal event, or a wait observed the         *)
(* cancelled control: classified by who stopped it.                          *)
StreamEnded(t) ==
  LeaveLoop(t, IF OperatorCancelled(t) THEN "cancelled"
               ELSE IF ShuttingDown THEN "interrupted" ELSE "failed",
            cancelled[t])

(* The build task unwinds: BuildFinalizationGuard cleans up.                 *)
BuildPanics(t) ==
  /\ "panic" \in Env /\ pc[t] \in {"loop", "settle"}
  /\ Outcome(t, "fail", "error", TRUE)
  /\ CancelControl(t)
  /\ end' = [end EXCEPT ![t] = "failed"]
  /\ UNCHANGED <<durable, runtime, registry, srv, kind, gen, seen, sent, buffered,
                 kept, others>>

(* The ends of a build: what becomes of its generation, and the outcome it   *)
(* is released with.                                                         *)
FinishFailedBuild(t) == Outcome(t, "fail", "error", TRUE)
FinishInterruptedBuild(t) == Outcome(t, "fail", "interrupted", TRUE)
FinishCompletedBuild(t) == Outcome(t, "promote", "none", TRUE)
FinishPromotedBuild(t) == Outcome(t, "finish", "none", TRUE)
FinishPromotionFailure(t) == Outcome(t, "fail", "error", TRUE)
FinishCancelledBuild(t) == Outcome(t, "abandon", "none", TRUE)

(* How finalize_build goes on from the loop's end state.                     *)
Finalize(t, e) ==
  CASE e = "failed"      -> FinishFailedBuild(t)
    [] e = "interrupted" -> FinishInterruptedBuild(t)
    [] e = "complete" /\ ~cancelled[t] -> FinishCompletedBuild(t)
    [] OTHER             -> FinishCancelledBuild(t)

(* stream.shutdown, the last commit, and the dispatch of finalize_build.     *)
Settle(t) ==
  LET flush == end[t] \in {"complete", "incomplete"} /\ buffered[t] # {} IN
  /\ pc[t] = "settle"
  /\ \/ /\ flush /\ InsertEntries(t, buffered[t])
        /\ Finalize(t, end[t])
     \/ /\ ~flush /\ UNCHANGED <<rows, kept, buffered>>
        /\ Finalize(t, end[t])
     \/ /\ Finalize(t, "failed")                  \* shutdown or commit failed
        /\ UNCHANGED <<rows, kept, buffered>>
  /\ UNCHANGED <<enrolled, optedIn, gens, count, dbRetry, runtime, registry, srv,
                 kind, gen, seen, sent, end, others, cancelled>>

PromoteKeepsOld(t) ==                  \* mutant of Promote
  /\ pc[t] = "promote"
  /\ gens' = [gens EXCEPT ![srv[t]][gen[t]] = "active"]
  /\ count' = [count EXCEPT ![srv[t]][gen[t]] = kept[t]]
  /\ Outcome(t, "finish", "none", TRUE)
  /\ ForgetSeen(srv[t]) /\ DropRun(t)
  /\ UNCHANGED <<enrolled, optedIn, rows, dbRetry, runtime, registry, srv, kind,
                 gen, end, others, cancelled>>

PromoteInTwoTransactions(t) ==         \* mutant of Promote
  LET s == srv[t] IN
  /\ pc[t] = "promote"
  /\ \E done \in BOOLEAN :
       /\ Outcome(t, IF done THEN "finish" ELSE "fail",
                  IF done THEN "none" ELSE "error", TRUE)
       /\ gens' = [gens EXCEPT ![s] = [h \in Gens |->
                     IF h = gen[t] /\ done THEN "active"
                     ELSE IF @[h] = "active" THEN "superseded" ELSE @[h]]]
       /\ count' = IF done THEN [count EXCEPT ![s][gen[t]] = kept[t]] ELSE count
  /\ ForgetSeen(s) /\ DropRun(t)
  /\ UNCHANGED <<enrolled, optedIn, rows, dbRetry, runtime, registry, srv,
                 kind, gen, end, others, cancelled>>

(* promote_with_profile: one transaction, rolled back unless the generation  *)
(* is still staging.                                                         *)
Promote(t) ==
  LET s == srv[t]
      g == gen[t]
  IN
  /\ pc[t] = "promote"
  /\ \/ /\ gens[s][g] = "staging"
        /\ gens' = [gens EXCEPT ![s] = [h \in Gens |->
                      IF h = g THEN "active"
                      ELSE IF @[h] = "active" THEN "superseded" ELSE @[h]]]
        /\ count' = [count EXCEPT ![s][g] = kept[t]]
        /\ FinishPromotedBuild(t)
        /\ ForgetSeen(s)
     \/ /\ DbError \/ gens[s][g] # "staging"
        /\ FinishPromotionFailure(t)
        /\ UNCHANGED <<gens, count, seen>>
  /\ DropRun(t)
  /\ UNCHANGED <<enrolled, optedIn, rows, dbRetry, runtime, registry, srv, kind,
                 gen, end, others, cancelled>>

(* fail_generation touches a staging row only; an I/O error is only logged.  *)
FailGeneration(t) ==
  LET s == srv[t]
      g == gen[t]
  IN
  /\ Step(t, "fail", "finish")
  /\ \/ /\ gens[s][g] = "staging"
        /\ gens' = [gens EXCEPT ![s][g] = "failed"]
     \/ (DbError \/ gens[s][g] # "staging") /\ UNCHANGED gens
  /\ DropRun(t)
  /\ UNCHANGED <<enrolled, optedIn, rows, count, dbRetry, runtime, registry, srv,
                 kind, gen, seen, end, outcome, others, cancelled>>

(* abandon_generation: an empty staging row is dropped, another one fails.   *)
AbandonGeneration(t) ==
  LET s == srv[t]
      g == gen[t]
  IN
  /\ Step(t, "abandon", "finish")
  /\ \/ /\ gens[s][g] = "staging"
        /\ gens' = [gens EXCEPT ![s][g] =
                      IF rows[s][g] = {} THEN "absent" ELSE "failed"]
     \/ (DbError \/ gens[s][g] # "staging") /\ UNCHANGED gens
  /\ DropRun(t)
  /\ UNCHANGED <<enrolled, optedIn, rows, count, dbRetry, runtime, registry, srv,
                 kind, gen, seen, end, outcome, others, cancelled>>

-----------------------------------------------------------------------------
(* finish_build_*: only the registered owner may release the reservation.   *)

CappedNot(n) == n + 1                  \* mutant of Capped

Capped(n) == IF n < MaxFailures THEN n + 1 ELSE n


(* update_runtime_after_build, and the variant that preserves the state.     *)
RetryAfterBuild(t) ==
  LET s == srv[t]
      r == retry[s]
      n == Capped(r.failures)
  IN
  CASE error[t] = "interrupted" -> r
    [] error[t] = "error" ->
         [wait |-> TRUE, failures |-> n, open |-> n >= Threshold]
    [] error[t] = "none" /\ opUntil[s] # "none" -> [r EXCEPT !.wait = opUntil[s] = "future"]
    [] OTHER -> NoRetry

CompletionNeedsEntry(t) ==             \* mutant of BuildCompletionIsCurrent
  /\ owners[srv[t]] = t
  /\ withCtl[t] => srv[t] \in build /\ ctl[srv[t]] = t

BuildCompletionIsCurrent(t) ==
  LET s == srv[t] IN
  /\ owners[s] = t
  /\ withCtl[t] => s \notin build \/ ctl[s] = t

FinishBuild(t) ==
  /\ pc[t] = "finish"
  /\ IF BuildCompletionIsCurrent(t)
     THEN /\ Outcome(t, "persist", "none", FALSE)
          /\ retry' = [retry EXCEPT ![srv[t]] = RetryAfterBuild(t)]
          /\ UNCHANGED <<locals, cancelled>>
     ELSE Return(t) /\ UNCHANGED retry            \* ignored: obsolete build
  /\ UNCHANGED <<durable, build, ctl, opUntil, registry, others>>

(* The steps of finalize_owned_build, each under its own lock.               *)
PersistRetry(t) ==
  LET s == srv[t] IN
  /\ Step(t, "persist", "disown")
  /\ \/ dbRetry' = [dbRetry EXCEPT ![s] = retry[s]]
     \/ DbError /\ UNCHANGED dbRetry
  /\ UNCHANGED <<enrolled, optedIn, gens, rows, count, runtime, registry, locals,
                 outcome, others, cancelled>>

RemoveOwner(t) ==
  LET s == srv[t] IN
  /\ Step(t, "disown", "deactivate")
  /\ owners' = IF owners[s] = t THEN [owners EXCEPT ![s] = NoTask] ELSE owners
  /\ UNCHANGED <<durable, runtime, active, lock, locals, outcome, others, cancelled>>

ClearActiveBuild(t) ==
  /\ Step(t, "deactivate", "unlock")
  /\ active' = active \ {srv[t]}
  /\ UNCHANGED <<durable, runtime, owners, lock, locals, outcome, others, cancelled>>

ClearBuildLock(t) ==
  /\ Step(t, "unlock", "take")
  /\ lock' = [lock EXCEPT ![srv[t]] = "free"]
  /\ UNCHANGED <<durable, runtime, owners, active, locals, outcome, others, cancelled>>

TakeRuntimeBuild(t) ==
  LET s == srv[t] IN
  /\ Step(t, "take", "unpend")
  /\ build' = build \ {s}
  /\ ctl' = [ctl EXCEPT ![s] = NoTask]
  /\ opUntil' = [opUntil EXCEPT ![s] = "none"]
  /\ UNCHANGED <<durable, retry, registry, locals, outcome, others, cancelled>>

ClearPendingCancel(t) ==
  /\ pc[t] = "unpend" /\ Return(t)
  /\ pending' = pending \ {srv[t]}
  /\ UNCHANGED <<durable, runtime, registry, deleting, cancelling, stopping,
                 dpc, restarts>>

-----------------------------------------------------------------------------
(* The client of a refresh call goes away (disconnect or its own deadline):  *)
(* the gRPC server drops the handler at the await it is suspended in.  Nothing *)
(* releases a reservation made by then; its token and its published control  *)
(* have no owner any more.                                                   *)
ClientGone(t) ==
  LET s == srv[t]
      orphans == {r \in Servers : owners[r] = Orphan}
  IN
  /\ pc[t] \in {"validate", "starting", "probe"} /\ ~Automatic(t)
  /\ \/ pc[t] = "validate" /\ UNCHANGED <<owners, ctl>>
     \/ /\ pc[t] # "validate" /\ Cardinality(orphans) < MaxOrphans
        /\ owners' = [owners EXCEPT ![s] = Orphan]
        /\ ctl' = IF ctl[s] = t THEN [ctl EXCEPT ![s] = Orphan] ELSE ctl
  /\ Return(t)
  /\ UNCHANGED <<durable, build, opUntil, retry, active, lock, others>>

-----------------------------------------------------------------------------
(* Operator controls.                                                       *)

(* control(Cancel): the checks, made before the runtime lock is taken.       *)
Cancel(s) ==
  /\ "cancel" \in Env /\ ~ShuttingDown /\ s \notin deleting /\ s \in enrolled
  /\ s \notin cancelling /\ cancelling' = cancelling \cup {s}
  /\ UNCHANGED <<durable, runtime, registry, locals, outcome, deleting, pending,
                 stopping, dpc, restarts, pc, cancelled>>

CancelBuildPublished(s) ==             \* mutant of CancelBuild
  /\ cancelled' = IF ctl[s] \in Tasks THEN [cancelled EXCEPT ![ctl[s]] = TRUE]
                  ELSE cancelled
  /\ UNCHANGED pending

(* cancel_build: the control if it is published, otherwise a note for the    *)
(* task that is starting up.                                                 *)
CancelBuild(s) ==
  IF ctl[s] \in Tasks
  THEN cancelled' = [cancelled EXCEPT ![ctl[s]] = TRUE] /\ UNCHANGED pending
  ELSE /\ pending' = IF ctl[s] = NoTask THEN pending \cup {s} ELSE pending
       /\ UNCHANGED cancelled

(* apply_control_action(Cancel), under the runtime lock.                     *)
ApplyCancel(s) ==
  LET until == IF opUntil[s] = "none" THEN "future" ELSE opUntil[s] IN
  /\ s \in cancelling /\ cancelling' = cancelling \ {s}
  /\ \/ /\ s \in build
        /\ CancelBuild(s)
        /\ opUntil' = [opUntil EXCEPT ![s] = until]
        /\ retry' = [retry EXCEPT ![s].wait = @ \/ until = "future"]
        /\ \/ dbRetry' = [dbRetry EXCEPT ![s] = retry'[s]]
           \/ DbError /\ UNCHANGED dbRetry
     \/ s \notin build /\ UNCHANGED <<pending, cancelled, opUntil, retry, dbRetry>>
  /\ UNCHANGED <<enrolled, optedIn, gens, rows, count, build, ctl, registry,
                 locals, outcome, deleting, stopping, dpc, restarts, pc>>

(* change_auto_refresh: the UPDATE affects an enrolled server only.          *)
SetAutoRefresh(s, enable) ==
  /\ "auto" \in Env /\ ~ShuttingDown /\ s \notin deleting /\ s \in enrolled
  /\ optedIn' = IF enable THEN optedIn \cup {s} ELSE optedIn \ {s}
  /\ UNCHANGED <<enrolled, gens, rows, count, dbRetry, runtime, registry, locals,
                 outcome, others, pc, cancelled>>

-----------------------------------------------------------------------------
(* delete_index and its background task.                                    *)

DeleteStep(s, from, to) == dpc[s] = from /\ dpc' = [dpc EXCEPT ![s] = to]

DeleteIndex(s) ==
  /\ "delete" \in Env /\ ~ShuttingDown /\ s \notin deleting /\ s \in enrolled
  /\ DeleteStep(s, "none", "cancel")
  /\ deleting' = deleting \cup {s}
  /\ UNCHANGED <<durable, runtime, registry, locals, outcome, pending, cancelling,
                 stopping, restarts, pc, cancelled>>

DeleteCancelOnly(s) ==                 \* mutant of DeleteCancel
  /\ DeleteStep(s, "cancel", "db")
  /\ IF s \in build THEN CancelBuild(s) ELSE UNCHANGED <<pending, cancelled>>
  /\ UNCHANGED <<durable, runtime, registry, locals, outcome, deleting, cancelling,
                 stopping, restarts, pc>>

(* cancel_active_build *)
DeleteCancel(s) ==
  /\ DeleteStep(s, "cancel", "wait")
  /\ IF s \in build THEN CancelBuild(s) ELSE UNCHANGED <<pending, cancelled>>
  /\ UNCHANGED <<durable, runtime, registry, locals, outcome, deleting, cancelling,
                 stopping, restarts, pc>>

(* wait_for_build_to_finish: the notification is armed before the check, so  *)
(* a build that ends in between is not missed.                               *)
DeleteWait(s) ==
  /\ DeleteStep(s, "wait", "lock")
  /\ s \notin active
  /\ UNCHANGED <<durable, runtime, registry, locals, outcome, deleting, pending,
                 cancelling, stopping, restarts, pc, cancelled>>

(* acquire_delete_lock: polls while the lock is held; another error of the   *)
(* lock file ends the deletion.                                              *)
DeleteLock(s) ==
  /\ \/ /\ DeleteStep(s, "lock", "db")
        /\ lock[s] = "free" /\ lock' = [lock EXCEPT ![s] = "delete"]
     \/ /\ DbError /\ DeleteStep(s, "lock", "done")
        /\ UNCHANGED lock
  /\ UNCHANGED <<durable, runtime, owners, active, locals, outcome, deleting,
                 pending, cancelling, stopping, restarts, pc, cancelled>>

(* db.delete_index in one transaction; on an error the lock is dropped.      *)
DeleteRows(s) ==
  /\ \/ /\ DeleteStep(s, "db", "forget")
        /\ gens' = [gens EXCEPT ![s] = PerGen("absent")]
        /\ rows' = [rows EXCEPT ![s] = PerGen({})]
        /\ count' = [count EXCEPT ![s] = PerGen(0)]
        /\ dbRetry' = [dbRetry EXCEPT ![s] = NoRetry]
        /\ enrolled' = enrolled \ {s} /\ optedIn' = optedIn \ {s}
        /\ ForgetSeen(s)
        /\ UNCHANGED lock
     \/ /\ DbError /\ DeleteStep(s, "db", "done")
        /\ lock' = [lock EXCEPT ![s] = "free"]
        /\ UNCHANGED <<durable, seen>>
  /\ UNCHANGED <<runtime, owners, active, srv, kind, gen, sent, buffered, kept, end,
                 outcome, deleting, pending, cancelling, stopping, restarts, pc,
                 cancelled>>

(* The server's runtime entry is removed.                                    *)
DeleteRuntime(s) ==
  /\ DeleteStep(s, "forget", "unpend")
  /\ build' = build \ {s}
  /\ ctl' = [ctl EXCEPT ![s] = NoTask]
  /\ opUntil' = [opUntil EXCEPT ![s] = "none"]
  /\ retry' = [retry EXCEPT ![s] = NoRetry]
  /\ UNCHANGED <<durable, registry, locals, outcome, deleting, pending, cancelling,
                 stopping, restarts, pc, cancelled>>

(* clear_pending_cancel; returning drops the file lock.                      *)
DeleteUnpend(s) ==
  /\ DeleteStep(s, "unpend", "done")
  /\ pending' = pending \ {s}
  /\ lock' = [lock EXCEPT ![s] = "free"]
  /\ UNCHANGED <<durable, runtime, owners, active, locals, outcome, deleting,
                 cancelling, stopping, restarts, pc, cancelled>>

DeleteDone(s) ==
  /\ DeleteStep(s, "done", "none")
  /\ deleting' = deleting \ {s}
  /\ UNCHANGED <<durable, runtime, registry, locals, outcome, pending, cancelling,
                 stopping, restarts, pc, cancelled>>

-----------------------------------------------------------------------------
(* Shutdown, restart, time and cleanup.                                     *)

(* A task the gRPC server waits for before shutdown_background_indexing.     *)
InCall(t) == pc[t] # "idle" /\ ~Automatic(t) /\ ~Spawned(t)

(* run_gateway: the server has drained its calls, then request_shutdown.     *)
RequestShutdown ==
  /\ "shutdown" \in Env /\ stopping = "no" /\ stopping' = "requested"
  /\ \A t \in Tasks : ~InCall(t)
  /\ cancelling = {}
  /\ UNCHANGED <<durable, runtime, registry, locals, outcome, deleting, pending,
                 cancelling, dpc, restarts, pc, cancelled>>

CancelNoBuilds ==                      \* mutant of CancelBuilds
  /\ stopping = "requested" /\ stopping' = "cancelled"
  /\ UNCHANGED <<durable, runtime, registry, locals, outcome, deleting, pending,
                 cancelling, dpc, restarts, pc, cancelled>>

(* shutdown_background_indexing cancels every published control.             *)
CancelBuilds ==
  /\ stopping = "requested" /\ stopping' = "cancelled"
  /\ cancelled' = [t \in Tasks |->
                     cancelled[t] \/ \E s \in build : ctl[s] = t]
  /\ UNCHANGED <<durable, runtime, registry, locals, outcome, deleting, pending,
                 cancelling, dpc, restarts, pc>>

(* wait_for_idle: build tasks, deletions and the scheduler have returned.    *)
BecomeIdle ==
  /\ stopping = "cancelled" /\ stopping' = "idle"
  /\ \A t \in Tasks : pc[t] = "idle"
  /\ \A s \in Servers : dpc[s] = "none"
  /\ UNCHANGED <<durable, runtime, registry, locals, outcome, deleting, pending,
                 cancelling, dpc, restarts, pc, cancelled>>

(* The process ends, in an orderly way or not, and a new one opens the       *)
(* database: a staging generation that nobody builds any more is superseded  *)
(* by an active one, or failed.                                              *)
RecoveredGens(s) ==
  [g \in Gens |->
     IF gens[s][g] # "staging" THEN gens[s][g]
     ELSE IF HasActive(s) THEN "superseded" ELSE "failed"]

Restart ==
  /\ restarts < MaxRestarts /\ restarts' = restarts + 1
  /\ gens' = [s \in Servers |-> RecoveredGens(s)]
  /\ deleting' = {} /\ active' = {} /\ build' = {} /\ pending' = {}
  /\ cancelling' = {} /\ stopping' = "no"
  /\ owners' = PerServer(NoTask) /\ lock' = PerServer("free")
  /\ ctl' = PerServer(NoTask) /\ opUntil' = PerServer("none")
  /\ retry' = PerServer(NoRetry) /\ dpc' = PerServer("none")
  /\ pc' = PerTask("idle") /\ cancelled' = PerTask(FALSE)
  /\ srv' = PerTask(AnyServer) /\ kind' = PerTask("manual")
  /\ gen' = PerTask(0) /\ seen' = PerTask(0)
  /\ error' = PerTask("none") /\ withCtl' = PerTask(FALSE)
  /\ sent' = PerTask({}) /\ buffered' = PerTask({})
  /\ kept' = PerTask(0) /\ end' = PerTask("open")
  /\ UNCHANGED <<enrolled, optedIn, rows, count, dbRetry>>

(* The clock passes the server's deadlines.                                  *)
DeadlinesPass(s) ==
  /\ "clock" \in Env
  /\ retry[s].wait \/ dbRetry[s].wait \/ opUntil[s] = "future"
  /\ retry' = [retry EXCEPT ![s].wait = FALSE]
  /\ dbRetry' = [dbRetry EXCEPT ![s].wait = FALSE]
  /\ opUntil' = [opUntil EXCEPT ![s] = IF @ = "future" THEN "past" ELSE @]
  /\ UNCHANGED <<enrolled, optedIn, gens, rows, count, build, ctl, registry,
                 locals, outcome, others, pc, cancelled>>

CleanupWholeServer(s, g) ==            \* mutant of Cleanup
  /\ "cleanup" \in Env /\ active = {} /\ ~ShuttingDown
  /\ Obsolete(s, g)
  /\ gens' = [gens EXCEPT ![s][g] = "absent"]
  /\ rows' = [rows EXCEPT ![s] = PerGen({})]
  /\ count' = [count EXCEPT ![s] = PerGen(0)]
  /\ UNCHANGED <<enrolled, optedIn, dbRetry, runtime, registry, locals, outcome,
                 others, pc, cancelled>>

(* The cleanup worker has deleted an obsolete generation (its batches are    *)
(* the subject of module CleanupBatch).                                      *)
Cleanup(s, g) ==
  /\ "cleanup" \in Env /\ active = {} /\ ~ShuttingDown
  /\ Obsolete(s, g)
  /\ gens' = [gens EXCEPT ![s][g] = "absent"]
  /\ rows' = [rows EXCEPT ![s][g] = {}]
  /\ count' = [count EXCEPT ![s][g] = 0]
  /\ UNCHANGED <<enrolled, optedIn, dbRetry, runtime, registry, locals, outcome,
                 others, pc, cancelled>>

-----------------------------------------------------------------------------
(* Steps of a call or of a build task that happen by themselves.             *)
Startup(t) ==
  \/ Validate(t) \/ Enroll(t) \/ ReserveDenied(t) \/ ReserveGranted(t)
  \/ RefreshAfterProbe(t) \/ InvalidateProfile(t)
  \/ StartInventory(t) \/ RecordStartFailure(t) \/ AttachControl(t)
  \/ TakePendingCancel(t) \/ ProbeCapabilities(t) \/ StartGeneration(t)
  \/ LaunchBuild(t)

EndLoop(t) == InventoryCompleted(t) \/ InventoryFailed(t) \/ StreamEnded(t)

Teardown(t) ==
  \/ Settle(t) \/ Promote(t) \/ FailGeneration(t) \/ AbandonGeneration(t)
  \/ FinishBuild(t) \/ PersistRetry(t) \/ RemoveOwner(t) \/ ClearActiveBuild(t)
  \/ ClearBuildLock(t) \/ TakeRuntimeBuild(t) \/ ClearPendingCancel(t)

TaskStep(t) ==
  \/ \E s \in Servers, k \in {"manual", "forced"} : Refresh(t, s, k)
  \/ \E s \in Servers : RefreshIfDue(t, s)
  \/ \E i \in Items : ReceiveEntry(t, i)
  \/ CommitDue(t)
  \/ Startup(t)
  \/ EndLoop(t)
  \/ BuildPanics(t)
  \/ Teardown(t)
  \/ ClientGone(t)

DeletionStep(s) ==
  \/ DeleteCancel(s) \/ DeleteWait(s) \/ DeleteLock(s) \/ DeleteRows(s)
  \/ DeleteRuntime(s) \/ DeleteUnpend(s) \/ DeleteDone(s)

ServerStep(s) ==
  \/ Cancel(s) \/ ApplyCancel(s)
  \/ \E enable \in BOOLEAN : SetAutoRefresh(s, enable)
  \/ DeleteIndex(s)
  \/ DeletionStep(s)
  \/ DeadlinesPass(s)
  \/ \E g \in Gens : Cleanup(s, g)

Next ==
  \/ stopping # "idle" /\ \E t \in Tasks : TaskStep(t)
  \/ stopping # "idle" /\ \E s \in Servers : ServerStep(s)
  \/ RequestShutdown \/ CancelBuilds \/ BecomeIdle
  \/ Restart

Spec == Init /\ [][Next]_vars

(* What the code's scheduling guarantees: a runnable task goes on (every OPC *)
(* call has a timeout), a cancelled inventory ends its stream, a Cancel call *)
(* and a deletion that started are carried out.  Nobody has to start, end or *)
(* cancel an inventory: an operator may pause it for ever.  A task is in one *)
(* step at a time, so one condition per task is enough.                      *)
FairSpec ==
  /\ Spec
  /\ \A t \in Tasks :
       WF_vars(Startup(t) \/ Teardown(t) \/ (cancelled[t] /\ EndLoop(t)))
  /\ \A s \in Servers : WF_vars(ApplyCancel(s)) /\ WF_vars(DeletionStep(s))
  /\ WF_vars(CancelBuilds \/ BecomeIdle)

-----------------------------------------------------------------------------
(* Properties.                                                              *)

(* Whatever tasks, restarts and database errors do, a server never has two  *)
(* active generations: status and search would pick either one.             *)
OneActive ==
  \A s \in Servers : \A g, h \in Gens :
    gens[s][g] = "active" /\ gens[s][h] = "active" => g = h

(* A server that has an active generation keeps one through failed,         *)
(* cancelled and interrupted builds, cleanup and restarts.  Only a deletion *)
(* that excludes every build, or the owner of the build that follows a      *)
(* change of the browse profile, takes it away.                             *)
ActiveSurvives ==
  [][\A s \in Servers :
       HasActive(s) /\ ~HasActive(s)' =>
         \/ lock[s] = "delete" /\ s \in deleting
         \/ \E t \in Tasks : pc[t] = "invalidate" /\ srv[t] = s /\ owners[s] = t]_vars

Reserved(t, s) == pc[t] \in ReservedStep /\ srv[t] = s

(* From the reservation to the release of the file lock a build is alone on *)
(* its server: no other build and no deletion works on it.                  *)
BuildsExclusive ==
  \A s \in Servers : \A t \in Tasks : Reserved(t, s) =>
    /\ lock[s] = "build"
    /\ dpc[s] \notin {"db", "forget", "unpend"}
    /\ \A u \in Tasks : Reserved(u, s) => u = t

(* active_builds, build_owners and the build locks agree with the tasks: a  *)
(* reservation that no task will release exists only if its client left.    *)
NoLeakedReservation ==
  \A s \in Servers :
    /\ s \in active => owners[s] = Orphan \/ \E t \in Tasks : Reserved(t, s)
    /\ lock[s] = "build" => owners[s] = Orphan \/ \E t \in Tasks : Reserved(t, s)
    /\ owners[s] \in Tasks => Reserved(owners[s], s)

(* After the deleting transaction the server has no generation and no rows  *)
(* until the deletion is over: a build still winding down, or a new one,    *)
(* does not bring any back.                                                 *)
DeletedStaysDeleted ==
  \A s \in Servers, g \in Gens :
    dpc[s] \in {"forget", "unpend"} =>
      gens[s][g] = "absent" /\ rows[s][g] = {}

(* Never more than settings.concurrency builds, over all servers.           *)
ConcurrencyBound == Cardinality(active) <= Concurrency

(* "Automatic indexing never enrolls a server or starts its first build":    *)
(* an automatic refresh reserves a build only where there is an index.       *)
NoAutomaticFirstBuild ==
  [][\A t \in Tasks : \A s \in Servers :
       pc[t] = "reserve" /\ kind[t] = "auto" /\ owners[s] # t /\ owners'[s] = t =>
         HasActive(s)]_vars

(* The last two steps of a release find the runtime entry and the pending    *)
(* cancel by the server's name: they would hit a build that is reserved      *)
(* while an older one of the same server has yet to take them.               *)
ReleaseOverlaps(s) ==
  \E t, u \in Tasks :
    srv[t] = s /\ pc[t] \in {"take", "unpend"} /\ Reserved(u, s)

(* The two ways in which a build escapes its cancellation; the code excludes *)
(* neither (CancelReachesBuild and RunningBuildIsReachable, below, fail).    *)
Astray(s) == ReleaseOverlaps(s) \/ owners[s] = Orphan

(* Unless a build of the server goes astray, a deletion that was accepted    *)
(* ends: wherever the build that it has to wait for is when the deletion     *)
(* cancels it, before its control is published, after, or while it settles,  *)
(* and whatever cancels and refused refreshes come in between.               *)
DeletionCompletes ==
  \A s \in Servers :
    []~Astray(s) => (s \in deleting ~> s \notin deleting)

(* Unless a build goes astray, shutdown_background_indexing returns: builds  *)
(* that start up beside it see the shutdown or are cancelled, and deletions  *)
(* in progress come to their end.                                            *)
ShutdownCompletes ==
  [](\A s \in Servers : ~Astray(s)) =>
    (stopping = "requested" ~> stopping \in {"idle", "no"})

(* Unless a build of the server goes astray, a build that an operator        *)
(* cancelled ends, also when its control was not published yet: the note is  *)
(* found at one of the places that look for it.                              *)
CancelEndsBuild ==
  \A s \in Servers :
    []~Astray(s) => (s \in build /\ opUntil[s] # "none" ~> s \notin build)

-----------------------------------------------------------------------------
(* What the documentation says and the code does not always do.             *)

(* DeletionCompletes without its premise: a client that went away while its  *)
(* inventory started, or a release that erased the deletion's note for the   *)
(* next build, keeps delete_index waiting in wait_for_build_to_finish.       *)
DeletionAlwaysCompletes == \A s \in Servers : s \in deleting ~> s \notin deleting

(* "Cancellation requests received before inventory startup returns its     *)
(* control handle are retained and applied once the handle is available":   *)
(* a published control of an operator-cancelled build is cancelled, or the  *)
(* note is still there for it.                                              *)
CancelReachesBuild ==
  \A s \in Servers :
    s \in build /\ opUntil[s] # "none" /\ ctl[s] \in Tasks =>
      cancelled[ctl[s]] \/ s \in pending

(* "gateway shutdown cancels active indexing before the process exits": a   *)
(* running build can be found through the runtime entry of its server.      *)
RunningBuildIsReachable ==
  \A t \in Tasks : pc[t] = "loop" => srv[t] \in build /\ ctl[srv[t]] = t

(* "the previous complete generation remains searchable during a refresh":  *)
(* only a deletion takes the active generation away.                        *)
SearchableDuringRefresh ==
  [][\A s \in Servers : HasActive(s) /\ ~HasActive(s)' => dpc[s] = "db"]_vars

(* "A graceful gateway shutdown records the build as interrupted without    *)
(* changing existing retry or circuit state": a build that the shutdown     *)
(* stopped, and no operator, leaves its server's retry state alone.         *)
ShutdownKeepsRetryState ==
  [][\A t \in Tasks :
       /\ stopping = "cancelled" /\ cancelled[t] /\ error[t] # "error"
       /\ pc[t] = "finish" /\ pc'[t] = "persist" /\ opUntil[srv[t]] = "none"
       /\ gen[t] \in Gens => gens[srv[t]][gen[t]] # "active"
       => retry'[srv[t]] = retry[srv[t]]]_vars

(* "deleting an index removes its enrollment, generations, entries, and     *)
(* retry state": nothing is left of it when the deletion has succeeded.     *)
DeleteRemovesRetryState ==
  \A s \in Servers : dpc[s] = "unpend" => dbRetry[s] = NoRetry

=============================================================================
