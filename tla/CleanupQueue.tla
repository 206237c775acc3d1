---------------------------- MODULE CleanupQueue ----------------------------
(***************************************************************************)
(* How requests to reclaim obsolete generations reach the one cleanup       *)
(* worker: the request registry, the cleanup_worker_active flag, the wait   *)
(* for running builds, retries, and the guard that looks for more work.     *)
(*                                                                          *)
(* Code: crates/opcda-bridge-gateway/src/index/scheduler.rs                 *)
(* (schedule_cleanup, spawn_cleanup_worker_if_idle, run_scheduled_cleanup,  *)
(* CleanupWorkerGuard) and traversal.rs (clear_active_build).  What one     *)
(* attempt deletes is the subject of CleanupBatch.                          *)
(***************************************************************************)
EXTENDS Naturals, FiniteSets

CONSTANTS
  Servers,
  Callers,      \* threads that call schedule_cleanup
  Workers,      \* cleanup tasks alive at a time, the ones on the way out too
  RetryLimit,   \* CLEANUP_RETRY_LIMIT
  MaxRequests,  \* bound on the calls of schedule_cleanup in a behaviour
  Errors,       \* TRUE: an attempt may fail
  NoServer

ASSUME QueueAssumption ==
  /\ Callers \cap Workers = {}
  /\ RetryLimit \in Nat /\ MaxRequests \in Nat
  /\ Errors \in BOOLEAN
  /\ NoServer \notin Servers

VARIABLES
  active,      \* cleanup_worker_active
  tasks,       \* cleanup_tasks; an absent entry is the default one
  building,    \* active_builds of the database
  stopping,    \* the gateway shuts down
  garbage,     \* obsolete generations known when cleanup was asked for
  calls,       \* calls of schedule_cleanup so far
  thread       \* program counter and locals

vars == <<active, tasks, building, stopping, garbage, calls, thread>>

Threads == Callers \cup Workers

NoTask == [running |-> FALSE, requested |-> FALSE]
Idle == [pc |-> "idle", server |-> NoServer, failures |-> 0, notified |-> FALSE]

Serving == {"check", "attempt", "defer", "listen", "recheck", "wait", "clear"}

TypeOK ==
  /\ active \in BOOLEAN /\ stopping \in BOOLEAN
  /\ tasks \in [Servers -> [running : BOOLEAN, requested : BOOLEAN]]
  /\ building \subseteq Servers
  /\ garbage \in [Servers -> BOOLEAN]
  /\ calls \in 0..MaxRequests
  /\ thread \in [Threads ->
       [pc : Serving \cup {"idle", "swap", "scan", "release", "spawn", "drop"},
        server : Servers \cup {NoServer}, failures : 0..RetryLimit,
        notified : BOOLEAN]]

Init ==
  /\ active = FALSE /\ stopping = FALSE
  /\ tasks = [s \in Servers |-> NoTask]
  /\ building = {}
  /\ garbage = [s \in Servers |-> FALSE]
  /\ calls = 0
  /\ thread = [t \in Threads |-> Idle]

At(t, pc) == thread[t].pc = pc
Goto(t, pc) == thread' = [thread EXCEPT ![t].pc = pc]
Leave(t) == thread' = [thread EXCEPT ![t] = Idle]

-----------------------------------------------------------------------------
(* schedule_cleanup: the request is registered first; a server whose cleanup *)
(* is running picks it up by itself.                                         *)
Request(t, s) ==
  /\ At(t, "idle")
  /\ calls < MaxRequests /\ calls' = calls + 1
  /\ tasks' = [tasks EXCEPT ![s].requested = TRUE]
  /\ garbage' = [garbage EXCEPT ![s] = TRUE]
  /\ IF tasks[s].running \/ stopping THEN UNCHANGED thread ELSE Goto(t, "swap")
  /\ UNCHANGED <<active, building, stopping>>

(* spawn_cleanup_worker_if_idle: active.swap(true) ... *)
SwapNotAtomic(t) ==                    \* mutant of Swap
  /\ At(t, "swap")
  /\ IF active THEN Leave(t) ELSE Goto(t, "scan")
  /\ UNCHANGED <<active, tasks, building, stopping, garbage, calls>>

Swap(t) ==
  /\ At(t, "swap")
  /\ active' = TRUE
  /\ IF active THEN Leave(t) ELSE Goto(t, "scan")
  /\ UNCHANGED <<tasks, building, stopping, garbage, calls>>

(* ... look for a request under the registry lock ... *)
Scan(t) ==
  /\ At(t, "scan")
  /\ \/ \E s \in Servers :
          /\ tasks[s].requested
          /\ tasks' = [tasks EXCEPT ![s].running = TRUE]
          /\ thread' = [thread EXCEPT ![t].pc = "spawn", ![t].server = s]
     \/ /\ \A s \in Servers : ~tasks[s].requested
        /\ Goto(t, "release") /\ UNCHANGED tasks
  /\ UNCHANGED <<active, building, stopping, garbage, calls>>

(* ... and give the flag back when there is none. *)
Release(t) ==
  /\ At(t, "release") /\ active' = FALSE /\ Leave(t)
  /\ UNCHANGED <<tasks, building, stopping, garbage, calls>>

Spawn(t) ==
  /\ At(t, "spawn")
  /\ \/ /\ ~stopping
        /\ \E w \in Workers :
             /\ At(w, "idle") \/ w = t
             /\ thread' = [thread EXCEPT ![t] = Idle,
                             ![w] = [Idle EXCEPT !.pc = "check", !.server = thread[t].server]]
        /\ UNCHANGED <<active, tasks>>
     \/ /\ stopping /\ Leave(t) /\ active' = FALSE
        /\ tasks' = [s \in Servers |-> IF tasks[s].running THEN NoTask ELSE tasks[s]]
  /\ UNCHANGED <<building, stopping, garbage, calls>>

-----------------------------------------------------------------------------
(* run_scheduled_cleanup *)

Mine(w) == thread[w].server

(* cleanup_task_should_run *)
Check(w) ==
  /\ At(w, "check")
  /\ tasks' = [tasks EXCEPT ![Mine(w)] =
                 IF stopping THEN NoTask ELSE [@ EXCEPT !.requested = FALSE]]
  /\ Goto(w, IF stopping THEN "drop" ELSE "attempt")
  /\ UNCHANGED <<active, building, stopping, garbage, calls>>

(* run_cleanup_worker ends: interrupted by a build, or done.  A request that *)
(* came after the check may have come too late for this attempt.             *)
Deferred(w) ==
  /\ At(w, "attempt") /\ building # {} /\ Goto(w, "defer")
  /\ UNCHANGED <<active, tasks, building, stopping, garbage, calls>>

Finished(w) ==
  /\ At(w, "attempt") /\ Goto(w, "clear")
  /\ \E late \in BOOLEAN :
       /\ late => tasks[Mine(w)].requested
       /\ garbage' = IF stopping THEN garbage
                     ELSE [garbage EXCEPT ![Mine(w)] = late]
  /\ UNCHANGED <<active, tasks, building, stopping, calls>>

(* retry_cleanup_after_failure, with its backoff *)
Failed(w) ==
  /\ Errors /\ At(w, "attempt")
  /\ thread' = IF thread[w].failures < RetryLimit /\ ~stopping
               THEN [thread EXCEPT ![w].pc = "check", ![w].failures = @ + 1]
               ELSE [thread EXCEPT ![w].pc = "clear"]
  /\ UNCHANGED <<active, tasks, building, stopping, garbage, calls>>

(* wait_for_deferred_cleanup: keep the request registered, listen for the    *)
(* end of a build, look at the builds again, wait.                           *)
Defer(w) ==
  /\ At(w, "defer")
  /\ tasks' = [tasks EXCEPT ![Mine(w)].requested = TRUE]
  /\ Goto(w, "listen")
  /\ UNCHANGED <<active, building, stopping, garbage, calls>>

Listen(w) ==
  /\ At(w, "listen")
  /\ thread' = [thread EXCEPT ![w].pc = "recheck", ![w].notified = FALSE]
  /\ UNCHANGED <<active, tasks, building, stopping, garbage, calls>>

WaitAtOnce(w) ==                       \* mutant of Recheck
  /\ At(w, "recheck") /\ Goto(w, "wait")
  /\ UNCHANGED <<active, tasks, building, stopping, garbage, calls>>

Recheck(w) ==
  /\ At(w, "recheck")
  /\ Goto(w, IF building = {} THEN "check" ELSE "wait")
  /\ UNCHANGED <<active, tasks, building, stopping, garbage, calls>>

Woken(w) ==
  /\ At(w, "wait")
  /\ \/ thread[w].notified /\ Goto(w, "check")
     \/ stopping /\ Goto(w, "drop")
  /\ UNCHANGED <<active, tasks, building, stopping, garbage, calls>>

(* clear_finished_cleanup_task: run again for a request that came meanwhile. *)
Clear(w) ==
  /\ At(w, "clear")
  /\ \/ /\ tasks[Mine(w)].requested /\ ~stopping
        /\ thread' = [thread EXCEPT ![w].pc = "check", ![w].failures = 0]
        /\ UNCHANGED tasks
     \/ /\ ~tasks[Mine(w)].requested \/ stopping
        /\ tasks' = [tasks EXCEPT ![Mine(w)] = NoTask]
        /\ Goto(w, "drop")
  /\ UNCHANGED <<active, building, stopping, garbage, calls>>

(* CleanupWorkerGuard::drop: give the flag back, then look for other work. *)
DropGuard(w) ==
  /\ At(w, "drop") /\ active' = FALSE
  /\ thread' = [thread EXCEPT ![w] = [Idle EXCEPT !.pc = "swap"]]
  /\ UNCHANGED <<tasks, building, stopping, garbage, calls>>

-----------------------------------------------------------------------------
(* Builds come and go; clear_active_build wakes those who listen. *)
StartBuild(s) ==
  /\ s \notin building /\ ~stopping /\ building' = building \cup {s}
  /\ UNCHANGED <<active, tasks, stopping, garbage, calls, thread>>

Listening(t) == thread[t].pc \in {"recheck", "wait"}

EndBuild(s) ==
  /\ s \in building /\ building' = building \ {s}
  /\ thread' = [t \in Threads |->
                  IF Listening(t) THEN [thread[t] EXCEPT !.notified = TRUE]
                  ELSE thread[t]]
  /\ UNCHANGED <<active, tasks, stopping, garbage, calls>>

RequestShutdown ==
  /\ ~stopping /\ stopping' = TRUE
  /\ UNCHANGED <<active, tasks, building, garbage, calls, thread>>

-----------------------------------------------------------------------------
SpawnStep(t) == Swap(t) \/ Scan(t) \/ Release(t) \/ Spawn(t)

WorkerStep(w) ==
  \/ Check(w) \/ Deferred(w) \/ Finished(w) \/ Failed(w) \/ Defer(w)
  \/ Listen(w) \/ Recheck(w) \/ Woken(w) \/ Clear(w) \/ DropGuard(w)

Next ==
  \/ \E t \in Callers, s \in Servers : Request(t, s)
  \/ \E t \in Threads : SpawnStep(t)
  \/ \E w \in Workers : WorkerStep(w)
  \/ \E s \in Servers : StartBuild(s) \/ EndBuild(s)
  \/ RequestShutdown

Spec == Init /\ [][Next]_vars

(* Threads and tasks are scheduled; nobody has to build or to request.       *)
FairSpec ==
  /\ Spec
  /\ \A t \in Threads : WF_vars(SpawnStep(t))
  /\ \A w \in Workers : WF_vars(WorkerStep(w))

-----------------------------------------------------------------------------
(* The flag, the registry and the guard let one cleanup run at a time,       *)
(* although the guard gives the flag up before it looks for more work.       *)
SingleWorker ==
  \A v, w \in Workers :
    thread[v].pc \in Serving /\ thread[w].pc \in Serving => v = w

(* clear_finished_cleanup_task follows an attempt that failed for the last   *)
(* time.                                                                     *)
GivesUp(s) ==
  \E w \in Workers : Mine(w) = s /\ At(w, "clear") /\ thread[w].failures = RetryLimit

(* Cleanup "keeps its request registered while waiting [...] and resumes     *)
(* pending requests after the last build finishes": a cleanup that has begun *)
(* gets done once no more builds run, or runs out of retries, whenever the   *)
(* builds ended and whatever was requested meanwhile.                        *)
PendingIsResumed ==
  <>[](building = {}) =>
    \A s \in Servers :
      (tasks[s].running /\ garbage[s]) ~> (~garbage[s] \/ stopping \/ GivesUp(s))

(* The same for every request: "Superseded and abandoned data is reclaimed   *)
(* in bounded background batches".                                           *)
RequestIsServed ==
  <>[](building = {}) =>
    \A s \in Servers : garbage[s] ~> (~garbage[s] \/ stopping)

=============================================================================
