---------------------------- MODULE CleanupProofs ----------------------------
(***************************************************************************)
(* One cleanup runs at a time, for any number of servers, callers, workers  *)
(* and retries (CleanupQueue), and what it deletes was obsolete, for any    *)
(* number of generations and rows and any batch size (CleanupBatch).        *)
(***************************************************************************)
EXTENDS CleanupQueue, CleanupBatch, WellFoundedInduction, TLAPS

PcSet == Serving \cup {"idle", "swap", "scan", "release", "spawn", "drop"}

ThreadState ==
  [pc : PcSet, server : Servers \cup {NoServer}, failures : 0..RetryLimit,
   notified : BOOLEAN]

(* A thread that is on its way to a task, in it, or out of it before its    *)
(* guard has run, holds cleanup_worker_active.                              *)
Holding == Serving \cup {"scan", "release", "spawn", "drop"}

Holds(t) == thread[t].pc \in Holding

(* SingleWorker is not inductive: two threads that have both won the swap   *)
(* would both spawn.  The flag is up while somebody holds it, and nobody    *)
(* shares it.                                                               *)
FlagInv ==
  /\ \A t \in Threads : Holds(t) => active
  /\ \A t, u \in Threads : Holds(t) /\ Holds(u) => t = u

-----------------------------------------------------------------------------
(* The default locals. *)
LEMMA IdleType == Idle \in ThreadState
  BY QueueAssumption DEF Idle, ThreadState, PcSet

(* The registry entry of a server changes, or nothing does. *)
LEMMA TasksType ==
  ASSUME tasks \in [Servers -> [running : BOOLEAN, requested : BOOLEAN]],
         NEW s, NEW e \in [running : BOOLEAN, requested : BOOLEAN]
  PROVE  [tasks EXCEPT ![s] = e] \in [Servers -> [running : BOOLEAN, requested : BOOLEAN]]
  OBVIOUS

(* One thread gets other locals. *)
LEMMA ThreadType ==
  ASSUME thread \in [Threads -> ThreadState], NEW t \in Threads, NEW x \in ThreadState
  PROVE  [thread EXCEPT ![t] = x] \in [Threads -> ThreadState]
  OBVIOUS

(* A thread goes on at another step. *)
LEMMA GotoType ==
  ASSUME thread \in [Threads -> ThreadState], NEW t \in Threads, NEW x \in PcSet,
         thread' = [thread EXCEPT ![t].pc = x]
  PROVE  thread' \in [Threads -> ThreadState]
  <1>1. [thread[t] EXCEPT !.pc = x] \in ThreadState
    BY DEF ThreadState
  <1> QED BY <1>1, ThreadType

QueueTypes ==
  /\ active \in BOOLEAN /\ stopping \in BOOLEAN
  /\ tasks \in [Servers -> [running : BOOLEAN, requested : BOOLEAN]]
  /\ building \in SUBSET Servers
  /\ garbage \in [Servers -> BOOLEAN]
  /\ calls \in 0..MaxRequests
  /\ thread \in [Threads -> ThreadState]

(* The same with named parts. *)
LEMMA TypesAreTypeOK == QueueTypes <=> TypeOK
  BY DEF QueueTypes, TypeOK, ThreadState, PcSet

(* spawn_cleanup_worker_if_idle. *)
LEMMA TypeSpawn ==
  ASSUME QueueTypes, NEW t \in Threads, SpawnStep(t)
  PROVE  QueueTypes'
  <1> USE DEF QueueTypes, PcSet
  <1>1. CASE Swap(t)
    BY <1>1, IdleType, ThreadType, GotoType DEF Swap, Goto, Leave
  <1>2. CASE Scan(t)
    <2>1. CASE UNCHANGED tasks /\ Goto(t, "release")
      BY <1>2, <2>1, GotoType DEF Scan, Goto
    <2>2. ASSUME NEW s \in Servers, tasks' = [tasks EXCEPT ![s].running = TRUE],
                 thread' = [thread EXCEPT ![t].pc = "spawn", ![t].server = s]
          PROVE  QueueTypes'
      <3>1. [thread[t] EXCEPT !.pc = "spawn", !.server = s] \in ThreadState
        BY DEF ThreadState
      <3>2. thread' = [thread EXCEPT ![t] = [thread[t] EXCEPT !.pc = "spawn", !.server = s]]
        BY <2>2
      <3>3. thread' \in [Threads -> ThreadState]
        BY <3>1, <3>2, ThreadType
      <3>4. tasks' \in [Servers -> [running : BOOLEAN, requested : BOOLEAN]]
        BY <2>2
      <3> QED BY <1>2, <3>3, <3>4 DEF Scan
    <2> QED BY <1>2, <2>1, <2>2 DEF Scan
  <1>3. CASE Release(t)
    BY <1>3, IdleType, ThreadType DEF Release, Leave
  <1>4. CASE Spawn(t)
    <2>1. ASSUME NEW w \in Workers,
                 thread' = [thread EXCEPT ![t] = Idle,
                              ![w] = [Idle EXCEPT !.pc = "check", !.server = thread[t].server]]
          PROVE  thread' \in [Threads -> ThreadState]
      <3>1. [Idle EXCEPT !.pc = "check", !.server = thread[t].server] \in ThreadState
        BY IdleType DEF ThreadState, Serving
      <3>2. w \in Threads
        BY DEF Threads
      <3> QED BY <2>1, <3>1, <3>2, IdleType
    <2>2. CASE stopping /\ Leave(t)
      <3>1. thread' \in [Threads -> ThreadState]
        BY <2>2, IdleType, ThreadType DEF Leave
      <3>2. tasks' \in [Servers -> [running : BOOLEAN, requested : BOOLEAN]]
        <4>1. NoTask \in [running : BOOLEAN, requested : BOOLEAN]
          BY DEF NoTask
        <4>2. tasks' = [s \in Servers |-> IF tasks[s].running THEN NoTask ELSE tasks[s]]
          BY <1>4, <2>2 DEF Spawn
        <4> QED BY <4>1, <4>2
      <3>3. active' \in BOOLEAN
        BY <1>4 DEF Spawn
      <3> QED BY <1>4, <3>1, <3>2, <3>3 DEF Spawn
    <2> QED BY <1>4, <2>1, <2>2 DEF Spawn
  <1> QED BY <1>1, <1>2, <1>3, <1>4 DEF SpawnStep

(* run_scheduled_cleanup. *)
LEMMA TypeWorker ==
  ASSUME QueueTypes, NEW w \in Workers, WorkerStep(w)
  PROVE  QueueTypes'
  <1>0. w \in Threads /\ thread[w] \in ThreadState /\ RetryLimit \in Nat
    BY QueueAssumption DEF Threads, QueueTypes
  <1> USE <1>0 DEF QueueTypes, PcSet, Serving
  <1>1. CASE Check(w)
    <2>1. thread' \in [Threads -> ThreadState]
      BY <1>1, GotoType DEF Check, Goto
    <2>2. tasks' \in [Servers -> [running : BOOLEAN, requested : BOOLEAN]]
      BY <1>1 DEF Check, NoTask
    <2> QED BY <1>1, <2>1, <2>2 DEF Check
  <1>2. CASE Deferred(w)
    BY <1>2, GotoType DEF Deferred, Goto
  <1>3. CASE Finished(w)
    BY <1>3, GotoType DEF Finished, Goto
  <1>4. CASE Failed(w)
    <2>1. CASE thread[w].failures < RetryLimit /\ ~stopping
      <3>1. [thread[w] EXCEPT !.pc = "check", !.failures = @ + 1] \in ThreadState
        <4>1. thread[w].failures + 1 \in 0..RetryLimit
          BY <2>1 DEF ThreadState
        <4>2. "check" \in PcSet
          OBVIOUS
        <4> HIDE DEF PcSet, Serving
        <4> QED BY <4>1, <4>2 DEF ThreadState
      <3>2. thread' = [thread EXCEPT ![w] =
                         [thread[w] EXCEPT !.pc = "check", !.failures = @ + 1]]
        BY <1>4, <2>1 DEF Failed
      <3> QED BY <1>4, <3>1, <3>2, ThreadType DEF Failed
    <2>2. CASE ~(thread[w].failures < RetryLimit /\ ~stopping)
      BY <1>4, <2>2, GotoType DEF Failed
    <2> QED BY <2>1, <2>2
  <1>5. CASE Defer(w)
    <2>1. thread' \in [Threads -> ThreadState]
      BY <1>5, GotoType DEF Defer, Goto
    <2>2. tasks' \in [Servers -> [running : BOOLEAN, requested : BOOLEAN]]
      BY <1>5 DEF Defer
    <2> QED BY <1>5, <2>1, <2>2 DEF Defer
  <1>6. CASE Listen(w)
    <2>1. [thread[w] EXCEPT !.pc = "recheck", !.notified = FALSE] \in ThreadState
      BY DEF ThreadState
    <2>2. thread' = [thread EXCEPT ![w] =
                       [thread[w] EXCEPT !.pc = "recheck", !.notified = FALSE]]
      BY <1>6 DEF Listen
    <2> QED BY <1>6, <2>1, <2>2, ThreadType DEF Listen
  <1>7. CASE Recheck(w)
    BY <1>7, GotoType DEF Recheck, Goto
  <1>8. CASE Woken(w)
    BY <1>8, GotoType DEF Woken, Goto
  <1>9. CASE Clear(w)
    <2>1. CASE UNCHANGED tasks /\
               thread' = [thread EXCEPT ![w].pc = "check", ![w].failures = 0]
      <3>1. [thread[w] EXCEPT !.pc = "check", !.failures = 0] \in ThreadState
        <4>1. 0 \in 0..RetryLimit /\ "check" \in PcSet
          OBVIOUS
        <4> HIDE DEF PcSet, Serving
        <4> QED BY <4>1 DEF ThreadState
      <3>2. thread' = [thread EXCEPT ![w] =
                         [thread[w] EXCEPT !.pc = "check", !.failures = 0]]
        BY <2>1
      <3> QED BY <1>9, <2>1, <3>1, <3>2, ThreadType DEF Clear
    <2>2. CASE tasks' = [tasks EXCEPT ![Mine(w)] = NoTask] /\ Goto(w, "drop")
      <3>1. thread' \in [Threads -> ThreadState]
        BY <2>2, GotoType DEF Goto
      <3>2. tasks' \in [Servers -> [running : BOOLEAN, requested : BOOLEAN]]
        BY <2>2, TasksType DEF NoTask
      <3> QED BY <1>9, <3>1, <3>2 DEF Clear
    <2> QED BY <1>9, <2>1, <2>2 DEF Clear
  <1>10. CASE DropGuard(w)
    <2>1. [Idle EXCEPT !.pc = "swap"] \in ThreadState
      BY IdleType DEF ThreadState
    <2> QED BY <1>10, <2>1, ThreadType DEF DropGuard
  <1> QED
    BY <1>1, <1>2, <1>3, <1>4, <1>5, <1>6, <1>7, <1>8, <1>9, <1>10 DEF WorkerStep

(* Types are kept by every step. *)
LEMMA TypeNext == QueueTypes /\ [Next]_vars => QueueTypes'
  <1> SUFFICES ASSUME QueueTypes, [Next]_vars PROVE QueueTypes'
    OBVIOUS
  <1>1. ASSUME NEW t \in Callers, NEW s \in Servers, Request(t, s) PROVE QueueTypes'
    <2>1. t \in Threads /\ "swap" \in PcSet
      BY DEF Threads, PcSet
    <2>2. thread' \in [Threads -> ThreadState]
      BY <1>1, <2>1, GotoType DEF Request, Goto, QueueTypes
    <2>3. tasks' \in [Servers -> [running : BOOLEAN, requested : BOOLEAN]]
      BY <1>1 DEF Request, QueueTypes
    <2>4. garbage' \in [Servers -> BOOLEAN]
      BY <1>1 DEF Request, QueueTypes
    <2>5. calls' \in 0..MaxRequests
      BY <1>1, QueueAssumption DEF Request, QueueTypes
    <2> QED BY <1>1, <2>2, <2>3, <2>4, <2>5 DEF Request, QueueTypes
  <1>2. ASSUME NEW s \in Servers, EndBuild(s) PROVE QueueTypes'
    <2>1. \A t \in Threads : [thread[t] EXCEPT !.notified = TRUE] \in ThreadState
      BY DEF QueueTypes, ThreadState
    <2>2. thread' \in [Threads -> ThreadState]
      BY <1>2, <2>1 DEF EndBuild, QueueTypes
    <2> QED BY <1>2, <2>2 DEF EndBuild, QueueTypes
  <1>3. ASSUME NEW s \in Servers, StartBuild(s) PROVE QueueTypes'
    BY <1>3 DEF StartBuild, QueueTypes
  <1>4. CASE RequestShutdown
    BY <1>4 DEF RequestShutdown, QueueTypes
  <1>5. CASE UNCHANGED vars
    BY <1>5 DEF vars, QueueTypes
  <1> QED BY <1>1, <1>2, <1>3, <1>4, <1>5, TypeSpawn, TypeWorker DEF Next

-----------------------------------------------------------------------------
(* Nobody but t changes its step, and t keeps what it holds or is done with *)
(* the flag.                                                                *)
LEMMA FlagKept ==
  ASSUME FlagInv, NEW t \in Threads, Holds(t)' => Holds(t),
         \A u \in Threads \ {t} : thread'[u].pc = thread[u].pc,
         active' = active
  PROVE  FlagInv'
  BY DEF FlagInv, Holds

(* The holder gives the flag back. *)
LEMMA FlagReleased ==
  ASSUME FlagInv, NEW t \in Threads, Holds(t), ~Holds(t)',
         \A u \in Threads \ {t} : thread'[u].pc = thread[u].pc
  PROVE  FlagInv'
  BY DEF FlagInv, Holds

(* spawn_cleanup_worker_if_idle: the swap is won only while nobody holds    *)
(* the flag, and the task that is spawned takes it over from the spawner.   *)
LEMMA FlagSpawn ==
  ASSUME QueueTypes, FlagInv, NEW t \in Threads, SpawnStep(t)
  PROVE  FlagInv'
  <1>0. thread \in [Threads -> ThreadState]
    BY DEF QueueTypes
  <1>1. CASE Swap(t)
    BY <1>0, <1>1
    DEF Swap, At, Goto, Leave, Idle, FlagInv, Holds, Holding, Serving, ThreadState
  <1>2. CASE Scan(t)
    <2>1. Holds(t)
      BY <1>2 DEF Scan, At, Holds, Holding
    <2>2. \A u \in Threads \ {t} : thread'[u].pc = thread[u].pc
      BY <1>0, <1>2 DEF Scan, Goto
    <2> QED BY <1>2, <2>1, <2>2, FlagKept DEF Scan
  <1>3. CASE Release(t)
    <2>1. Holds(t)
      BY <1>3 DEF Release, At, Holds, Holding
    <2>2. ~Holds(t)'
      BY <1>0, <1>3 DEF Release, Leave, Idle, Holds, Holding, Serving
    <2>3. \A u \in Threads \ {t} : thread'[u].pc = thread[u].pc
      BY <1>0, <1>3 DEF Release, Leave
    <2> QED BY <2>1, <2>2, <2>3, FlagReleased
  <1>4. CASE Spawn(t)
    <2>1. Holds(t)
      BY <1>4 DEF Spawn, At, Holds, Holding
    <2>2. ASSUME NEW w \in Workers, At(w, "idle") \/ w = t, active' = active,
                 thread' = [thread EXCEPT ![t] = Idle,
                              ![w] = [Idle EXCEPT !.pc = "check", !.server = thread[t].server]]
          PROVE  FlagInv'
      <3>1. w \in Threads
        BY DEF Threads
      <3>2. \A u \in Threads \ {t, w} : thread'[u] = thread[u]
        BY <1>0, <2>2, <3>1
      <3>3. t # w => ~Holds(t)'
        BY <1>0, <2>2, <3>1 DEF Holds, Holding, Serving, Idle
      <3>4. \A u \in Threads \ {t, w} : ~Holds(u)'
        BY <2>1, <3>2 DEF FlagInv, Holds
      <3>5. active
        BY <2>1 DEF FlagInv
      <3>6. \A u \in Threads : Holds(u)' => u = w
        BY <3>3, <3>4
      <3> QED BY <2>2, <3>5, <3>6 DEF FlagInv
    <2>3. CASE stopping /\ Leave(t)
      <3>1. ~Holds(t)'
        BY <1>0, <2>3 DEF Leave, Idle, Holds, Holding, Serving
      <3>2. \A u \in Threads \ {t} : thread'[u].pc = thread[u].pc
        BY <1>0, <2>3 DEF Leave
      <3> QED BY <2>1, <3>1, <3>2, FlagReleased
    <2> QED BY <1>4, <2>2, <2>3 DEF Spawn
  <1> QED BY <1>1, <1>2, <1>3, <1>4 DEF SpawnStep

(* run_scheduled_cleanup keeps the flag until its guard is dropped. *)
LEMMA FlagWorker ==
  ASSUME QueueTypes, FlagInv, NEW w \in Workers, WorkerStep(w)
  PROVE  FlagInv'
  <1>0. thread \in [Threads -> ThreadState] /\ w \in Threads
    BY DEF QueueTypes, Threads
  <1>1. Holds(w)
    BY DEF WorkerStep, Check, Deferred, Finished, Failed, Defer, Listen, Recheck,
           Woken, Clear, DropGuard, At, Holds, Holding, Serving
  <1>2. CASE DropGuard(w)
    <2>1. ~Holds(w)'
      BY <1>0, <1>2 DEF DropGuard, Idle, Holds, Holding, Serving
    <2>2. \A u \in Threads \ {w} : thread'[u].pc = thread[u].pc
      BY <1>0, <1>2 DEF DropGuard
    <2> QED BY <1>0, <1>1, <2>1, <2>2, FlagReleased
  <1>3. CASE ~DropGuard(w)
    <2>1. active' = active
      BY <1>3 DEF WorkerStep, Check, Deferred, Finished, Failed, Defer, Listen, Recheck,
                  Woken, Clear
    <2>2. \A u \in Threads \ {w} : thread'[u].pc = thread[u].pc
      BY <1>0, <1>3 DEF WorkerStep, Check, Deferred, Finished, Failed, Defer, Listen,
                        Recheck, Woken, Clear, Goto
    <2> QED BY <1>0, <1>1, <2>1, <2>2, FlagKept
  <1> QED BY <1>2, <1>3

(* No other step gives or takes the flag. *)
LEMMA FlagNext == QueueTypes /\ FlagInv /\ [Next]_vars => FlagInv'
  <1> SUFFICES ASSUME QueueTypes, FlagInv, [Next]_vars PROVE FlagInv'
    OBVIOUS
  <1>0. thread \in [Threads -> ThreadState]
    BY DEF QueueTypes
  <1>1. ASSUME NEW t \in Callers, NEW s \in Servers, Request(t, s) PROVE FlagInv'
    <2>1. t \in Threads /\ active' = active
      BY <1>1 DEF Threads, Request
    <2>2. Holds(t)' => Holds(t)
      <3>1. CASE UNCHANGED thread
        BY <3>1 DEF Holds
      <3>2. CASE Goto(t, "swap")
        <4>1. thread'[t].pc = "swap"
          BY <1>0, <2>1, <3>2 DEF Goto, ThreadState
        <4> QED BY <4>1 DEF Holds, Holding, Serving
      <3> QED BY <1>1, <3>1, <3>2 DEF Request
    <2>3. \A u \in Threads \ {t} : thread'[u].pc = thread[u].pc
      BY <1>0, <1>1 DEF Request, Goto
    <2> QED BY <2>1, <2>2, <2>3, FlagKept
  <1>2. ASSUME NEW s \in Servers, EndBuild(s) PROVE FlagInv'
    <2>1. \A u \in Threads : thread'[u].pc = thread[u].pc
      BY <1>0, <1>2 DEF EndBuild, ThreadState
    <2> QED BY <1>2, <2>1 DEF EndBuild, FlagInv, Holds
  <1>3. ASSUME NEW s \in Servers, StartBuild(s) PROVE FlagInv'
    BY <1>3 DEF StartBuild, FlagInv, Holds
  <1>4. CASE RequestShutdown
    BY <1>4 DEF RequestShutdown, FlagInv, Holds
  <1>5. CASE UNCHANGED vars
    BY <1>5 DEF vars, FlagInv, Holds
  <1> QED BY <1>1, <1>2, <1>3, <1>4, <1>5, FlagSpawn, FlagWorker DEF Next

(* Both invariants hold at the start. *)
LEMMA QueueInit == Init => QueueTypes /\ FlagInv
  <1> SUFFICES ASSUME Init PROVE QueueTypes /\ FlagInv
    OBVIOUS
  <1>1. thread \in [Threads -> ThreadState]
    BY IdleType DEF Init
  <1>2. NoTask \in [running : BOOLEAN, requested : BOOLEAN]
    BY DEF NoTask
  <1>3. QueueTypes
    <2>1. tasks \in [Servers -> [running : BOOLEAN, requested : BOOLEAN]]
      BY <1>2 DEF Init
    <2>2. garbage \in [Servers -> BOOLEAN] /\ calls \in 0..MaxRequests
      BY QueueAssumption DEF Init
    <2> QED BY <1>1, <2>1, <2>2 DEF Init, QueueTypes
  <1>4. FlagInv
    BY DEF Init, FlagInv, Holds, Holding, Serving, Idle
  <1> QED BY <1>3, <1>4

(* One cleanup runs at a time: cleanup_worker_active is swapped, passed on  *)
(* to the task and given back by its guard, and no request, build or        *)
(* shutdown in between lets a second cleanup in.                            *)
THEOREM OneCleanupAtATime == Spec => []SingleWorker
  <1>1. QueueTypes /\ FlagInv /\ [Next]_vars => (QueueTypes /\ FlagInv)'
    BY TypeNext, FlagNext
  <1>2. FlagInv => SingleWorker
    BY DEF FlagInv, SingleWorker, Holds, Holding, Threads
  <1> QED BY QueueInit, <1>1, <1>2, PTL DEF Spec

(* TypeOK holds in every reachable state, for any number of servers,        *)
(* callers, workers and retries.                                            *)
THEOREM QueueTyping == Spec => []TypeOK
  BY QueueInit, TypeNext, TypesAreTypeOK, PTL DEF Spec

-----------------------------------------------------------------------------
(* What a cleanup deletes *)

(* A set of numbers below a bound has a greatest. *)
LEMMA MaxIn ==
  ASSUME NEW n \in Nat, NEW S \in SUBSET (0..n), S # {}
  PROVE  Max(S) \in S
  <1> DEFINE R == OpToRel(<, Nat)
             B == {n - x : x \in S}
  <1>1. IsWellFoundedOn(R, Nat) BY NatLessThanWellFounded
  <1>2. \A x, y \in Nat : x < y => <<x, y>> \in R BY DEF OpToRel
  <1>0. \A x \in S : x \in 0..n /\ n - x \in Nat OBVIOUS
  <1>a. \A b \in B : b \in Nat BY <1>0
  <1>b. PICK s \in S : TRUE OBVIOUS
  <1>c. n - s \in B BY <1>b
  <1>3. B \subseteq Nat /\ B # {} BY <1>a, <1>c
  <1>4. \A b \in B : \E x \in S : b = n - x OBVIOUS
  <1>5. \A x \in S : n - x \in B OBVIOUS
  <1> HIDE DEF R, B
  <1>6. PICK b \in B : \A y \in B : ~(<<y, b>> \in R) BY <1>1, <1>3, WFMin
  <1>7. PICK x \in S : b = n - x BY <1>4
  <1>8. ASSUME NEW y \in S PROVE x >= y
    <2>1. n - y \in B /\ n - y \in Nat /\ b \in Nat BY <1>3, <1>5
    <2>2. ~(n - y < b) BY <1>2, <1>6, <2>1
    <2> QED BY <1>7, <2>1, <2>2
  <1> QED BY <1>8 DEF Max

(* The cursor moves to a row. *)
LEMMA CursorType ==
  ASSUME BatchTypeOK
  PROVE  NextCursor \in Rows \cup {0}
  <1> DEFINE S == {cursor} \cup {c[1] : c \in ftsFound}
  <1>1. S \in SUBSET (0..MaxRow) /\ S # {} BY BatchAssumption DEF BatchTypeOK, Rows
  <1>2. Max(S) \in S BY <1>1, MaxIn, BatchAssumption
  <1> QED BY <1>1, <1>2, BatchAssumption DEF NextCursor, Rows

(* What is deleted of the rows of a generation is there, and obsolete. *)
LEMMA GoneRows ==
  ASSUME BatchTypeOK, NEW gone \in [Gens -> 0..BatchSize], EntriesGone(gone), NEW g \in Gens
  PROVE  /\ gone[g] \in Nat /\ gone[g] <= entries[g] /\ entries[g] - gone[g] \in Nat
         /\ ~Obsolete(g) => gone[g] = 0
  <1>1. entries[g] \in Nat /\ gone[g] \in Nat BY BatchAssumption DEF BatchTypeOK
  <1>2. gone[g] <= IF Obsolete(g) THEN entries[g] ELSE 0 BY DEF EntriesGone
  <1> QED BY <1>1, <1>2

(* The first rows, or generations, of a set are some of it. *)
LEMMA FirstIn ==
  ASSUME NEW S
  PROVE  First(S) \subseteq S
  BY DEF First

(* A run that ends keeps the types. *)
LEMMA StopTypes ==
  ASSUME BatchTypeOK, NEW to, Stop(to)
  PROVE  /\ pc' = to /\ cursor' \in Rows \cup {0}
         /\ ftsFound' \subseteq Rows \X Gens /\ gensFound' \subseteq Gens
  BY DEF BatchTypeOK, Stop

(* Every transaction keeps the types. *)
LEMMA BatchTypes == BatchTypeOK /\ [BatchNext]_batchVars => BatchTypeOK'
  <1> SUFFICES ASSUME BatchTypeOK, [BatchNext]_batchVars PROVE BatchTypeOK'
    OBVIOUS
  <1> USE DEF BatchTypeOK
  <1>1. CASE Reserve \/ ClearActiveBuild \/ ScheduleCleanup
    BY <1>1 DEF Reserve, ClearActiveBuild, ScheduleCleanup, db, run
  <1>2. CASE StartGeneration BY <1>2 DEF StartGeneration, run
  <1>3. CASE InsertEntry
    <2>1. PICK g \in Gens, r \in Rows :
            entries' = [entries EXCEPT ![g] = @ + 1] /\ fts' = [fts EXCEPT ![r] = g]
      BY <1>3 DEF InsertEntry
    <2>2. entries' \in [Gens -> Nat] /\ fts' \in [Rows -> Gens \cup {NoGen}] BY <2>1
    <2> QED BY <1>3, <2>2 DEF InsertEntry, run
  <1>4. CASE Promote BY <1>4 DEF Promote, run
  <1>5. CASE GiveUp BY <1>5 DEF GiveUp, run
  <1>6. CASE ClearServer BY <1>6 DEF ClearServer, NoTables, run
  <1>7. CASE StartRun \/ TakeRequest \/ Begin \/ Resume \/ ClearFinished
    BY <1>7 DEF StartRun, TakeRequest, Begin, Resume, ClearFinished, db
  <1>8. CASE Discover
    <2>1. FtsCandidates \subseteq Rows \X Gens
      <3>1. \A r \in FtsRows : r \in Rows /\ fts[r] \in Gens BY DEF FtsRows
      <3>2. \A c \in FtsCandidates : \E r \in FtsRows : c = <<r, fts[r]>>
        BY FirstIn DEF FtsCandidates
      <3> QED BY <3>1, <3>2
    <2>2. GenerationCandidates \subseteq Gens BY FirstIn DEF GenerationCandidates
    <2>3. CASE EndRun BY <1>8, <2>3, StopTypes DEF Discover, EndRun, db
    <2> QED BY <1>8, <2>1, <2>2, <2>3 DEF Discover, db
  <1>9. CASE Delete
    <2>1. CASE EndRun /\ UNCHANGED db BY <1>9, <2>1, StopTypes DEF Delete, EndRun, db
    <2>2. ASSUME NEW gone \in [Gens -> 0..BatchSize], EntriesGone(gone),
                 entries' = [g \in Gens |-> entries[g] - gone[g]],
                 fts' = [r \in Rows |-> IF r \in FtsGone THEN NoGen ELSE fts[r]],
                 state' = [g \in Gens |-> IF g \in GensGone(gone) THEN "none" ELSE state[g]],
                 Stop("clear") \/ /\ pc' = "discover" /\ ftsFound' = {} /\ gensFound' = {}
                                  /\ cursor' = NextCursor,
                 UNCHANGED requested
          PROVE  BatchTypeOK'
      <3>1. entries' \in [Gens -> Nat] BY <2>2, GoneRows
      <3>2. fts' \in [Rows -> Gens \cup {NoGen}] BY <2>2
      <3>3. state' \in [Gens -> {"none", "staging", "active", "superseded", "failed"}] BY <2>2
      <3>4. NextCursor \in Rows \cup {0} BY CursorType
      <3>5. /\ pc' \in {"clear", "discover"} /\ cursor' \in Rows \cup {0}
            /\ ftsFound' \subseteq Rows \X Gens /\ gensFound' \subseteq Gens
        BY <2>2, <3>4, StopTypes
      <3> QED BY <1>9, <2>2, <3>1, <3>2, <3>3, <3>5 DEF Delete
    <2> QED BY <1>9, <2>1, <2>2 DEF Delete
  <1>10. CASE AttemptFails BY <1>10, StopTypes DEF AttemptFails, db
  <1>11. CASE Restart
    <2>1. state' \in [Gens -> {"none", "staging", "active", "superseded", "failed"}]
      BY <1>11 DEF Restart, NoTables
    <2>2. entries' \in [Gens -> Nat] /\ fts' \in [Rows -> Gens \cup {NoGen}]
      BY <1>11 DEF Restart, NoTables
    <2>3. requested' \in BOOLEAN /\ gaveUp' \in BOOLEAN
      BY <1>11 DEF Restart, HasObsolete
    <2>4. restarts' \in 0..MaxRestarts BY <1>11, BatchAssumption DEF Restart
    <2> QED BY <1>11, <2>1, <2>2, <2>3, <2>4, StopTypes DEF Restart
  <1>12. CASE UNCHANGED batchVars BY <1>12 DEF batchVars, db, run
  <1> QED BY <1>1, <1>2, <1>3, <1>4, <1>5, <1>6, <1>7, <1>8, <1>9, <1>10, <1>11, <1>12
          DEF BatchNext

(* The counters and candidates of a cleanup are what they are said to be:    *)
(* in particular the cursor stays within the rows and no count of rows       *)
(* becomes negative.                                                         *)
THEOREM BatchTyping == BatchSpec => []BatchTypeOK
  <1>1. BatchInit => BatchTypeOK
    <2> SUFFICES ASSUME BatchInit PROVE BatchTypeOK OBVIOUS
    <2>1. restarts \in 0..MaxRestarts BY BatchAssumption DEF BatchInit
    <2>2. entries \in [Gens -> Nat] /\ fts \in [Rows -> Gens \cup {NoGen}]
      BY DEF BatchInit
    <2>3. state \in [Gens -> {"none", "staging", "active", "superseded", "failed"}]
      BY DEF BatchInit
    <2> QED BY <2>1, <2>2, <2>3 DEF BatchInit, BatchTypeOK
  <1> QED BY <1>1, BatchTypes, PTL DEF BatchSpec

(* delete_cleanup_batch leaves a generation that is not obsolete alone. *)
LEMMA DeleteSpares ==
  ASSUME BatchTypeOK, Delete, NEW g \in Gens, ~Obsolete(g)
  PROVE  /\ state'[g] = state[g] /\ entries'[g] = entries[g]
         /\ \A r \in RowsOf(g) : fts'[r] = g
  <1>1. CASE UNCHANGED db BY <1>1 DEF db, RowsOf
  <1>2. ASSUME NEW gone \in [Gens -> 0..BatchSize], EntriesGone(gone),
               entries' = [h \in Gens |-> entries[h] - gone[h]],
               fts' = [r \in Rows |-> IF r \in FtsGone THEN NoGen ELSE fts[r]],
               state' = [h \in Gens |-> IF h \in GensGone(gone) THEN "none" ELSE state[h]]
        PROVE  /\ state'[g] = state[g] /\ entries'[g] = entries[g]
               /\ \A r \in RowsOf(g) : fts'[r] = g
    <2>1. entries'[g] = entries[g]
      <3>1. gone[g] = 0 /\ entries[g] \in Nat BY <1>2, GoneRows DEF BatchTypeOK
      <3> QED BY <1>2, <3>1
    <2>2. state'[g] = state[g]
      <3>1. g \notin GensGone(gone) BY DEF GensGone
      <3> QED BY <1>2, <3>1
    <2>3. ASSUME NEW r \in RowsOf(g) PROVE fts'[r] = g
      <3>1. r \in Rows /\ fts[r] = g BY DEF RowsOf
      <3>2. r \notin FtsGone
        <4> SUFFICES ASSUME NEW d \in ftsFound, r = d[1], fts[d[1]] = d[2], Obsolete(d[2])
                     PROVE  FALSE
          BY DEF FtsGone
        <4> QED BY <3>1
      <3> QED BY <1>2, <3>1, <3>2
    <2> QED BY <2>1, <2>2, <2>3
  <1> QED BY <1>1, <1>2 DEF Delete

(* However old its candidates are, cleanup_one_batch takes no row, no entry  *)
(* and no record of a generation that is being built or served, whatever the *)
(* numbers of generations and rows and the batch size.                       *)
THEOREM CleanupSparesLiveGenerations == BatchSpec => DeletesOnlyObsolete
  <1>1. BatchTypeOK /\ [BatchNext]_batchVars
          => [Delete => \A g \in Gens :
                ~Obsolete(g) => /\ state'[g] = state[g] /\ entries'[g] = entries[g]
                                /\ \A r \in RowsOf(g) : fts'[r] = g]_batchVars
    BY DeleteSpares
  <1> QED BY <1>1, BatchTyping, PTL DEF BatchSpec, DeletesOnlyObsolete
=============================================================================
