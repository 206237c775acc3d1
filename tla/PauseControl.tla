---------------------------- MODULE PauseControl ----------------------------
(***************************************************************************)
(* Who may run: foreground calls, the operator, the maintenance window, the *)
(* health probe and the adaptive controller each pause the native inventory *)
(* of a server's build, and reconcile_pause_state makes one decision of it. *)
(*                                                                          *)
(* Code: crates/opcda-bridge-gateway/src/index/status.rs (foreground_guard, *)
(* foreground_end, set_pause_overlay, reconcile_pause_state),               *)
(* enrollment.rs (reserve_refresh_build, control) and traversal.rs (the     *)
(* gates of run_build_loop, enforce_duty_cycle).                            *)
(*                                                                          *)
(* One server, one build after another.  Every lock section is a step of    *)
(* its own; the call on the native control comes after the runtime lock is  *)
(* released, on the control cloned under it.                                *)
(***************************************************************************)
EXTENDS Naturals, FiniteSets

CONSTANTS
  Calls,       \* foreground RPCs (read, write, browse, search, capabilities)
  Operators,   \* Pause and Resume requests
  Parties      \* who takes part: sets of calls and operators

Loop == "loop"                       \* the task of the build
NoCall == "none"

ASSUME PauseAssumption ==
  /\ IsFiniteSet(Calls)
  /\ Loop \notin Calls \cup Operators
  /\ NoCall \notin Calls
  /\ Calls \cap Operators = {}
  /\ Parties \subseteq SUBSET (Calls \cup Operators)

VARIABLES
  users,      \* foreground_users[server]
  alive,      \* runtime[server].build is Some
  build,      \* the RuntimeBuild, as far as it decides a pause
  overlay,    \* pause_overlays[server]
  paused,     \* the native inventory of the build is paused
  buffered,   \* an event waits in the inventory stream
  task,       \* program counter and locals of every task
  present     \* the calls and operators of this behaviour

pauseVars == <<users, alive, build, overlay, paused, buffered, task, present>>

Tasks == Calls \cup Operators \cup {Loop}

(* foreground_users, operator_paused, quiet_until (who set it, and whether   *)
(* it has passed), control, controller_state = Paused(_); reserved: ghost,   *)
(* the count is still the one of the reservation.                            *)
NewBuild(count) ==
  [fg |-> count, operator |-> FALSE, quiet |-> NoCall, expired |-> FALSE,
   control |-> FALSE, throttled |-> FALSE, reserved |-> TRUE]

NoOverlay == [maintenance |-> FALSE, health |-> FALSE]

(* count: a foreground count read earlier; seen: the overlay read by         *)
(* reconcile_pause_state; want: what to tell the control; then: where to go  *)
(* on after the reconciliation.                                              *)
At(pc) == [pc |-> pc, count |-> 0, seen |-> NoOverlay, want |-> "none", then |-> pc]

Reconcile(then) == [At(then) EXCEPT !.pc = "reconcile"]

Goto(t, step) == task' = [task EXCEPT ![t] = step]

Places ==
  {"idle", "counted", "serving", "ended", "asleep", "reserve", "starting",
   "attached", "running", "iterate", "health", "probing", "recovery", "stream",
   "duty", "yield", "resting", "resume"}

PauseTypeOK ==
  /\ users \in 0..Cardinality(Calls)
  /\ alive \in BOOLEAN
  /\ build \in [fg : 0..Cardinality(Calls), operator : BOOLEAN,
                quiet : Calls \cup {NoCall}, expired : BOOLEAN,
                control : BOOLEAN, throttled : BOOLEAN, reserved : BOOLEAN]
  /\ overlay \in [maintenance : BOOLEAN, health : BOOLEAN]
  /\ paused \in BOOLEAN /\ buffered \in BOOLEAN
  /\ task \in [Tasks -> [pc : Places \cup {"reconcile", "decide", "apply"},
                         count : 0..Cardinality(Calls),
                         seen : [maintenance : BOOLEAN, health : BOOLEAN],
                         want : {"none", "pause", "resume"},
                         then : Places]]

(* The gateway serves and no build is reserved yet. *)
PauseInit ==
  /\ users = 0 /\ alive = FALSE /\ build = NewBuild(0)
  /\ overlay = NoOverlay /\ paused = FALSE /\ buffered = FALSE
  /\ task = [t \in Tasks |-> At("idle")]
  /\ present \in Parties

-----------------------------------------------------------------------------
(* reconcile_pause_state *)

QuietPeriod == build.quiet # NoCall /\ ~build.expired

PauseReason(seen) ==
  \/ build.operator \/ build.fg > 0 \/ QuietPeriod
  \/ seen.maintenance \/ seen.health \/ build.throttled

ReadOverlay(t) ==
  /\ task[t].pc = "reconcile"
  /\ Goto(t, [task[t] EXCEPT !.pc = "decide", !.seen = overlay])
  /\ UNCHANGED <<users, alive, build, overlay, paused, buffered, present>>

Decide(t) ==
  /\ task[t].pc = "decide"
  /\ \/ ~(alive /\ build.control) /\ Goto(t, At(task[t].then))
     \/ /\ alive /\ build.control
        /\ Goto(t, [Reconcile(task[t].then) EXCEPT
                      !.pc = "apply",
                      !.want = IF PauseReason(task[t].seen) THEN "pause" ELSE "resume"])
  /\ UNCHANGED <<users, alive, build, overlay, paused, buffered, present>>

(* control.pause() or resume(), outside of every lock.  Meanwhile the build  *)
(* may have ended, and its control with it.                                  *)
Apply(t) ==
  /\ task[t].pc = "apply"
  /\ paused' = IF task[t].want = "none" THEN paused ELSE task[t].want = "pause"
  /\ Goto(t, At(task[t].then))
  /\ UNCHANGED <<users, alive, build, overlay, buffered, present>>

-----------------------------------------------------------------------------
(* Foreground calls: foreground_guard, foreground_end and the task that      *)
(* sleeps through the quiet period.                                          *)

Begin(c) ==
  /\ c \in present /\ task[c].pc = "idle"
  /\ users' = users + 1
  /\ Goto(c, [At("counted") EXCEPT !.count = users + 1])
  /\ UNCHANGED <<alive, build, overlay, paused, buffered, present>>

Register(c) ==
  /\ task[c].pc = "counted"
  /\ build' = IF alive
              THEN [build EXCEPT !.fg = task[c].count, !.quiet = NoCall, !.expired = FALSE,
                                 !.reserved = FALSE]
              ELSE build
  /\ Goto(c, Reconcile("serving"))
  /\ UNCHANGED <<users, alive, overlay, paused, buffered, present>>

(* decrement_foreground_users *)
EndCall(c) ==
  /\ task[c].pc = "serving"
  /\ users' = users - 1
  /\ Goto(c, [At("ended") EXCEPT !.count = users - 1])
  /\ UNCHANGED <<alive, build, overlay, paused, buffered, present>>

UnregisterRemembered(c) ==             \* mutant of Unregister
  /\ task[c].pc = "ended"
  /\ build' = IF alive
              THEN [build EXCEPT !.fg = task[c].count,
                                 !.quiet = IF task[c].count = 0 THEN c ELSE build.quiet,
                                 !.expired = IF task[c].count = 0 THEN FALSE ELSE build.expired,
                                 !.reserved = FALSE]
              ELSE build
  /\ Goto(c, Reconcile("asleep"))
  /\ UNCHANGED <<users, alive, overlay, paused, buffered, present>>

(* update_runtime_after_foreground_end: the count is read again under the    *)
(* runtime lock.                                                             *)
Unregister(c) ==
  /\ task[c].pc = "ended"
  /\ build' = IF alive
              THEN [build EXCEPT !.fg = users,
                                 !.quiet = IF users = 0 THEN c ELSE build.quiet,
                                 !.expired = IF users = 0 THEN FALSE ELSE build.expired,
                                 !.reserved = FALSE]
              ELSE build
  /\ Goto(c, Reconcile("asleep"))
  /\ UNCHANGED <<users, alive, overlay, paused, buffered, present>>

QuietPeriodOver == alive /\ build.fg = 0 /\ build.quiet # NoCall /\ build.expired

(* clear_expired_foreground_quiet_period, after the sleep.  A call that set  *)
(* the deadline sleeps at least until then.                                  *)
Wake(c) ==
  /\ task[c].pc = "asleep" /\ (alive /\ build.quiet = c => build.expired)
  /\ \/ /\ QuietPeriodOver
        /\ build' = [build EXCEPT !.quiet = NoCall, !.expired = FALSE]
        /\ Goto(c, Reconcile("idle"))
     \/ /\ ~QuietPeriodOver /\ Goto(c, At("idle"))
        /\ UNCHANGED build
  /\ UNCHANGED <<users, alive, overlay, paused, buffered, present>>

(* The deadline of the quiet period passes. *)
Expire ==
  /\ QuietPeriod /\ build' = [build EXCEPT !.expired = TRUE]
  /\ UNCHANGED <<users, alive, overlay, paused, buffered, task, present>>

(* control(Pause), control(Resume): apply_control_action, resume_build.      *)
PauseBuild(o) ==
  /\ o \in present /\ alive /\ task[o].pc = "idle"
  /\ build' = [build EXCEPT !.operator = TRUE]
  /\ Goto(o, Reconcile("idle"))
  /\ UNCHANGED <<users, alive, overlay, paused, buffered, present>>

ResumeBuild(o) ==
  /\ o \in present /\ alive /\ task[o].pc = "idle"
  /\ build' = IF QuietPeriodOver
              THEN [build EXCEPT !.operator = FALSE, !.quiet = NoCall, !.expired = FALSE]
              ELSE [build EXCEPT !.operator = FALSE]
  /\ Goto(o, Reconcile("idle"))
  /\ UNCHANGED <<users, alive, overlay, paused, buffered, present>>

-----------------------------------------------------------------------------
(* The build: reservation, start and loop. *)

LoopAt(pc) == task[Loop].pc = pc

(* reserve_refresh_build reads the count, then takes the runtime lock. *)
ReadUsers ==
  /\ LoopAt("idle")
  /\ Goto(Loop, [At("reserve") EXCEPT !.count = users])
  /\ UNCHANGED <<users, alive, build, overlay, paused, buffered, present>>

Reserve ==
  /\ LoopAt("reserve")
  /\ alive' = TRUE /\ build' = NewBuild(task[Loop].count)
  /\ Goto(Loop, At("starting"))
  /\ UNCHANGED <<users, overlay, paused, buffered, present>>

(* attach_refresh_control: the native inventory has started, unpaused. *)
Attach ==
  /\ LoopAt("starting")
  /\ build' = [build EXCEPT !.control = TRUE] /\ paused' = FALSE
  /\ Goto(Loop, At("attached"))
  /\ UNCHANGED <<users, alive, overlay, buffered, present>>

(* launch_refresh_build reconciles, and so does run_build when it publishes  *)
(* the state of its controller.                                              *)
Launch ==
  /\ LoopAt("attached") /\ Goto(Loop, Reconcile("running"))
  /\ UNCHANGED <<users, alive, build, overlay, paused, buffered, present>>

StartRun ==
  /\ LoopAt("running")
  /\ \/ Goto(Loop, Reconcile("iterate"))         \* adaptive
     \/ Goto(Loop, At("iterate"))
  /\ UNCHANGED <<users, alive, build, overlay, paused, buffered, present>>

WaitForMaintenanceOnChange ==          \* mutant of WaitForMaintenance
  /\ LoopAt("iterate")
  /\ \E outside \in BOOLEAN :
       /\ overlay' = [overlay EXCEPT !.maintenance = outside]
       /\ LET then == IF outside THEN "iterate" ELSE "health" IN
          Goto(Loop, IF outside = overlay.maintenance THEN At(then) ELSE Reconcile(then))
  /\ UNCHANGED <<users, alive, build, paused, buffered, present>>

(* wait_for_maintenance: set_pause_overlay reconciles on every round. *)
WaitForMaintenance ==
  /\ LoopAt("iterate")
  /\ \E outside \in BOOLEAN :
       /\ overlay' = [overlay EXCEPT !.maintenance = outside]
       /\ Goto(Loop, Reconcile(IF outside THEN "iterate" ELSE "health"))
  /\ UNCHANGED <<users, alive, build, paused, buffered, present>>

(* wait_for_health: no probe is due, or one is made with the health overlay  *)
(* set.  A server found unhealthy is probed again after a delay.             *)
WaitForHealth ==
  /\ LoopAt("health")
  /\ \/ /\ ~overlay.health /\ Goto(Loop, At("recovery"))
        /\ UNCHANGED overlay
     \/ /\ overlay' = [overlay EXCEPT !.health = TRUE]
        /\ Goto(Loop, Reconcile("probing"))
  /\ UNCHANGED <<users, alive, build, paused, buffered, present>>

Probed ==
  /\ LoopAt("probing")
  /\ \/ /\ overlay' = [overlay EXCEPT !.health = FALSE]
        /\ Goto(Loop, Reconcile("recovery"))
     \/ /\ Goto(Loop, At("health")) /\ UNCHANGED overlay
  /\ UNCHANGED <<users, alive, build, paused, buffered, present>>

(* update_runtime_controller with the next decision of the controller. *)
UpdateController(then) ==
  /\ \E hold \in BOOLEAN : build' = [build EXCEPT !.throttled = hold]
  /\ Goto(Loop, Reconcile(then))

WaitForRecovery ==
  /\ LoopAt("recovery")
  /\ \/ build.throttled /\ UpdateController("recovery")
     \/ /\ ~build.throttled /\ Goto(Loop, At("stream"))
        /\ UNCHANGED build
  /\ UNCHANGED <<users, alive, overlay, paused, buffered, present>>

(* External: an inventory that is not paused yields an event. *)
Produce ==
  /\ alive /\ build.control /\ ~paused /\ ~buffered
  /\ buffered' = TRUE
  /\ UNCHANGED <<users, alive, build, overlay, paused, task, present>>

(* handle_inventory_event: an entry, a slice, or progress, after which the   *)
(* duty cycle is enforced.                                                   *)
Event ==
  /\ LoopAt("stream") /\ buffered /\ buffered' = FALSE
  /\ \/ Goto(Loop, At("iterate")) /\ UNCHANGED build
     \/ UpdateController("iterate")
     \/ Goto(Loop, At("duty")) /\ UNCHANGED build
  /\ UNCHANGED <<users, alive, overlay, paused, present>>

(* enforce_duty_cycle: pause unless something else does, rest, and resume    *)
(* unless something else pauses by then.  The overlays are those of the loop *)
(* itself.                                                                   *)
DutyCycle ==
  /\ LoopAt("duty")
  /\ Goto(Loop, IF PauseReason(overlay) THEN At("resting")
                ELSE [At("yield") EXCEPT !.want = "pause"])
  /\ UNCHANGED <<users, alive, build, overlay, paused, buffered, present>>

DutyPause ==
  /\ LoopAt("yield") /\ paused' = TRUE
  /\ Goto(Loop, [At("resting") EXCEPT !.want = "resume"])
  /\ UNCHANGED <<users, alive, build, overlay, buffered, present>>

Rested ==
  /\ LoopAt("resting")
  /\ Goto(Loop, At(IF task[Loop].want = "resume" /\ ~PauseReason(overlay)
                   THEN "resume" ELSE "iterate"))
  /\ UNCHANGED <<users, alive, build, overlay, paused, buffered, present>>

DutyResume ==
  /\ LoopAt("resume") /\ paused' = FALSE
  /\ Goto(Loop, At("iterate"))
  /\ UNCHANGED <<users, alive, build, overlay, buffered, present>>

(* The build completes, fails, times out or is cancelled wherever it waits;  *)
(* finalize_owned_build clears the overlays and the runtime entry.  A call   *)
(* that already holds the control acts on an inventory that is gone.         *)
EndBuild ==
  /\ task[Loop].pc \in {"starting", "attached", "iterate", "health", "recovery",
                        "stream", "resting"}
  /\ alive' = FALSE /\ build' = NewBuild(0)
  /\ overlay' = NoOverlay /\ paused' = FALSE /\ buffered' = FALSE
  /\ task' = [t \in Tasks |-> IF t = Loop THEN At("idle")
                              ELSE [task[t] EXCEPT !.want = "none"]]
  /\ UNCHANGED <<users, present>>

-----------------------------------------------------------------------------
CallStep(c) == Register(c) \/ Unregister(c) \/ Wake(c)

BuildStep ==
  \/ Reserve \/ Attach \/ Launch \/ StartRun \/ WaitForMaintenance
  \/ WaitForHealth \/ Probed \/ WaitForRecovery \/ Event
  \/ DutyCycle \/ DutyPause \/ Rested \/ DutyResume

ReconcileStep(t) == ReadOverlay(t) \/ Decide(t) \/ Apply(t)

PauseNext ==
  \/ \E c \in Calls : Begin(c) \/ EndCall(c) \/ CallStep(c)
  \/ \E o \in Operators : PauseBuild(o) \/ ResumeBuild(o)
  \/ \E t \in Tasks : ReconcileStep(t)
  \/ Expire \/ ReadUsers \/ BuildStep \/ Produce \/ EndBuild

PauseSpec == PauseInit /\ [][PauseNext]_pauseVars

(* Tasks are scheduled and timers fire; nobody has to call, to pause, to     *)
(* resume or to start a build, and a call may take for ever.                 *)
FairPauseSpec ==
  /\ PauseSpec
  /\ \A t \in Tasks : WF_pauseVars(ReconcileStep(t))
  /\ \A c \in Calls : WF_pauseVars(CallStep(c))
  /\ WF_pauseVars(Expire) /\ WF_pauseVars(BuildStep) /\ WF_pauseVars(Produce)

-----------------------------------------------------------------------------
Holding(c) ==
  \/ task[c].pc \in {"counted", "serving"}
  \/ task[c].pc \in {"reconcile", "decide", "apply"} /\ task[c].then = "serving"

(* The reference count is exact, and although foreground_guard copies a      *)
(* count it read before it took the runtime lock, the copy in the build says *)
(* "somebody is here" exactly when somebody is, as soon as nobody is between *)
(* the two locks and a call has begun or ended since the build was reserved. *)
CountsAgree ==
  /\ users = Cardinality({c \in Calls : Holding(c)})
  /\ alive /\ ~build.reserved /\ (\A c \in Calls : task[c].pc \notin {"counted", "ended"})
       => (build.fg > 0 <=> users > 0)

(* A pause by the operator or by foreground work that stays in force takes   *)
(* hold in the end: a resume that was decided earlier and comes later only   *)
(* lets the loop reach its next reconciliation.                              *)
PauseTakesHold ==
  <>[](alive /\ (build.operator \/ build.fg > 0)) => <>[](alive /\ paused)

Settled == \A t \in Calls \cup Operators : task[t].pc \in {"idle", "serving"}

(* "Foreground operations are reference-counted per server; indexing stays   *)
(* paused while any foreground user is active": a build that waits for its   *)
(* next event, with no reconciliation under way, is paused during a call.    *)
ForegroundKeepsPaused ==
  (\E c \in Calls : task[c].pc = "serving") /\ Settled /\ LoopAt("stream") => paused

(* "Use index-resume for an operator-paused active build": when nothing      *)
(* asks for a pause any more, the loop does not wait for an event that a     *)
(* paused inventory will not send.                                           *)
NoPauseLeftBehind ==
  ~ /\ LoopAt("stream") /\ paused /\ ~buffered
    /\ \A t \in Calls \cup Operators : task[t].pc = "idle"
    /\ ~build.operator /\ ~QuietPeriod /\ users = 0

=============================================================================
