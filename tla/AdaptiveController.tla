------------------------- MODULE AdaptiveController -------------------------
(***************************************************************************)
(* The adaptive (AIMD) controller of a running build and the two places of *)
(* the build loop that drive it.                                           *)
(*                                                                         *)
(* Code: crates/opcda-bridge-gateway/src/controller.rs (observe) and       *)
(* src/index/traversal.rs (handle_slice_event,                             *)
(* wait_for_controller_recovery).  The three limits are one function over  *)
(* Dim.  An Instant is kept as the time that remains until it; one Tick is *)
(* one unit of time.  An observation is what hard_reason and soft_reason   *)
(* make of it: which metric is to blame is reported, not decided upon.     *)
(***************************************************************************)
EXTENDS IndexSettings

CONSTANT
  MaxFactor      \* the recovery delay is multiplied by at most 1 << 10

ASSUME ControllerAssumption == MaxFactor \in Nat \ {0}

VARIABLES
  config,     \* normalized configuration of this build
  mode,       \* ControllerState; Paused(Foreground) and Paused(_) apart
  limits,     \* InventoryLimits
  hold,       \* hold_until
  recovery,   \* recovery_at
  factor,     \* 1 << min(recovery_exponent, 10)
  duty,       \* BuildRunState.effective_duty_cycle_percent
  pressure,   \* what the next observation will see
  due         \* time until the deadline of the last pause_for (history)

vars == <<config, mode, limits, hold, recovery, factor, duty, pressure, due>>

NoTimer == -1

Paused == mode \in {"foreground", "pressure"}

(* Foreground work in progress, or the worst guardrail that is exceeded.    *)
Pressure == [foreground : BOOLEAN, level : {"ok", "soft", "hard"}]
Calm == [foreground |-> FALSE, level |-> "ok"]

TypeOK ==
  /\ config.floor \in [Dim -> Nat] /\ config.canary \in [Dim -> Nat]
  /\ config.ceiling \in [Dim -> Nat]
  /\ config.window \in Nat /\ config.delay \in Nat /\ config.maxDelay \in Nat
  /\ mode \in {"ramping", "steady", "throttled", "foreground", "pressure"}
  /\ limits \in [Dim -> Nat]
  /\ hold \in Nat \cup {NoTimer} /\ recovery \in Nat \cup {NoTimer}
  /\ factor \in 1..MaxFactor
  /\ duty \in Nat /\ due \in Nat
  /\ pressure \in Pressure

(* AdaptiveIndexController::new in run_build, and BuildRunState::new: the    *)
(* duty cycle in use starts from the settings.                               *)
Init ==
  \E file \in Files :
    /\ config = Normalized(ControllerConfig(Resolve(file)))
    /\ mode = "ramping" /\ limits = config.canary
    /\ hold = config.window /\ recovery = NoTimer /\ factor = 1
    /\ duty = Resolve(file).ceiling["duty"]
    /\ pressure \in Pressure /\ due = 0

-----------------------------------------------------------------------------
HalveWithoutFloor(l) ==                \* mutant of Halve
  [d \in Dim |-> l[d] \div 2]

(* Multiplicative decrease. *)
Halve(l) == [d \in Dim |-> Larger(l[d] \div 2, config.floor[d])]

(* Additive increase: a tenth, at least one; one point of duty cycle.        *)
Raise(l) ==
  [d \in Dim |->
     IF d = "rate" /\ config.unlimited THEN l[d]
     ELSE Smaller(l[d] + (IF d = "duty" THEN 1 ELSE Larger(l[d] \div 10, 1)),
                  config.ceiling[d])]

(* The delay of pause_for doubles with every pause until a window passes     *)
(* without pressure.                                                         *)
RecoveryDelay == Smaller(config.delay * factor, config.maxDelay)

Throttle ==
  /\ mode' = "throttled" /\ limits' = Halve(limits)
  /\ hold' = config.window /\ recovery' = NoTimer
  /\ UNCHANGED <<factor, due>>

PauseFor ==
  /\ mode' = "pressure" /\ limits' = config.canary
  /\ hold' = NoTimer
  /\ recovery' = RecoveryDelay /\ due' = RecoveryDelay
  /\ factor' = Smaller(2 * factor, MaxFactor)

IncreaseLimits ==
  /\ limits' = Raise(limits)
  /\ mode' = IF Raise(limits) = config.ceiling THEN "steady" ELSE "ramping"
  /\ hold' = config.window /\ factor' = 1
  /\ UNCHANGED <<recovery, due>>

(* Foreground work: everything but the mode is kept for afterwards.          *)
Yield ==
  /\ mode' = "foreground" /\ recovery' = NoTimer
  /\ UNCHANGED <<limits, hold, factor, due>>

Keep == UNCHANGED <<mode, limits, hold, recovery, factor, due>>

(* A pause is over: ramp up again, from the canary after pressure and from   *)
(* the old limits after foreground work, unless a soft guardrail halves them *)
(* at once.                                                                  *)
ResumeWithoutHold(soft) ==             \* mutant of Resume
  /\ mode' = "ramping"
  /\ limits' = IF mode = "pressure" THEN config.canary ELSE limits
  /\ recovery' = NoTimer
  /\ UNCHANGED <<hold, factor, due>>

Resume(soft) ==
  LET from == IF mode = "pressure" THEN config.canary ELSE limits IN
  /\ mode' = IF soft THEN "throttled" ELSE "ramping"
  /\ limits' = IF soft THEN Halve(from) ELSE from
  /\ hold' = config.window /\ recovery' = NoTimer
  /\ UNCHANGED <<factor, due>>

(* observe, in the order of its tests. *)
Observe ==
  LET soft == pressure.level = "soft" IN
  \/ pressure.foreground /\ Yield
  \/ /\ ~pressure.foreground /\ pressure.level = "hard"
     /\ PauseFor
  \/ /\ ~pressure.foreground /\ pressure.level # "hard"
     /\ \/ mode = "foreground" /\ Resume(soft)
        \/ mode = "pressure" /\ recovery > 0 /\ Keep
        \/ mode = "pressure" /\ recovery <= 0 /\ Resume(soft)
        \/ ~Paused /\ soft /\ (mode # "throttled" \/ hold <= 0) /\ Throttle
        \/ ~Paused /\ soft /\ mode = "throttled" /\ hold > 0 /\ Keep
        \/ ~Paused /\ ~soft /\ hold = 0 /\ IncreaseLimits
        \/ ~Paused /\ ~soft /\ hold # 0 /\ Keep

(* handle_slice_event: the loop asks for an event only when not paused.      *)
SliceEvent ==
  /\ ~Paused /\ Observe
  /\ duty' = limits'["duty"]
  /\ UNCHANGED <<config, pressure>>

RecoverPolling ==                      \* mutant of Recover
  /\ Paused /\ Observe
  /\ UNCHANGED <<config, duty, pressure>>

(* wait_for_controller_recovery: sleeps until recovery_at (or for a moment   *)
(* when there is none), then observes.                                       *)
Recover ==
  /\ Paused /\ recovery <= 0 /\ Observe
  /\ UNCHANGED <<config, duty, pressure>>

Down(n) == IF n > 0 THEN n - 1 ELSE n

(* Time passes. *)
Tick ==
  /\ hold > 0 \/ recovery > 0 \/ due > 0
  /\ hold' = Down(hold) /\ recovery' = Down(recovery) /\ due' = Down(due)
  /\ UNCHANGED <<config, mode, limits, factor, duty, pressure>>

(* Foreground calls, the OPC server, the host and the disk change. *)
Change ==
  /\ pressure' \in Pressure
  /\ UNCHANGED <<config, mode, limits, hold, recovery, factor, duty, due>>

Next == SliceEvent \/ Recover \/ Tick \/ Change

Spec == Init /\ [][Next]_vars

(* While the build runs, its loop is driven by slices and by the timer of    *)
(* the recovery wait, and the clock goes on.                                 *)
FairSpec ==
  Spec /\ WF_vars(Tick) /\ WF_vars(SliceEvent) /\ WF_vars(Recover)

-----------------------------------------------------------------------------
(* Whatever was configured and whatever happens, the limits sent to the     *)
(* inventory stay between the normalized floor and ceiling.                 *)
LimitsInRange ==
  \A d \in Dim :
    config.floor[d] <= limits[d] /\ limits[d] <= config.ceiling[d]

(* After pressure no slice is admitted before the delay of pause_for has    *)
(* passed: not even when foreground work, which clears recovery_at, begins  *)
(* and ends during the pause.                                               *)
RecoveryHonoured == ~Paused => due = 0

(* Once the pressure is gone for good, a running build works up to the      *)
(* configured limits and stays there.                                       *)
ReachesCeiling ==
  <>[](pressure = Calm) => <>[](mode = "steady" /\ limits = config.ceiling)

(* "When adaptive indexing is enabled, it starts at the canary profile and  *)
(* backs off": the duty cycle that is enforced between two events is the    *)
(* one the controller has decided on.                                       *)
DutyFollowsController == ~Paused => duty = limits["duty"]

=============================================================================
