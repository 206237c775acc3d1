---------------------------- MODULE PacingProofs ----------------------------
(***************************************************************************)
(* How fast a build may go, when it pauses and when the next one is due:   *)
(* theorems about AdaptiveController and RefreshSchedule, for every        *)
(* configuration, and about PauseControl: the foreground count is exact,   *)
(* and its copy in the build agrees with it as far as a pause is decided   *)
(* by it, for any number of calls and operators.                           *)
(***************************************************************************)
EXTENDS AdaptiveController, RefreshSchedule, PauseControl, FiniteSetTheorems, TLAPS

(* A normalized configuration is ordered, whatever the settings were: clamp *)
(* is never called with a minimum above its maximum, and the canary lies    *)
(* between floor and ceiling.                                               *)
Ordered(c) ==
  /\ c.floor \in [Dim -> Nat] /\ c.canary \in [Dim -> Nat]
  /\ c.ceiling \in [Dim -> Nat]
  /\ c.window \in Nat /\ c.delay \in Nat /\ c.maxDelay \in Nat
  /\ \A d \in Dim : c.floor[d] <= c.canary[d] /\ c.canary[d] <= c.ceiling[d]

(* normalized() orders its result. *)
THEOREM NormalizedIsOrdered ==
  ASSUME NEW raw \in RawConfig
  PROVE  Ordered(Normalized(raw))
  <1> DEFINE unpaced(d) == raw.unlimited /\ d = "rate"
             floor == [d \in Dim |->
                  IF unpaced(d) THEN 0 ELSE Clamp(raw.floor[d], 1, Cap[d])]
             ceiling == [d \in Dim |->
                  IF unpaced(d) THEN 0 ELSE Clamp(raw.ceiling[d], floor[d], Cap[d])]
             canary == [d \in Dim |->
                  IF unpaced(d) THEN 0 ELSE Clamp(raw.canary[d], floor[d], ceiling[d])]
  <1>1. /\ raw.floor \in [Dim -> Nat] /\ raw.canary \in [Dim -> Nat]
        /\ raw.ceiling \in [Dim -> Nat] /\ raw.window \in Nat
        /\ raw.delay \in Nat /\ raw.maxDelay \in Nat
        /\ Cap \in [Dim -> Nat \ {0}]
    BY SettingsAssumption DEF RawConfig
  <1>2. /\ floor \in [Dim -> Nat]
        /\ \A d \in Dim : unpaced(d) => floor[d] = 0
        /\ \A d \in Dim : ~unpaced(d) => floor[d] <= Cap[d]
    BY <1>1 DEF Clamp
  <1> HIDE DEF floor
  <1>3. ceiling \in [Dim -> Nat] /\ \A d \in Dim : floor[d] <= ceiling[d]
    BY <1>1, <1>2 DEF Clamp
  <1> HIDE DEF ceiling
  <1>4. canary \in [Dim -> Nat]
        /\ \A d \in Dim : floor[d] <= canary[d] /\ canary[d] <= ceiling[d]
    BY <1>1, <1>2, <1>3 DEF Clamp
  <1> HIDE DEF canary
  <1>5. /\ Normalized(raw).floor = floor /\ Normalized(raw).ceiling = ceiling
        /\ Normalized(raw).canary = canary
        /\ Normalized(raw).window = Larger(raw.window, 1)
        /\ Normalized(raw).delay = Larger(raw.delay, 1)
        /\ Normalized(raw).maxDelay = Larger(raw.maxDelay, Larger(raw.delay, 1))
    BY DEF Normalized, floor, ceiling, canary
  <1> QED BY <1>1, <1>2, <1>3, <1>4, <1>5 DEF Ordered, Larger

(* resolve_index_config and controller_config make numbers of whatever is   *)
(* set and whatever is missing.                                             *)
LEMMA ResolvedIsRaw ==
  ASSUME NEW file \in Files
  PROVE  ControllerConfig(Resolve(file)) \in RawConfig
  <1> DEFINE r == Resolve(file)
  <1>1. /\ file.floor \in [Dim -> Setting] /\ file.canary \in [Dim -> Setting]
        /\ file.ceiling \in [Dim -> Setting] /\ file.batchSize \in Setting
        /\ file.window \in Setting /\ file.delay \in Setting /\ file.maxDelay \in Setting
    BY SettingsAssumption DEF IndexConfig
  <1>2. /\ Default.floor \in [Dim -> Nat] /\ Default.canary \in [Dim -> Nat]
        /\ Default.ceiling \in [Dim -> Nat]
        /\ Default.window \in Nat /\ Default.delay \in Nat /\ Default.maxDelay \in Nat
    BY SettingsAssumption DEF Resolved
  <1>3. \A x \in Setting, n \in Nat : Or(x, n) \in Nat
    BY DEF Or, Setting, Unset
  <1>4. \A d \in Dim, n \in Nat : Within(d, n) \in Nat
    BY SettingsAssumption DEF Within, Larger, Clamp
  <1>5. \A x, y \in Setting, n \in Nat : Or(Or(x, y), n) \in Nat
    BY DEF Or, Setting, Unset
  <1>6. r.floor \in [Dim -> Nat] /\ r.canary \in [Dim -> Nat]
    <2>1. \A d \in Dim : /\ Within(d, Or(file.floor[d], Default.floor[d])) \in Nat
                         /\ Within(d, Or(file.canary[d], Default.canary[d])) \in Nat
      <3> SUFFICES ASSUME NEW d \in Dim
                   PROVE  /\ Within(d, Or(file.floor[d], Default.floor[d])) \in Nat
                          /\ Within(d, Or(file.canary[d], Default.canary[d])) \in Nat
        OBVIOUS
      <3>1. /\ file.floor[d] \in Setting /\ Default.floor[d] \in Nat
            /\ file.canary[d] \in Setting /\ Default.canary[d] \in Nat
        BY <1>1, <1>2
      <3> QED BY <1>3, <1>4, <3>1
    <2> QED BY <2>1 DEF Resolve
  <1>7. r.ceiling \in [Dim -> Nat]
    <2>1. \A d \in Dim : ResolveCeiling(file)[d] \in Nat
      <3> SUFFICES ASSUME NEW d \in Dim PROVE ResolveCeiling(file)[d] \in Nat
        OBVIOUS
      <3>1. file.ceiling[d] \in Setting /\ Default.ceiling[d] \in Nat
        BY <1>1, <1>2
      <3>2. /\ Or(file.ceiling[d], Default.ceiling[d]) \in Nat
            /\ Within(d, Or(file.ceiling[d], Default.ceiling[d])) \in Nat
            /\ Within(d, Or(Or(file.ceiling[d], file.batchSize), Default.ceiling[d])) \in Nat
        BY <1>1, <1>3, <1>4, <1>5, <3>1
      <3> QED BY <3>2 DEF ResolveCeiling
    <2>2. r.ceiling = ResolveCeiling(file)
      BY DEF Resolve
    <2> QED BY <2>1, <2>2 DEF ResolveCeiling
  <1>8. r.window \in Nat /\ r.delay \in Nat /\ r.maxDelay \in Nat
    BY <1>1, <1>2, <1>3 DEF Resolve, Larger
  <1> HIDE DEF r
  <1>9. ControllerConfig(r) \in RawConfig
    BY <1>6, <1>7, <1>8 DEF ControllerConfig, RawConfig
  <1> QED BY <1>9 DEF r

(* Every build starts from an ordered configuration. *)
LEMMA InitIsOrdered == Init => Ordered(config) /\ limits = config.canary
  <1> SUFFICES ASSUME Init PROVE Ordered(config) /\ limits = config.canary
    OBVIOUS
  <1>1. PICK file \in Files : config = Normalized(ControllerConfig(Resolve(file)))
    BY DEF Init
  <1> QED BY <1>1, ResolvedIsRaw, NormalizedIsOrdered DEF Init

-----------------------------------------------------------------------------
(* The limits lie in the range of an ordered configuration. *)
RangeInv == Ordered(config) /\ limits \in [Dim -> Nat] /\ LimitsInRange

(* Halving stops at the floor. *)
LEMMA HalveInRange ==
  ASSUME RangeInv, NEW l \in [Dim -> Nat],
         \A d \in Dim : config.floor[d] <= l[d] /\ l[d] <= config.ceiling[d]
  PROVE  /\ Halve(l) \in [Dim -> Nat]
         /\ \A d \in Dim : config.floor[d] <= Halve(l)[d]
                           /\ Halve(l)[d] <= config.ceiling[d]
  <1>1. \A n \in Nat : n \div 2 \in Nat /\ n \div 2 <= n
    BY SMT
  <1> QED BY <1>1 DEF Halve, Larger, RangeInv, Ordered

(* Raising stops at the ceiling. *)
LEMMA RaiseInRange ==
  ASSUME RangeInv
  PROVE  /\ Raise(limits) \in [Dim -> Nat]
         /\ \A d \in Dim : config.floor[d] <= Raise(limits)[d]
                           /\ Raise(limits)[d] <= config.ceiling[d]
  <1>1. \A n \in Nat : n \div 10 \in Nat
    BY SMT
  <1> QED BY <1>1 DEF Raise, Larger, Smaller, RangeInv, Ordered, LimitsInRange

(* Every outcome of observe. *)
LEMMA ObserveInRange ==
  ASSUME RangeInv, Observe, config' = config
  PROVE  RangeInv'
  <1>1. CASE limits' = limits
    BY <1>1 DEF RangeInv, LimitsInRange
  <1>2. CASE limits' = config.canary
    BY <1>2 DEF RangeInv, LimitsInRange, Ordered
  <1>3. CASE limits' = Halve(limits)
    BY <1>3, HalveInRange DEF RangeInv, LimitsInRange
  <1>4. CASE limits' = Halve(config.canary)
    BY <1>4, HalveInRange DEF RangeInv, LimitsInRange, Ordered
  <1>5. CASE limits' = Raise(limits)
    BY <1>5, RaiseInRange DEF RangeInv, LimitsInRange
  <1> QED
    BY <1>1, <1>2, <1>3, <1>4, <1>5
    DEF Observe, Yield, PauseFor, Resume, Keep, Throttle, IncreaseLimits

(* The limits sent to the inventory never leave the normalized range, for   *)
(* any settings and any history of observations.                            *)
THEOREM LimitsBounded == Spec => []LimitsInRange
  <1>1. Init => RangeInv
    BY InitIsOrdered DEF RangeInv, LimitsInRange, Ordered
  <1>2. RangeInv /\ [Next]_vars => RangeInv'
    <2>1. ASSUME RangeInv, SliceEvent \/ Recover PROVE RangeInv'
      BY <2>1, ObserveInRange DEF SliceEvent, Recover
    <2>2. ASSUME RangeInv, Tick \/ Change \/ UNCHANGED vars PROVE RangeInv'
      BY <2>2 DEF Tick, Change, vars, RangeInv, LimitsInRange
    <2> QED BY <2>1, <2>2 DEF Next
  <1>3. RangeInv => LimitsInRange
    BY DEF RangeInv
  <1> QED BY <1>1, <1>2, <1>3, PTL DEF Spec

-----------------------------------------------------------------------------
(* recovery_at is the deadline of the last hard pause as long as the pause  *)
(* lasts, and that deadline has passed in every other state.                *)
RecoveryInv ==
  /\ Ordered(config) /\ factor \in 1..MaxFactor
  /\ mode \in {"ramping", "steady", "throttled", "foreground", "pressure"}
  /\ due \in Nat
  /\ mode = "pressure" => recovery = due
  /\ mode # "pressure" => recovery = NoTimer /\ due = 0

(* A pause ends only through wait_for_controller_recovery, which sleeps     *)
(* until recovery_at: foreground work during a pause does not shorten it.   *)
THEOREM NoEarlyRecovery == Spec => []RecoveryHonoured
  <1>1. Init => RecoveryInv
    BY InitIsOrdered, ControllerAssumption DEF Init, RecoveryInv
  <1>2. RecoveryInv /\ [Next]_vars => RecoveryInv'
    <2> SUFFICES ASSUME RecoveryInv, [Next]_vars PROVE RecoveryInv'
      OBVIOUS
    <2>0. RecoveryDelay \in Nat /\ Smaller(2 * factor, MaxFactor) \in 1..MaxFactor
          /\ 1 \in 1..MaxFactor
      BY ControllerAssumption DEF RecoveryInv, Ordered, RecoveryDelay, Smaller
    <2>1. CASE (SliceEvent \/ Recover) /\ PauseFor
      BY <2>0, <2>1 DEF PauseFor, RecoveryInv, SliceEvent, Recover
    <2>2. CASE SliceEvent /\ ~PauseFor
      BY <2>0, <2>2 DEF SliceEvent, Observe, Paused, Yield, Resume, Keep, Throttle,
                  IncreaseLimits, RecoveryInv, NoTimer
    <2>3. CASE Recover /\ ~PauseFor
      <3>1. due = 0
        BY <2>3 DEF Recover, RecoveryInv
      <3> QED
        BY <2>0, <2>3, <3>1 DEF Recover, Observe, Paused, Yield, Resume, Keep,
                          Throttle, IncreaseLimits, RecoveryInv, NoTimer
    <2>4. CASE Tick
      BY <2>4 DEF Tick, Down, RecoveryInv, NoTimer
    <2>5. CASE Change \/ UNCHANGED vars
      BY <2>5 DEF Change, vars, RecoveryInv
    <2> QED BY <2>1, <2>2, <2>3, <2>4, <2>5 DEF Next
  <1>3. RecoveryInv => RecoveryHonoured
    BY DEF RecoveryInv, RecoveryHonoured, Paused
  <1> QED BY <1>1, <1>2, <1>3, PTL DEF Spec

-----------------------------------------------------------------------------
(* The schedule *)

(* deterministic_jitter: never more than its maximum, and zero is allowed.   *)
LEMMA JitterBounded ==
  ASSUME NEW hash \in Nat, NEW maximum \in Nat
  PROVE  Jitter(hash, maximum) \in 0..maximum
  BY DEF Jitter

(* scheduler.rs, MaintenanceWindow::contains: a window is what one passes    *)
(* when the clock runs from its start to its end, over midnight too, and the *)
(* whole day if they are the same.                                           *)
THEOREM WindowIsInterval ==
  ASSUME NEW start \in 0..(Day - 1), NEW end \in 0..(Day - 1), NEW minute \in 0..(Day - 1)
  PROVE  Contains(start, end, minute) <=>
           (start = end \/ (minute - start) % Day < (end - start) % Day)
  <1>1. \A a, b \in 0..(Day - 1) : (a - b) % Day = IF a >= b THEN a - b ELSE a - b + Day
    BY SMTT(60) DEF Day
  <1>. Day \in Nat
    BY DEF Day
  <1>2. PICK x \in Int : /\ x = (minute - start) % Day
                         /\ x = IF minute >= start THEN minute - start ELSE minute - start + Day
    BY <1>1
  <1>3. PICK y \in Int : /\ y = (end - start) % Day
                         /\ y = IF end >= start THEN end - start ELSE end - start + Day
    BY <1>1
  <1>4. Contains(start, end, minute) <=> (start = end \/ x < y)
    BY <1>1, <1>2, <1>3 DEF Contains
  <1>. QED
    BY <1>2, <1>3, <1>4

(* The values of the backoff before jitter is added. *)
Bases == RetryInitialBackoff..(256 * RetryInitialBackoff)

(* The cap of retry_delay lies above all values of the backoff.              *)
LEMMA Sizes ==
  /\ RetryInitialBackoff \in Nat \ {0} /\ RetryMaxBackoff \in Nat
  /\ 256 * RetryInitialBackoff <= RetryMaxBackoff
  BY DEF RetryInitialBackoff, RetryMaxBackoff

(* What the cap of retry_delay leaves of a sum.                              *)
LEMMA Capped ==
  ASSUME NEW low \in Nat, NEW cap \in Nat, NEW b \in low..cap, NEW j \in Nat
  PROVE  /\ Least(b + j, cap) \in low..cap
         /\ Least(b + j, cap) >= b /\ Least(b + j, cap) <= b + j
  BY DEF Least

(* retry_delay: the backoff after f failures, its exponent cut at 8.         *)
LEMMA BackoffIs ==
  ASSUME NEW f \in Nat, NEW e \in 0..8, Least(Minus(f, 1), 8) = e
  PROVE  Backoff(f) = RetryInitialBackoff * Multiplier[e + 1] /\ Multiplier[e + 1] \in 1..256
  <1>. DEFINE m == Multiplier[e + 1]
  <1>1. m \in 1..256
    BY DEF Multiplier
  <1>2. Backoff(f) = Least(RetryInitialBackoff * m, RetryMaxBackoff)
    BY DEF Backoff
  <1>. HIDE DEF m
  <1>3. Least(RetryInitialBackoff * m, RetryMaxBackoff) = RetryInitialBackoff * m
    BY <1>1 DEF Least, RetryInitialBackoff, RetryMaxBackoff
  <1>. QED
    BY <1>1, <1>2, <1>3 DEF m

(* retry_delay: the range of the backoff.                                    *)
LEMMA BackoffBounds ==
  ASSUME NEW f \in Nat
  PROVE  Backoff(f) \in Bases
  <1>1. PICK e \in 0..8 : Least(Minus(f, 1), 8) = e
    BY DEF Least, Minus
  <1>2. PICK m \in 1..256 : Backoff(f) = RetryInitialBackoff * m
    <2>1. Backoff(f) = RetryInitialBackoff * Multiplier[e + 1] /\ Multiplier[e + 1] \in 1..256
      BY <1>1, BackoffIs, SMTT(40)
    <2>. QED
      BY <2>1
  <1>3. RetryInitialBackoff * m \in Bases
    BY SMTT(40) DEF Bases, RetryInitialBackoff
  <1>. QED
    BY <1>2, <1>3

(* retry_delay: the backoff doubles up to the ninth failure.                 *)
LEMMA BackoffDoubles ==
  ASSUME NEW f \in 1..8
  PROVE  Backoff(f + 1) = 2 * Backoff(f)
  <1>1. Least(Minus(f, 1), 8) = f - 1 /\ Least(Minus(f + 1, 1), 8) = f
    BY DEF Least, Minus
  <1>2. f \in Nat /\ f + 1 \in Nat /\ f - 1 \in 0..8 /\ f \in 0..8 /\ (f - 1) + 1 = f
    OBVIOUS
  <1>. DEFINE m == Multiplier[f]
              n == Multiplier[f + 1]
  <1>3. Backoff(f) = RetryInitialBackoff * m /\ m \in 1..256
    BY <1>1, <1>2, BackoffIs
  <1>4. Backoff(f + 1) = RetryInitialBackoff * n
    BY <1>1, <1>2, BackoffIs, SMTT(40)
  <1>5. n = 2 * m
    BY DEF Multiplier
  <1>. HIDE DEF m, n
  <1>. QED
    BY <1>3, <1>4, <1>5 DEF RetryInitialBackoff

(* retry_delay: jitter adds a fifth at most, which is less than doubling.    *)
LEMMA Fifth ==
  ASSUME NEW b \in Bases
  PROVE  b \div 5 \in Nat \ {0} /\ b + b \div 5 < 2 * b
  BY SMTT(40) DEF Bases, RetryInitialBackoff

(* retry_delay: the backoff with its jitter, capped.                         *)
LEMMA ExponentialBounds ==
  ASSUME NEW failures \in Nat, NEW hash \in Nat
  PROVE  /\ Exponential(hash, failures) \in RetryInitialBackoff..RetryMaxBackoff
         /\ Exponential(hash, failures) >= Backoff(failures)
         /\ Exponential(hash, failures) <= Backoff(failures) + Backoff(failures) \div 5
  <1>1. PICK b \in Bases : b = Backoff(failures)
    BY BackoffBounds
  <1>2. PICK k \in Nat \ {0} : k = b \div 5
    BY Fifth
  <1>3. PICK j \in 0..k : j = Jitter(hash, k)
    BY JitterBounded
  <1>4. Largest(k, 1) = k
    BY DEF Largest
  <1>5. Exponential(hash, failures) = Least(b + j, RetryMaxBackoff)
    BY <1>1, <1>2, <1>3, <1>4 DEF Exponential
  <1>6. b \in RetryInitialBackoff..RetryMaxBackoff
    BY Sizes DEF Bases
  <1>7. PICK x \in RetryInitialBackoff..RetryMaxBackoff :
          x = Exponential(hash, failures) /\ x >= b /\ x <= b + j
    BY <1>5, <1>6, Sizes, Capped
  <1>8. x <= b + k
    BY <1>6, <1>7, Sizes
  <1>. QED
    BY <1>1, <1>2, <1>7, <1>8

(* scheduler.rs, retry_delay: between five minutes and a day, whatever the   *)
(* setting of the circuit; up to the ninth failure in a row every delay is   *)
(* longer than the last, although either gets its own jitter; and an open    *)
(* circuit never shortens it.                                                *)
THEOREM RetryGrows ==
  ASSUME NEW failures \in Nat, NEW hash \in Nat, NEW later \in Nat, NEW circuit \in Nat,
         NEW open \in BOOLEAN
  PROVE  /\ RetryDelay(hash, failures, open, circuit) \in RetryInitialBackoff..RetryMaxBackoff
         /\ failures \in 1..8 =>
              RetryDelay(hash, failures, FALSE, circuit) < RetryDelay(later, failures + 1, FALSE, circuit)
         /\ RetryDelay(hash, failures, FALSE, circuit) <= RetryDelay(hash, failures, TRUE, circuit)
  <1>1. \A x \in RetryInitialBackoff..RetryMaxBackoff :
          Largest(x, Least(circuit, RetryMaxBackoff)) \in x..RetryMaxBackoff
    BY Sizes DEF Largest, Least
  <1>2. PICK e \in RetryInitialBackoff..RetryMaxBackoff : e = Exponential(hash, failures)
    BY ExponentialBounds
  <1>3. PICK c \in e..RetryMaxBackoff : c = Largest(e, Least(circuit, RetryMaxBackoff))
    BY <1>1
  <1>4. /\ RetryDelay(hash, failures, FALSE, circuit) = e
        /\ RetryDelay(hash, failures, TRUE, circuit) = c
        /\ RetryDelay(hash, failures, open, circuit) \in {e, c}
    BY <1>2, <1>3 DEF RetryDelay
  <1>5. c \in RetryInitialBackoff..RetryMaxBackoff /\ e <= c
    BY Sizes
  <1>6. ASSUME failures \in 1..8
        PROVE  e < RetryDelay(later, failures + 1, FALSE, circuit)
    <2>1. failures + 1 \in Nat
      OBVIOUS
    <2>2. PICK b \in Bases : b = Backoff(failures)
      BY BackoffBounds
    <2>3. PICK k \in Nat : k = b \div 5 /\ b + k < 2 * b
      BY Fifth
    <2>4. e <= b + k
      BY <1>2, <2>2, <2>3, ExponentialBounds
    <2>5. PICK y \in RetryInitialBackoff..RetryMaxBackoff :
            y = Exponential(later, failures + 1) /\ y >= Backoff(failures + 1)
      BY <2>1, ExponentialBounds
    <2>6. y >= 2 * b
      BY <1>6, <2>2, <2>5, BackoffDoubles
    <2>7. e < y
      BY <2>3, <2>4, <2>6, Sizes DEF Bases
    <2>. QED
      BY <2>5, <2>7 DEF RetryDelay
  <1>. QED
    BY <1>4, <1>5, <1>6

(* scheduler.rs, refresh_scheduled_servers: the scheduler looks again within *)
(* a minute, and at once only if the index is at least as old as announced,  *)
(* no retry is waited for and, once it is stale, a maintenance window is     *)
(* open.  Then it does not pause even if the refresh could not be started.   *)
THEOREM SleepIsZeroOnlyInWindow ==
  ASSUME NEW s \in Settings, NEW v \in View
  PROVE  /\ Delay(s, v) \in 0..60
         /\ Delay(s, v) = 0 =>
              /\ v.retry < 0 /\ ~v.failed /\ v.age >= Scheduled(s, v)
              /\ State(s, v) = "stale" => WindowOpen(s, v.minute)
  <1>1. PICK interval, jitter, circuit, age, hash \in Nat :
          /\ interval = s.interval /\ jitter = s.jitter /\ circuit = s.circuit
          /\ age = v.age /\ hash = v.hash
    BY DEF Settings, View
  <1>2. PICK retry \in Int : retry = v.retry
    BY DEF View
  <1>3. PICK j \in Nat : j = Jitter(v.hash, s.jitter)
    <2>1. Jitter(hash, jitter) \in 0..jitter
      BY JitterBounded
    <2>. QED
      BY <1>1, <2>1
  <1>4. PICK at \in Nat : at = Scheduled(s, v)
    BY <1>1, <1>3 DEF Scheduled, Largest
  <1>5. PICK r \in Nat : r = RetryDelay(v.hash, 1, FALSE, s.circuit) /\ r > 0
    <2>1. 1 \in Nat /\ FALSE \in BOOLEAN
      OBVIOUS
    <2>2. RetryDelay(hash, 1, FALSE, circuit) \in RetryInitialBackoff..RetryMaxBackoff
      BY <2>1, RetryGrows
    <2>3. PICK x \in RetryInitialBackoff..RetryMaxBackoff : x = RetryDelay(hash, 1, FALSE, circuit)
      BY <2>2
    <2>4. x \in Nat /\ x > 0
      BY Sizes
    <2>. QED
      BY <1>1, <2>3, <2>4
  <1>6. PICK d \in Nat :
          /\ d = ReadyDelay(s, v)
          /\ d = 0 => age >= at /\ (State(s, v) = "stale" => WindowOpen(s, v.minute))
    BY <1>1, <1>4 DEF ReadyDelay, Minus
  <1>7. (State(s, v) = "failed") <=> v.failed
    BY DEF State
  <1>8. /\ Least(60, d) \in 0..60 /\ (Least(60, d) = 0 => d = 0)
        /\ Least(60, r) \in 1..60 /\ Least(60, Largest(retry, 1)) \in 1..60
    <2>1. \A x \in Nat : Least(60, x) \in 0..60 /\ (Least(60, x) = 0 => x = 0)
      BY DEF Least
    <2>2. \A x \in Nat : x > 0 => Least(60, x) \in 1..60
      BY DEF Least
    <2>3. Largest(retry, 1) \in Nat /\ Largest(retry, 1) > 0
      BY DEF Largest
    <2>. QED
      BY <1>5, <2>1, <2>2, <2>3
  <1>9. CASE v.retry >= 0
    <2>1. Delay(s, v) = Least(60, Largest(retry, 1))
      BY <1>2, <1>9 DEF Delay
    <2>. QED
      BY <1>8, <2>1
  <1>10. CASE ~(v.retry >= 0) /\ v.failed
    <2>1. Delay(s, v) = Least(60, r)
      BY <1>5, <1>7, <1>10 DEF Delay
    <2>. QED
      BY <1>8, <2>1
  <1>11. CASE ~(v.retry >= 0) /\ ~v.failed
    <2>1. Delay(s, v) = Least(60, d)
      BY <1>6, <1>7, <1>11 DEF Delay
    <2>. QED
      BY <1>1, <1>2, <1>4, <1>6, <1>8, <1>11, <2>1
  <1>. QED
    BY <1>9, <1>10, <1>11

(* status.rs, status_from_active_row and next_refresh_at: once the announced *)
(* time is over an index is due, if it may be refreshed at all; but it is    *)
(* due already when it is older than the interval.  The jitter is announced  *)
(* and slept, and not tested: a pass that looks earlier, as every minute one *)
(* does, refreshes up to the whole jitter before the announced time.         *)
THEOREM DueByAnnounced ==
  ASSUME NEW s \in Settings, NEW v \in View, Allowed(s, v), s.interval > 0
  PROVE  /\ NextRefreshAt(s, v) < 0 => Due(s, v)
         /\ ~v.failed => (Due(s, v) <=> v.age > s.interval)
         /\ v.age = s.interval + 1 /\ Jitter(v.hash, s.jitter) > 0 =>
              Due(s, v) /\ NextRefreshAt(s, v) = Jitter(v.hash, s.jitter) - 1
  <1>1. PICK interval, jitter, age, hash \in Nat :
          /\ interval = s.interval /\ jitter = s.jitter /\ age = v.age /\ hash = v.hash
    BY DEF Settings, View
  <1>2. PICK retry \in Int : retry = v.retry
    BY DEF View
  <1>3. PICK j \in Nat : j = Jitter(v.hash, s.jitter)
    <2>1. Jitter(hash, jitter) \in 0..jitter
      BY JitterBounded
    <2>. QED
      BY <1>1, <2>1
  <1>4. Due(s, v) <=> v.failed \/ age > interval
    BY <1>1 DEF Due, State
  <1>5. NextRefreshAt(s, v) = Largest(interval + j - age, retry) /\ retry <= 0
    BY <1>1, <1>2, <1>3 DEF NextRefreshAt, Scheduled, Largest, Allowed
  <1>6. /\ Largest(interval + j - age, retry) < 0 => age > interval
        /\ age = interval + 1 /\ j > 0 => Largest(interval + j - age, retry) = j - 1
    BY <1>5 DEF Largest
  <1>. QED
    BY <1>1, <1>3, <1>4, <1>5, <1>6

-----------------------------------------------------------------------------
(* Pausing *)

Reconciling == {"reconcile", "decide", "apply"}

Steps ==
  [pc : Places \cup Reconciling, count : 0..Cardinality(Calls),
   seen : [maintenance : BOOLEAN, health : BOOLEAN],
   want : {"none", "pause", "resume"}, then : Places]

Builds ==
  [fg : 0..Cardinality(Calls), operator : BOOLEAN, quiet : Calls \cup {NoCall},
   expired : BOOLEAN, control : BOOLEAN, throttled : BOOLEAN, reserved : BOOLEAN]

PauseTypes ==
  /\ users \in 0..Cardinality(Calls) /\ alive \in BOOLEAN /\ build \in Builds
  /\ overlay \in [maintenance : BOOLEAN, health : BOOLEAN]
  /\ paused \in BOOLEAN /\ buffered \in BOOLEAN
  /\ task \in [Tasks -> Steps]

(* The calls that foreground_guard has counted and foreground_end has not   *)
(* counted back.                                                            *)
Holders == {c \in Calls : Holding(c)}

CountIsExact == users = Cardinality(Holders)

(* Where a reconciliation of a call goes on, and that the count a call read *)
(* includes itself.                                                         *)
CallPlaces ==
  \A c \in Calls :
    /\ task[c].pc \in Reconciling => task[c].then \in {"serving", "asleep", "idle"}
    /\ task[c].pc = "counted" => task[c].count > 0

(* CountsAgree says nothing while a call is between its two locks.  What    *)
(* holds then: whoever makes the copy wrong is the one still to correct it. *)
CopyInv ==
  alive /\ ~build.reserved =>
    /\ build.fg > 0 /\ users = 0 => \E c \in Calls : task[c].pc = "ended"
    /\ build.fg = 0 /\ users > 0 => \E c \in Calls : task[c].pc = "counted"

PauseInv == PauseTypes /\ CountIsExact /\ CallPlaces /\ CopyInv

-----------------------------------------------------------------------------
(* The same with named parts. *)
LEMMA TypesAreTypeOK == PauseTypes <=> PauseTypeOK
  BY DEF PauseTypes, PauseTypeOK, Steps, Builds, Reconciling

(* There are finitely many calls. *)
LEMMA CallsAreCounted == Cardinality(Calls) \in Nat /\ 0 \in 0..Cardinality(Calls)
  <1>1. Cardinality(Calls) \in Nat
    BY PauseAssumption, FS_CardinalityType
  <1> QED BY <1>1

(* A task at a place, with fresh locals. *)
LEMMA AtType ==
  ASSUME NEW p \in Places
  PROVE  /\ At(p) \in Steps /\ At(p).pc = p
         /\ Reconcile(p) \in Steps /\ Reconcile(p).pc = "reconcile"
         /\ Reconcile(p).then = p
  <1>1. At(p) \in Steps
    BY CallsAreCounted DEF At, Steps, NoOverlay
  <1> QED BY <1>1 DEF At, Reconcile, Reconciling, Steps

(* A task that has read the count. *)
LEMMA CountedType ==
  ASSUME NEW p \in Places, NEW n \in 0..Cardinality(Calls)
  PROVE  /\ [At(p) EXCEPT !.count = n] \in Steps
         /\ [At(p) EXCEPT !.count = n].pc = p /\ [At(p) EXCEPT !.count = n].count = n
  <1>1. NoOverlay \in [maintenance : BOOLEAN, health : BOOLEAN]
    BY DEF NoOverlay
  <1>2. p \in Places \cup Reconciling
    OBVIOUS
  <1> QED BY <1>1, <1>2 DEF At, Steps

(* A task goes on with other locals. *)
LEMMA TaskType ==
  ASSUME task \in [Tasks -> Steps], NEW t \in Tasks, NEW x \in Steps, Goto(t, x)
  PROVE  /\ task' \in [Tasks -> Steps] /\ task'[t] = x
         /\ \A u \in Tasks \ {t} : task'[u] = task[u]
  BY DEF Goto

(* The build of a reservation. *)
LEMMA NewBuildType ==
  ASSUME NEW n \in 0..Cardinality(Calls)
  PROVE  NewBuild(n) \in Builds /\ NewBuild(n).reserved
  BY DEF NewBuild, Builds

(* A call that is counted makes the count positive, one that is not leaves  *)
(* room for itself.                                                         *)
LEMMA CountRoom ==
  ASSUME CountIsExact, NEW c \in Calls
  PROVE  /\ Holding(c) => users > 0
         /\ ~Holding(c) => users < Cardinality(Calls)
  <1>1. IsFiniteSet(Calls) /\ Holders \in SUBSET Calls
    BY PauseAssumption DEF Holders
  <1>2. IsFiniteSet(Holders) /\ Cardinality(Holders) <= Cardinality(Calls)
    BY <1>1, FS_Subset
  <1>3. Cardinality(Holders) \in Nat /\ Cardinality(Calls) \in Nat
    BY <1>1, <1>2, FS_CardinalityType
  <1>4. ASSUME Holding(c) PROVE users > 0
    <2>1. Holders # {}
      BY <1>4 DEF Holders
    <2> QED BY <1>2, <1>3, <2>1, FS_EmptySet DEF CountIsExact
  <1>5. ASSUME ~Holding(c) PROVE users < Cardinality(Calls)
    <2>1. Holders # Calls
      BY <1>5 DEF Holders
    <2>2. Cardinality(Holders) # Cardinality(Calls)
      BY <1>1, <2>1, FS_Subset
    <2> QED BY <1>2, <1>3, <2>2 DEF CountIsExact
  <1> QED BY <1>4, <1>5

(* A call joins or leaves the holders, or nobody does. *)
LEMMA CountChange ==
  ASSUME CountIsExact, NEW c \in Calls,
         \A d \in Calls \ {c} : Holding(d)' <=> Holding(d)
  PROVE  /\ Holding(c)' /\ ~Holding(c) /\ users' = users + 1 => CountIsExact'
         /\ ~Holding(c)' /\ Holding(c) /\ users' = users - 1 => CountIsExact'
         /\ (Holding(c)' <=> Holding(c)) /\ users' = users => CountIsExact'
  <1>1. IsFiniteSet(Holders)
    BY PauseAssumption, FS_Subset DEF Holders
  <1>2. Holding(c)' /\ ~Holding(c) => Holders' = Holders \cup {c} /\ c \notin Holders
    BY DEF Holders
  <1>3. ~Holding(c)' /\ Holding(c) => Holders' = Holders \ {c} /\ c \in Holders
    BY DEF Holders
  <1>4. (Holding(c)' <=> Holding(c)) => Holders' = Holders
    BY DEF Holders
  <1>5. /\ c \notin Holders => Cardinality(Holders \cup {c}) = Cardinality(Holders) + 1
        /\ c \in Holders => Cardinality(Holders \ {c}) = Cardinality(Holders) - 1
    BY <1>1, FS_AddElement, FS_RemoveElement
  <1> QED BY <1>2, <1>3, <1>4, <1>5 DEF CountIsExact

-----------------------------------------------------------------------------
(* A step that no call takes, and that leaves the count and its copy alone. *)
LEMMA QuietStep ==
  ASSUME PauseInv, PauseTypes', users' = users,
         \A c \in Calls : /\ task'[c].pc = task[c].pc /\ task'[c].then = task[c].then
                          /\ task'[c].count = task[c].count,
         (alive /\ build'.fg = build.fg /\ build'.reserved = build.reserved)
           \/ ~alive' \/ build'.reserved
  PROVE  PauseInv'
  <1>1. Holders' = Holders
    BY DEF Holders, Holding
  <1>2. CountIsExact'
    BY <1>1 DEF PauseInv, CountIsExact
  <1>3. CallPlaces'
    BY DEF PauseInv, CallPlaces
  <1>4. CopyInv'
    BY DEF PauseInv, CopyInv
  <1> QED BY <1>2, <1>3, <1>4 DEF PauseInv

(* foreground_guard counts the call. *)
LEMMA InvBegin ==
  ASSUME PauseInv, NEW c \in Calls, Begin(c)
  PROVE  PauseInv'
  <1>0. c \in Tasks /\ task \in [Tasks -> Steps] /\ users \in 0..Cardinality(Calls)
    BY DEF Tasks, PauseInv, PauseTypes
  <1>1. ~Holding(c)
    BY DEF Begin, Holding
  <1>2. users + 1 \in 0..Cardinality(Calls) /\ users + 1 > 0
    BY <1>0, <1>1, CountRoom, CallsAreCounted DEF PauseInv
  <1>3. PICK x \in Steps : /\ x = [At("counted") EXCEPT !.count = users + 1]
                           /\ x.pc = "counted" /\ x.count = users + 1
    <2>1. "counted" \in Places
      BY DEF Places
    <2>2. PICK n \in 0..Cardinality(Calls) : n = users + 1
      BY <1>2
    <2>3. /\ [At("counted") EXCEPT !.count = n] \in Steps
          /\ [At("counted") EXCEPT !.count = n].pc = "counted"
          /\ [At("counted") EXCEPT !.count = n].count = n
      BY <2>1, CountedType
    <2> QED BY <2>2, <2>3
  <1>4. Goto(c, x)
    BY <1>3 DEF Begin
  <1>5. /\ task' \in [Tasks -> Steps] /\ task'[c] = x
        /\ \A u \in Tasks \ {c} : task'[u] = task[u]
    BY <1>0, <1>4, TaskType
  <1>6. \A d \in Calls \ {c} : task'[d] = task[d]
    BY <1>5 DEF Tasks
  <1>7. PauseTypes'
    BY <1>2, <1>5 DEF Begin, PauseInv, PauseTypes
  <1>8. CountIsExact'
    <2>1. Holding(c)'
      BY <1>3, <1>5 DEF Holding
    <2>2. \A d \in Calls \ {c} : Holding(d)' <=> Holding(d)
      BY <1>6 DEF Holding
    <2> QED BY <1>1, <2>1, <2>2, CountChange DEF PauseInv, Begin
  <1>9. CallPlaces'
    <2>1. task'[c].pc = "counted" /\ task'[c].count > 0
      BY <1>2, <1>3, <1>5
    <2> QED BY <1>6, <2>1 DEF PauseInv, CallPlaces, Reconciling
  <1>10. CopyInv'
    <2>1. users' > 0 /\ users' # 0 /\ task'[c].pc = "counted"
      BY <1>0, <1>2, <1>3, <1>5 DEF Begin
    <2> QED BY <2>1 DEF CopyInv
  <1> QED BY <1>7, <1>8, <1>9, <1>10 DEF PauseInv

(* foreground_end counts it back. *)
LEMMA InvEndCall ==
  ASSUME PauseInv, NEW c \in Calls, EndCall(c)
  PROVE  PauseInv'
  <1>0. c \in Tasks /\ task \in [Tasks -> Steps] /\ users \in 0..Cardinality(Calls)
    BY DEF Tasks, PauseInv, PauseTypes
  <1>1. Holding(c)
    BY DEF EndCall, Holding
  <1>2. users - 1 \in 0..Cardinality(Calls) /\ users > 0
    BY <1>0, <1>1, CountRoom, CallsAreCounted DEF PauseInv
  <1>3. PICK x \in Steps : x = [At("ended") EXCEPT !.count = users - 1] /\ x.pc = "ended"
    <2>1. "ended" \in Places
      BY DEF Places
    <2> QED BY <1>2, <2>1, CountedType, ZenonT(60)
  <1>4. Goto(c, x)
    BY <1>3 DEF EndCall
  <1>5. /\ task' \in [Tasks -> Steps] /\ task'[c] = x
        /\ \A u \in Tasks \ {c} : task'[u] = task[u]
    BY <1>0, <1>4, TaskType
  <1>6. \A d \in Calls \ {c} : task'[d] = task[d]
    BY <1>5 DEF Tasks
  <1>7. PauseTypes'
    BY <1>2, <1>5 DEF EndCall, PauseInv, PauseTypes
  <1>8. CountIsExact'
    <2>1. ~Holding(c)'
      BY <1>3, <1>5 DEF Holding
    <2>2. \A d \in Calls \ {c} : Holding(d)' <=> Holding(d)
      BY <1>6 DEF Holding
    <2> QED BY <1>1, <2>1, <2>2, CountChange DEF PauseInv, EndCall
  <1>9. CallPlaces'
    BY <1>3, <1>5, <1>6 DEF PauseInv, CallPlaces, Reconciling
  <1>10. CopyInv'
    <2>1. \A d \in Calls : task[d].pc = "counted" => task'[d].pc = "counted"
      BY <1>6 DEF EndCall
    <2>2. task'[c].pc = "ended"
      BY <1>3, <1>5
    <2> QED BY <1>2, <2>1, <2>2 DEF PauseInv, CopyInv, EndCall
  <1> QED BY <1>7, <1>8, <1>9, <1>10 DEF PauseInv

(* foreground_guard under the runtime lock: the count it read is not zero,  *)
(* and neither is the count now, since the call is one of its users.        *)
LEMMA InvRegister ==
  ASSUME PauseInv, NEW c \in Calls, Register(c)
  PROVE  PauseInv'
  <1>0. c \in Tasks /\ task \in [Tasks -> Steps] /\ task[c].pc = "counted"
    BY DEF Tasks, PauseInv, PauseTypes, Register
  <1>1. Holding(c) /\ task[c].count \in 0..Cardinality(Calls) /\ task[c].count > 0
    BY <1>0 DEF Holding, Steps, PauseInv, CallPlaces
  <1>2. PICK x \in Steps : x = Reconcile("serving") /\ x.pc = "reconcile" /\ x.then = "serving"
    BY AtType DEF Places
  <1>3. Goto(c, x)
    BY <1>2 DEF Register
  <1>4. /\ task' \in [Tasks -> Steps] /\ task'[c] = x
        /\ \A u \in Tasks \ {c} : task'[u] = task[u]
    BY <1>0, <1>3, TaskType
  <1>5. \A d \in Calls \ {c} : task'[d] = task[d]
    BY <1>4 DEF Tasks
  <1>6. build' \in Builds /\ (alive => build'.fg = task[c].count)
    BY <1>1 DEF Register, Builds, PauseInv, PauseTypes
  <1>7. PauseTypes'
    BY <1>4, <1>6 DEF Register, PauseInv, PauseTypes
  <1>8. CountIsExact'
    <2>1. Holding(c)'
      BY <1>2, <1>4 DEF Holding
    <2>2. \A d \in Calls \ {c} : Holding(d)' <=> Holding(d)
      BY <1>5 DEF Holding
    <2> QED BY <1>1, <2>1, <2>2, CountChange DEF PauseInv, Register
  <1>9. CallPlaces'
    BY <1>2, <1>4, <1>5 DEF PauseInv, CallPlaces, Reconciling
  <1>10. CopyInv'
    <2>1. users > 0 /\ users' = users /\ alive' = alive
      BY <1>1, CountRoom DEF PauseInv, Register
    <2>2. alive => build'.fg > 0
      BY <1>1, <1>6
    <2>3. users \in Nat /\ (alive => build'.fg \in Nat)
      BY <1>1, <1>6, CallsAreCounted DEF PauseInv, PauseTypes
    <2> QED BY <2>1, <2>2, <2>3 DEF CopyInv
  <1> QED BY <1>7, <1>8, <1>9, <1>10 DEF PauseInv

(* update_runtime_after_foreground_end: the copy is exact. *)
LEMMA InvUnregister ==
  ASSUME PauseInv, NEW c \in Calls, Unregister(c)
  PROVE  PauseInv'
  <1>0. c \in Tasks /\ task \in [Tasks -> Steps] /\ task[c].pc = "ended"
    BY DEF Tasks, PauseInv, PauseTypes, Unregister
  <1>2. PICK x \in Steps : x = Reconcile("asleep") /\ x.pc = "reconcile" /\ x.then = "asleep"
    BY AtType DEF Places
  <1>3. Goto(c, x)
    BY <1>2 DEF Unregister
  <1>4. /\ task' \in [Tasks -> Steps] /\ task'[c] = x
        /\ \A u \in Tasks \ {c} : task'[u] = task[u]
    BY <1>0, <1>3, TaskType
  <1>5. \A d \in Calls \ {c} : task'[d] = task[d]
    BY <1>4 DEF Tasks
  <1>6. build' \in Builds /\ (alive => build'.fg = users)
    BY DEF Unregister, Builds, PauseInv, PauseTypes
  <1>7. PauseTypes'
    BY <1>4, <1>6 DEF Unregister, PauseInv, PauseTypes
  <1>8. CountIsExact'
    <2>1. ~Holding(c)' /\ ~Holding(c)
      BY <1>0, <1>2, <1>4 DEF Holding
    <2>2. \A d \in Calls \ {c} : Holding(d)' <=> Holding(d)
      BY <1>5 DEF Holding
    <2> QED BY <2>1, <2>2, CountChange DEF PauseInv, Unregister
  <1>9. CallPlaces'
    BY <1>2, <1>4, <1>5 DEF PauseInv, CallPlaces, Reconciling
  <1>10. CopyInv'
    <2>1. users' = users /\ alive' = alive /\ users \in Nat
      BY CallsAreCounted DEF Unregister, PauseInv, PauseTypes
    <2> QED BY <1>6, <2>1 DEF CopyInv
  <1> QED BY <1>7, <1>8, <1>9, <1>10 DEF PauseInv

(* A call moves between places that are neither counted nor about to be. *)
LEMMA InvCallMove ==
  ASSUME PauseInv, NEW c \in Calls, NEW x \in Steps, Goto(c, x),
         x.pc \notin {"counted", "ended"}, task[c].pc \notin {"counted", "ended"},
         x.pc \in Reconciling => x.then \in {"serving", "asleep", "idle"},
         (x.pc = "serving" \/ (x.pc \in Reconciling /\ x.then = "serving")) <=> Holding(c),
         users' = users, alive' = alive, build' \in Builds,
         build'.fg = build.fg, build'.reserved = build.reserved,
         paused' \in BOOLEAN, UNCHANGED <<overlay, buffered>>
  PROVE  PauseInv'
  <1>0. c \in Tasks /\ task \in [Tasks -> Steps]
    BY DEF Tasks, PauseInv, PauseTypes
  <1>1. /\ task' \in [Tasks -> Steps] /\ task'[c] = x
        /\ \A u \in Tasks \ {c} : task'[u] = task[u]
    BY <1>0, TaskType
  <1>2. \A d \in Calls \ {c} : task'[d] = task[d]
    BY <1>1 DEF Tasks
  <1>3. PauseTypes'
    BY <1>1 DEF PauseInv, PauseTypes
  <1>4. CountIsExact'
    <2>1. Holding(c)' <=> Holding(c)
      BY <1>1 DEF Holding, Reconciling
    <2>2. \A d \in Calls \ {c} : Holding(d)' <=> Holding(d)
      BY <1>2 DEF Holding
    <2> QED BY <2>1, <2>2, CountChange DEF PauseInv
  <1>5. CallPlaces'
    BY <1>1, <1>2 DEF PauseInv, CallPlaces
  <1>6. CopyInv'
    <2>1. \A d \in Calls : /\ task[d].pc = "counted" => task'[d].pc = "counted"
                           /\ task[d].pc = "ended" => task'[d].pc = "ended"
      BY <1>2
    <2> QED BY <2>1 DEF PauseInv, CopyInv
  <1> QED BY <1>3, <1>4, <1>5, <1>6 DEF PauseInv

(* The task that slept through the quiet period. *)
LEMMA InvWake ==
  ASSUME PauseInv, NEW c \in Calls, Wake(c)
  PROVE  PauseInv'
  <1>0. /\ task[c].pc = "asleep" /\ ~Holding(c) /\ build \in Builds
        /\ users' = users /\ alive' = alive /\ paused' \in BOOLEAN
        /\ UNCHANGED <<overlay, buffered>>
    BY DEF Wake, Holding, PauseInv, PauseTypes
  <1>1. /\ build' \in Builds /\ build'.fg = build.fg /\ build'.reserved = build.reserved
    BY <1>0 DEF Wake, Builds
  <1>2. CASE Goto(c, Reconcile("idle"))
    <2>1. PICK x \in Steps : x = Reconcile("idle") /\ x.pc = "reconcile" /\ x.then = "idle"
      BY AtType DEF Places
    <2> QED BY <1>0, <1>1, <1>2, <2>1, InvCallMove DEF Reconciling
  <1>3. CASE Goto(c, At("idle"))
    <2>1. PICK x \in Steps : x = At("idle") /\ x.pc = "idle"
      BY AtType DEF Places
    <2> QED BY <1>0, <1>1, <1>3, <2>1, InvCallMove DEF Reconciling
  <1> QED BY <1>2, <1>3 DEF Wake

(* reconcile_pause_state moves a task; a call comes out where it was to go on. *)
LEMMA ReconcileMoves ==
  ASSUME PauseInv, NEW t \in Tasks, ReconcileStep(t)
  PROVE  /\ users' = users /\ alive' = alive /\ build' = build /\ paused' \in BOOLEAN
         /\ UNCHANGED <<overlay, buffered>>
         /\ task[t].pc \in Reconciling
         /\ \E x \in Steps : /\ Goto(t, x)
                             /\ \/ x.pc \in Reconciling /\ x.then = task[t].then
                                \/ x.pc = task[t].then
  <1>0. task[t] \in Steps /\ task[t].then \in Places
    BY DEF PauseInv, PauseTypes, Steps
  <1>1. /\ users' = users /\ alive' = alive /\ build' = build
        /\ UNCHANGED <<overlay, buffered>> /\ task[t].pc \in Reconciling
    BY DEF ReconcileStep, ReadOverlay, Decide, Apply, Reconciling
  <1>2. paused' \in BOOLEAN
    BY DEF ReconcileStep, ReadOverlay, Decide, Apply, PauseInv, PauseTypes
  <1>3. CASE ReadOverlay(t)
    <2>1. overlay \in [maintenance : BOOLEAN, health : BOOLEAN]
      BY DEF PauseInv, PauseTypes
    <2>2. PICK x \in Steps : /\ x = [task[t] EXCEPT !.pc = "decide", !.seen = overlay]
                             /\ x.pc = "decide" /\ x.then = task[t].then
      <3>1. "decide" \in Places \cup Reconciling
        BY DEF Reconciling
      <3>2. [task[t] EXCEPT !.pc = "decide", !.seen = overlay] \in Steps
        BY <1>0, <2>1, <3>1 DEF Steps
      <3> QED BY <1>0, <3>2 DEF Steps
    <2> QED BY <1>1, <1>2, <1>3, <2>2 DEF ReadOverlay, Reconciling
  <1>4. ASSUME Goto(t, At(task[t].then))
        PROVE  \E x \in Steps : Goto(t, x) /\ x.pc = task[t].then
    BY <1>0, <1>4, AtType
  <1>5. ASSUME NEW w \in {"pause", "resume"},
               Goto(t, [Reconcile(task[t].then) EXCEPT !.pc = "apply", !.want = w])
        PROVE  \E x \in Steps : Goto(t, x) /\ x.pc \in Reconciling /\ x.then = task[t].then
    <2>1. Reconcile(task[t].then) \in Steps /\ Reconcile(task[t].then).then = task[t].then
      BY <1>0, AtType
    <2>2. PICK x \in Steps :
            /\ x = [Reconcile(task[t].then) EXCEPT !.pc = "apply", !.want = w]
            /\ x.pc = "apply" /\ x.then = task[t].then
      <3>1. "apply" \in Places \cup Reconciling
        BY DEF Reconciling
      <3>2. [Reconcile(task[t].then) EXCEPT !.pc = "apply", !.want = w] \in Steps
        BY <2>1, <3>1 DEF Steps
      <3> QED BY <2>1, <3>2 DEF Steps
    <2> QED BY <1>5, <2>2 DEF Reconciling
  <1>6. CASE Decide(t)
    BY <1>1, <1>2, <1>4, <1>5, <1>6 DEF Decide
  <1>7. CASE Apply(t)
    BY <1>1, <1>2, <1>4, <1>7 DEF Apply
  <1> QED BY <1>3, <1>6, <1>7 DEF ReconcileStep

(* A task that is no call changes nothing of the calls. *)
LEMMA OthersMove ==
  ASSUME PauseInv, NEW t \in Tasks, t \notin Calls, NEW x \in Steps, Goto(t, x)
  PROVE  task' \in [Tasks -> Steps] /\ \A c \in Calls : task'[c] = task[c]
  <1>1. task \in [Tasks -> Steps]
    BY DEF PauseInv, PauseTypes
  <1>2. task' \in [Tasks -> Steps] /\ \A u \in Tasks \ {t} : task'[u] = task[u]
    BY <1>1, TaskType
  <1> QED BY <1>2 DEF Tasks

(* reconcile_pause_state. *)
LEMMA InvReconcile ==
  ASSUME PauseInv, NEW t \in Tasks, ReconcileStep(t)
  PROVE  PauseInv'
  <1>1. /\ users' = users /\ alive' = alive /\ build' = build /\ paused' \in BOOLEAN
        /\ UNCHANGED <<overlay, buffered>> /\ task[t].pc \in Reconciling
    BY ReconcileMoves
  <1>2. PICK x \in Steps : /\ Goto(t, x)
                           /\ \/ x.pc \in Reconciling /\ x.then = task[t].then
                              \/ x.pc = task[t].then
    BY ReconcileMoves
  <1>3. CASE t \in Calls
    <2>1. task[t].then \in {"serving", "asleep", "idle"}
      BY <1>1, <1>3 DEF PauseInv, CallPlaces
    <2>2. Holding(t) <=> task[t].then = "serving"
      BY <1>1 DEF Holding, Reconciling
    <2>3. (x.pc = "serving" \/ (x.pc \in Reconciling /\ x.then = "serving")) <=> Holding(t)
      BY <1>2, <2>1, <2>2 DEF Reconciling
    <2>4. build' \in Builds
      BY <1>1 DEF PauseInv, PauseTypes
    <2>5. /\ x.pc \notin {"counted", "ended"} /\ task[t].pc \notin {"counted", "ended"}
          /\ x.pc \in Reconciling => x.then \in {"serving", "asleep", "idle"}
      BY <1>1, <1>2, <2>1 DEF Reconciling
    <2> QED BY <1>1, <1>2, <1>3, <2>3, <2>4, <2>5, InvCallMove
  <1>4. CASE t \notin Calls
    <2>1. task' \in [Tasks -> Steps] /\ \A c \in Calls : task'[c] = task[c]
      BY <1>2, <1>4, OthersMove
    <2>2. PauseTypes'
      BY <1>1, <2>1 DEF PauseInv, PauseTypes
    <2> QED BY <1>1, <2>1, <2>2, QuietStep DEF PauseInv, PauseTypes
  <1> QED BY <1>3, <1>4

-----------------------------------------------------------------------------
(* A step of an operator or of the build's task. *)
LEMMA InvOther ==
  ASSUME PauseInv, NEW t \in Tasks, t \notin Calls, NEW x \in Steps, Goto(t, x),
         users' = users, alive' \in BOOLEAN, build' \in Builds,
         overlay' \in [maintenance : BOOLEAN, health : BOOLEAN],
         paused' \in BOOLEAN, buffered' \in BOOLEAN,
         (alive' = alive /\ build'.fg = build.fg /\ build'.reserved = build.reserved)
           \/ build'.reserved
  PROVE  PauseInv'
  <1>1. task' \in [Tasks -> Steps] /\ \A c \in Calls : task'[c] = task[c]
    BY OthersMove
  <1>2. PauseTypes'
    BY <1>1 DEF PauseInv, PauseTypes
  <1> QED BY <1>1, <1>2, QuietStep DEF PauseInv, PauseTypes

(* control(Pause), control(Resume). *)
LEMMA InvOperator ==
  ASSUME PauseInv, NEW o \in Operators, PauseBuild(o) \/ ResumeBuild(o)
  PROVE  PauseInv'
  <1>0. o \in Tasks /\ o \notin Calls
    BY PauseAssumption DEF Tasks
  <1>1. PICK x \in Steps : x = Reconcile("idle")
    BY AtType DEF Places
  <1>2. build' \in Builds /\ build'.fg = build.fg /\ build'.reserved = build.reserved
    BY DEF PauseBuild, ResumeBuild, PauseInv, PauseTypes, Builds
  <1>3. Goto(o, x)
    BY <1>1 DEF PauseBuild, ResumeBuild
  <1> QED BY <1>0, <1>1, <1>2, <1>3, InvOther DEF PauseBuild, ResumeBuild, PauseInv, PauseTypes

(* The places the build's task goes to. *)
LEMMA LoopPlaces ==
  ASSUME NEW p \in {"idle", "starting", "attached", "running", "iterate", "health",
                    "probing", "recovery", "stream", "duty", "resting", "resume"}
  PROVE  At(p) \in Steps /\ Reconcile(p) \in Steps
  <1>1. p \in Places
    BY DEF Places
  <1> QED BY <1>1, AtType

(* The build's task goes on. *)
LEMMA InvBuild ==
  ASSUME PauseInv, BuildStep
  PROVE  PauseInv'
  <1>0. /\ Loop \in Tasks /\ Loop \notin Calls /\ build \in Builds /\ users' = users
        /\ overlay \in [maintenance : BOOLEAN, health : BOOLEAN]
        /\ paused \in BOOLEAN /\ buffered \in BOOLEAN /\ alive \in BOOLEAN
        /\ task[Loop] \in Steps
    BY PauseAssumption
    DEF Tasks, PauseInv, PauseTypes, BuildStep, Reserve, Attach, Launch, StartRun,
        WaitForMaintenance, WaitForHealth, Probed, WaitForRecovery, Event, DutyCycle,
        DutyPause, Rested, DutyResume
  <1> HIDE DEF Loop
  <1>1. CASE Reserve
    <2>1. task[Loop].count \in 0..Cardinality(Calls)
      BY <1>0 DEF Steps
    <2>2. build' \in Builds /\ build'.reserved
      BY <1>1, <2>1, NewBuildType DEF Reserve
    <2>3. PICK x \in Steps : x = At("starting")
      BY LoopPlaces
    <2> QED BY <1>0, <1>1, <2>2, <2>3, InvOther DEF Reserve
  <1>2. CASE Attach
    <2>1. build' \in Builds /\ build'.fg = build.fg /\ build'.reserved = build.reserved
      BY <1>0, <1>2 DEF Attach, Builds
    <2>2. PICK x \in Steps : x = At("attached")
      BY LoopPlaces
    <2> QED BY <1>0, <1>2, <2>1, <2>2, InvOther DEF Attach
  <1>3. CASE Launch \/ StartRun
    <2>1. /\ Reconcile("running") \in Steps /\ Reconcile("iterate") \in Steps
          /\ At("iterate") \in Steps
      BY LoopPlaces
    <2>2. PICK x \in Steps : Goto(Loop, x)
      BY <1>3, <2>1 DEF Launch, StartRun
    <2> QED BY <1>0, <1>3, <2>2, InvOther DEF Launch, StartRun
  <1>4. CASE WaitForMaintenance
    <2>1. PICK outside \in BOOLEAN :
            /\ overlay' = [overlay EXCEPT !.maintenance = outside]
            /\ Goto(Loop, Reconcile(IF outside THEN "iterate" ELSE "health"))
      BY <1>4 DEF WaitForMaintenance
    <2>2. overlay' \in [maintenance : BOOLEAN, health : BOOLEAN]
      BY <1>0, <2>1
    <2>3. Reconcile("iterate") \in Steps /\ Reconcile("health") \in Steps
      BY LoopPlaces
    <2>4. PICK x \in Steps : Goto(Loop, x)
      BY <2>1, <2>3
    <2> QED BY <1>0, <1>4, <2>2, <2>4, InvOther DEF WaitForMaintenance
  <1>5. CASE WaitForHealth \/ Probed
    <2>1. overlay' \in [maintenance : BOOLEAN, health : BOOLEAN]
      BY <1>0, <1>5 DEF WaitForHealth, Probed
    <2>2. /\ At("recovery") \in Steps /\ Reconcile("probing") \in Steps
          /\ Reconcile("recovery") \in Steps /\ At("health") \in Steps
      BY LoopPlaces
    <2>3. PICK x \in Steps : Goto(Loop, x)
      BY <1>5, <2>2 DEF WaitForHealth, Probed
    <2> QED BY <1>0, <1>5, <2>1, <2>3, InvOther DEF WaitForHealth, Probed
  <1>6. CASE WaitForRecovery \/ Event
    <2>1. build' \in Builds /\ build'.fg = build.fg /\ build'.reserved = build.reserved
      BY <1>0, <1>6 DEF WaitForRecovery, Event, UpdateController, Builds
    <2>2. /\ At("stream") \in Steps /\ Reconcile("recovery") \in Steps
          /\ Reconcile("iterate") \in Steps /\ At("iterate") \in Steps /\ At("duty") \in Steps
      BY LoopPlaces
    <2>3. PICK x \in Steps : Goto(Loop, x)
      BY <1>6, <2>2 DEF WaitForRecovery, Event, UpdateController
    <2> QED BY <1>0, <1>6, <2>1, <2>3, InvOther DEF WaitForRecovery, Event
  <1>7. CASE DutyCycle \/ DutyPause
    <2>1. At("resting") \in Steps /\ At("yield") \in Steps
      BY AtType DEF Places
    <2>2. /\ [At("yield") EXCEPT !.want = "pause"] \in Steps
          /\ [At("resting") EXCEPT !.want = "resume"] \in Steps
      BY <2>1 DEF Steps
    <2>3. PICK x \in Steps : Goto(Loop, x)
      BY <1>7, <2>1, <2>2 DEF DutyCycle, DutyPause
    <2> QED BY <1>0, <1>7, <2>3, InvOther DEF DutyCycle, DutyPause
  <1>8. CASE Rested \/ DutyResume
    <2>1. At("resume") \in Steps /\ At("iterate") \in Steps
      BY LoopPlaces
    <2>2. PICK x \in Steps : Goto(Loop, x)
      BY <1>8, <2>1 DEF Rested, DutyResume
    <2> QED BY <1>0, <1>8, <2>2, InvOther DEF Rested, DutyResume
  <1> QED
    BY <1>1, <1>2, <1>3, <1>4, <1>5, <1>6, <1>7, <1>8 DEF BuildStep

(* reserve_refresh_build reads the count. *)
LEMMA InvReadUsers ==
  ASSUME PauseInv, ReadUsers
  PROVE  PauseInv'
  <1>1. Loop \in Tasks /\ Loop \notin Calls /\ users \in 0..Cardinality(Calls)
    BY PauseAssumption DEF Tasks, PauseInv, PauseTypes
  <1>2. PICK x \in Steps : x = [At("reserve") EXCEPT !.count = users]
    BY <1>1, CountedType DEF Places
  <1>3. Goto(Loop, x)
    BY <1>2 DEF ReadUsers
  <1> QED BY <1>1, <1>3, InvOther DEF ReadUsers, PauseInv, PauseTypes

(* finalize_owned_build: the copy goes with the build. *)
LEMMA InvEndBuild ==
  ASSUME PauseInv, EndBuild
  PROVE  PauseInv'
  <1>1. task \in [Tasks -> Steps] /\ Loop \notin Calls
    BY PauseAssumption DEF PauseInv, PauseTypes
  <1>2. build' \in Builds
    BY CallsAreCounted, NewBuildType DEF EndBuild
  <1>3. At("idle") \in Steps
    BY LoopPlaces
  <1>4. \A t \in Tasks : [task[t] EXCEPT !.want = "none"] \in Steps
    BY <1>1 DEF Steps
  <1>5. task' \in [Tasks -> Steps]
    BY <1>3, <1>4 DEF EndBuild
  <1>6. \A c \in Calls : task'[c] = [task[c] EXCEPT !.want = "none"] /\ task[c] \in Steps
    BY <1>1 DEF EndBuild, Tasks
  <1>7. \A c \in Calls : /\ task'[c].pc = task[c].pc /\ task'[c].then = task[c].then
                         /\ task'[c].count = task[c].count
    BY <1>6 DEF Steps
  <1>8. PauseTypes'
    BY <1>2, <1>5 DEF EndBuild, NoOverlay, PauseInv, PauseTypes
  <1> QED BY <1>7, <1>8, QuietStep DEF EndBuild

(* Time passes, or an inventory yields. *)
LEMMA InvEnvironment ==
  ASSUME PauseInv, Expire \/ Produce \/ UNCHANGED pauseVars
  PROVE  PauseInv'
  <1>1. /\ build' \in Builds /\ build'.fg = build.fg /\ build'.reserved = build.reserved
    BY DEF Expire, Produce, pauseVars, PauseInv, PauseTypes, Builds
  <1>2. PauseTypes'
    BY <1>1 DEF Expire, Produce, pauseVars, PauseInv, PauseTypes
  <1> QED BY <1>1, <1>2, QuietStep DEF Expire, Produce, pauseVars, PauseInv, PauseTypes

(* Every step keeps the invariant. *)
LEMMA InvNext == PauseInv /\ [PauseNext]_pauseVars => PauseInv'
  BY InvBegin, InvEndCall, InvRegister, InvUnregister, InvWake, InvReconcile, InvOperator,
     InvBuild, InvReadUsers, InvEndBuild, InvEnvironment
  DEF PauseNext, CallStep

(* Nobody is counted at the start. *)
LEMMA InvInit == PauseInit => PauseInv
  <1> SUFFICES ASSUME PauseInit PROVE PauseInv
    OBVIOUS
  <1>1. At("idle") \in Steps /\ At("idle").pc = "idle"
    BY AtType DEF Places
  <1>2. PauseTypes
    BY <1>1, CallsAreCounted, NewBuildType DEF PauseInit, PauseTypes, NoOverlay
  <1>3. \A c \in Calls : task[c].pc = "idle"
    BY <1>1 DEF PauseInit, Tasks
  <1>4. Holders = {}
    BY <1>3 DEF Holders, Holding
  <1>5. CountIsExact
    BY <1>4, FS_EmptySet DEF CountIsExact, PauseInit
  <1>6. CallPlaces
    BY <1>3 DEF CallPlaces, Reconciling
  <1>7. CopyInv
    BY DEF CopyInv, PauseInit
  <1> QED BY <1>2, <1>5, <1>6, <1>7 DEF PauseInv

(* The invariant gives the property. *)
LEMMA InvCounts == PauseInv => CountsAgree
  <1> SUFFICES ASSUME PauseInv PROVE CountsAgree
    OBVIOUS
  <1>1. users = Cardinality({c \in Calls : Holding(c)})
    BY DEF PauseInv, CountIsExact, Holders
  <1>2. users \in Nat /\ build.fg \in Nat
    BY CallsAreCounted DEF PauseInv, PauseTypes, Builds
  <1> QED BY <1>1, <1>2 DEF CountsAgree, PauseInv, CopyInv

(* Foreground calls are counted exactly, however they overlap, and the copy *)
(* in the build that decides the pause is right whenever no call is between *)
(* the two locks: foreground_guard writes a count that may be old but is    *)
(* never zero, update_runtime_after_foreground_end reads it again.          *)
THEOREM ForegroundIsCounted == PauseSpec => []CountsAgree
  BY InvInit, InvNext, InvCounts, PTL DEF PauseSpec

(* The counts stay within the number of calls and every task at a known     *)
(* place: decrement_foreground_users never goes below zero.                 *)
THEOREM PauseTyping == PauseSpec => []PauseTypeOK
  <1>1. PauseInv => PauseTypeOK
    BY TypesAreTypeOK DEF PauseInv
  <1> QED BY InvInit, InvNext, <1>1, PTL DEF PauseSpec
=============================================================================
