---------------------------- MODULE IndexSettings ----------------------------
(***************************************************************************)
(* From the configuration file to the settings of the adaptive controller: *)
(* a setting may be missing, zero or larger than the native limits, and    *)
(* one setting may stand in for another.                                   *)
(*                                                                         *)
(* Code: config.rs (resolve_index_config), index/traversal.rs              *)
(* (controller_config), controller.rs (normalized).  The settings of an    *)
(* item rate, a batch size and a duty cycle are one function over Dim.     *)
(***************************************************************************)
EXTENDS Integers

CONSTANTS
  Files,      \* [index] sections of configuration files
  Default,    \* the DEFAULT_INDEX_ values
  Cap         \* upper end of each limit: u32, native batch limit, percent

Dim == {"rate", "batch", "duty"}
Unset == -1
Setting == Nat \cup {Unset}

IndexConfig ==
  [floor : [Dim -> Setting], canary : [Dim -> Setting], ceiling : [Dim -> Setting],
   batchSize : Setting, window : Setting, delay : Setting, maxDelay : Setting]

Resolved ==
  [floor : [Dim -> Nat], canary : [Dim -> Nat], ceiling : [Dim -> Nat],
   window : Nat, delay : Nat, maxDelay : Nat]

RawConfig ==
  [floor : [Dim -> Nat], canary : [Dim -> Nat], ceiling : [Dim -> Nat],
   unlimited : BOOLEAN, window : Nat, delay : Nat, maxDelay : Nat]

ASSUME SettingsAssumption ==
  /\ Files \subseteq IndexConfig /\ Default \in Resolved
  /\ Cap \in [Dim -> Nat \ {0}]

Larger(a, b) == IF a >= b THEN a ELSE b
Smaller(a, b) == IF a <= b THEN a ELSE b
Clamp(x, lo, hi) == IF x < lo THEN lo ELSE IF x > hi THEN hi ELSE x

Or(setting, value) == IF setting = Unset THEN value ELSE setting

(* A rate is at least one; the others have a largest value, too. *)
Within(d, n) == IF d = "rate" THEN Larger(n, 1) ELSE Clamp(n, 1, Cap[d])

(* batch_size, which is older, stands in for inventory_batch_size; an        *)
(* item_rate_limit of zero is kept.                                          *)
ResolveCeiling(file) ==
  [d \in Dim |->
     LET set == IF d = "batch" THEN Or(file.ceiling[d], file.batchSize) ELSE file.ceiling[d]
     IN  IF d = "rate" THEN Or(set, Default.ceiling[d]) ELSE Within(d, Or(set, Default.ceiling[d]))]

(* resolve_index_config *)
Resolve(file) ==
  [floor |-> [d \in Dim |-> Within(d, Or(file.floor[d], Default.floor[d]))],
   canary |-> [d \in Dim |-> Within(d, Or(file.canary[d], Default.canary[d]))],
   ceiling |-> ResolveCeiling(file),
   window |-> Larger(Or(file.window, Default.window), 1),
   delay |-> Larger(Or(file.delay, Default.delay), 1),
   maxDelay |-> Larger(Or(file.maxDelay, Default.maxDelay), 1)]

(* controller_config: no item rate means no pacing by items. *)
ControllerConfig(settings) ==
  [floor |-> settings.floor, canary |-> settings.canary, ceiling |-> settings.ceiling,
   unlimited |-> settings.ceiling["rate"] = 0, window |-> settings.window,
   delay |-> settings.delay, maxDelay |-> settings.maxDelay]

(* ControllerConfig::normalized. *)
Normalized(raw) ==
  LET unpaced(d) == raw.unlimited /\ d = "rate"
      floor == [d \in Dim |->
                  IF unpaced(d) THEN 0 ELSE Clamp(raw.floor[d], 1, Cap[d])]
      ceiling == [d \in Dim |->
                  IF unpaced(d) THEN 0 ELSE Clamp(raw.ceiling[d], floor[d], Cap[d])]
      canary == [d \in Dim |->
                  IF unpaced(d) THEN 0 ELSE Clamp(raw.canary[d], floor[d], ceiling[d])]
      delay == Larger(raw.delay, 1)
  IN  [floor |-> floor, canary |-> canary, ceiling |-> ceiling,
       unlimited |-> raw.unlimited, window |-> Larger(raw.window, 1),
       delay |-> delay, maxDelay |-> Larger(raw.maxDelay, delay)]
=============================================================================
