--------------------------- MODULE RefreshSchedule ---------------------------
(***************************************************************************)
(* When the background scheduler refreshes an index by itself, how long it *)
(* sleeps between two looks, and what it announces: the arithmetic of      *)
(* maintenance windows, jitter and backoff.  Which steps of other tasks    *)
(* come in between is the subject of IndexBuild.                           *)
(*                                                                         *)
(* Code: index/scheduler.rs (MaintenanceWindow ... maintenance_window_     *)
(* active, retry_delay, ready_refresh_delay ... background_refresh_delay,  *)
(* automatic_refresh_allowed), index/status.rs (status_from_active_row,    *)
(* next_refresh_at, scheduler_diagnostics).                                *)
(*                                                                         *)
(* Time is in whole seconds.  A hash of the server's name is any number.   *)
(***************************************************************************)
EXTENDS Integers

RetryInitialBackoff == 5 * 60
RetryMaxBackoff == 24 * 60 * 60
Day == 1440

Least(a, b) == IF a <= b THEN a ELSE b
Largest(a, b) == IF a >= b THEN a ELSE b
Minus(a, b) == IF a >= b THEN a - b ELSE 0         \* saturating_sub

(* The [index] settings used here; a window is two clocks. *)
Clock == [hour : Nat, minute : Nat]
Settings == [interval : Nat, jitter : Nat, circuit : Nat,
             windows : SUBSET [from : Clock, to : Clock]]

(* What a pass of the scheduler knows of an index that is served: its age,   *)
(* whether a later build failed, the deadline of a retry, in seconds from    *)
(* now (negative if it is over, or if there is none), and the minute of the  *)
(* day.                                                                      *)
View == [age : Nat, failed : BOOLEAN, retry : Int, minute : 0..(Day - 1),
         auto : BOOLEAN, hash : Nat]

-----------------------------------------------------------------------------
(* parse_clock *)
Parses(c) == c.hour < 24 /\ c.minute < 60
MinuteOf(c) == c.hour * 60 + c.minute

(* MaintenanceWindow::contains *)
Contains(start, end, minute) ==
  IF start = end THEN TRUE
  ELSE IF start < end THEN start <= minute /\ minute < end
  ELSE minute >= start \/ minute < end

(* maintenance_window_is_open: one window that cannot be parsed closes all.  *)
WindowOpen(s, minute) ==
  /\ \A w \in s.windows : Parses(w.from) /\ Parses(w.to)
  /\ \E w \in s.windows : Contains(MinuteOf(w.from), MinuteOf(w.to), minute)

(* deterministic_jitter *)
Jitter(hash, maximum) == IF maximum = 0 THEN 0 ELSE hash % (maximum + 1)

(* retry_delay *)
Multiplier == <<1, 2, 4, 8, 16, 32, 64, 128, 256>>
Backoff(failures) ==
  Least(RetryInitialBackoff * Multiplier[Least(Minus(failures, 1), 8) + 1], RetryMaxBackoff)
Exponential(hash, failures) ==
  Least(Backoff(failures) + Jitter(hash, Largest(Backoff(failures) \div 5, 1)), RetryMaxBackoff)
RetryDelay(hash, failures, open, circuit) ==
  IF open THEN Largest(Exponential(hash, failures), Least(circuit, RetryMaxBackoff))
  ELSE Exponential(hash, failures)

-----------------------------------------------------------------------------
(* status_from_active_row *)
State(s, v) == IF v.failed THEN "failed" ELSE IF v.age > s.interval THEN "stale" ELSE "ready"

(* Age at which the next refresh is scheduled. *)
Scheduled(s, v) == Largest(s.interval, 1) + Jitter(v.hash, s.jitter)

(* scheduler_diagnostics: next_refresh_at, in seconds from now; a negative   *)
(* number lies in the past.                                                  *)
NextRefreshAt(s, v) == Largest(Scheduled(s, v) - v.age, v.retry)

(* automatic_refresh_allowed, refresh_active_generation_if_due *)
Allowed(s, v) ==
  v.auto /\ v.retry <= 0 /\ (s.windows = {} \/ WindowOpen(s, v.minute))
Due(s, v) == State(s, v) \in {"stale", "failed"} /\ Allowed(s, v)

(* ready_refresh_delay *)
ReadyDelay(s, v) ==
  IF State(s, v) = "stale" /\ ~WindowOpen(s, v.minute)
  THEN IF s.windows = {} THEN 1 ELSE 60
  ELSE Minus(Scheduled(s, v), v.age)

(* persisted_refresh_retry_delay, refresh_delay_for_status and the minimum   *)
(* taken by refresh_scheduled_servers                                        *)
Delay(s, v) ==
  Least(60, IF v.retry >= 0 THEN Largest(v.retry, 1)
            ELSE IF State(s, v) = "failed" THEN RetryDelay(v.hash, 1, FALSE, s.circuit)
            ELSE ReadyDelay(s, v))
=============================================================================
