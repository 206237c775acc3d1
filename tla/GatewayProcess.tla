--------------------------- MODULE GatewayProcess ---------------------------
(***************************************************************************)
(* The life of gateway processes around the index database they share:     *)
(* start, readiness, the reports to the Service Control Manager, the       *)
(* draining of calls, the end of background work and the exit.             *)
(*                                                                         *)
(* Code: crates/opcda-bridge-gateway/src/run.rs, service.rs, main.rs,      *)
(* config.rs (load_config_file) and index/scheduler.rs.                    *)
(*                                                                         *)
(* Calls are counted; what they and the background scheduler do with the   *)
(* database are the actions of StorageOpen.  A process that runs outside   *)
(* the Service Control Manager reports nothing and stops on a signal.      *)
(***************************************************************************)
EXTENDS StorageOpen

CONSTANTS
  Port,          \* [Processes -> port], from the command line
  Service,       \* the processes the Service Control Manager starts
  Explicit,      \* the processes that name a configuration file
  MaxCalls,      \* [Processes -> bound on the calls in flight]
  MaxStarts      \* bound on the starts of all processes

VARIABLES
  gate,          \* each process: phase, report to the manager, calls, stop
                 \* signal, and whether the shutdown's cancel found its build
  starts         \* starts so far

vars == <<storageVars, gate, starts>>

Down == [phase |-> "down", scm |-> "stopped", calls |-> 0, stop |-> FALSE,
         reached |-> FALSE]

Phases == {"down", "starting", "running", "draining", "quiescing"}
Reports == {"stopped", "start_pending", "running", "stop_pending"}

TypeOK ==
  /\ StorageTypeOK
  /\ \A p \in Processes :
       gate[p] \in [phase : Phases, scm : Reports, calls : 0..MaxCalls[p], stop : BOOLEAN,
                    reached : BOOLEAN]
  /\ starts \in 0..MaxStarts

Init == StorageInit /\ gate = [p \in Processes |-> Down] /\ starts = 0

In(p, phases) == gate[p].phase \in phases

(* report_status, for a service *)
Report(p, scm) == IF p \in Service THEN scm ELSE gate[p].scm

Enter(p, phase, scm) ==
  gate' = [gate EXCEPT ![p].phase = phase, ![p].scm = Report(p, scm)]

(* The process returns from main; a service has reported Stopped. *)
Exit(p) ==
  gate' = [gate EXCEPT ![p] = Down] /\ CloseDatabase(p) /\ UNCHANGED starts

-----------------------------------------------------------------------------
(* run_service, or main outside the manager *)
Start(p) ==
  /\ In(p, {"down"}) /\ starts < MaxStarts /\ starts' = starts + 1
  /\ Enter(p, "starting", "start_pending")
  /\ UNCHANGED storageVars

ConfigFiles == {"absent", "good", "retired_key", "malformed"}

(* load_config_file: only the file looked for by default may be missing. *)
Loads(p, file) == file = "good" \/ (file = "absent" /\ p \notin Explicit)

Listening(p) == In(p, {"running", "draining"})
PortFree(p) == \A q \in Processes : Port[q] = Port[p] => ~Listening(q)

(* run_gateway: the configuration, the log files, the listener, then ready   *)
(* and start_background_indexing; a failure of any of the first ends it.     *)
Boot(p) ==
  /\ In(p, {"starting"})
  /\ \E file \in ConfigFiles :
       \/ /\ Loads(p, file) /\ PortFree(p)
          /\ Enter(p, "running", "running") /\ UNCHANGED <<storageVars, starts>>
       \/ ~(Loads(p, file) /\ PortFree(p)) /\ Exit(p)

Call(p) ==
  /\ In(p, {"running"}) /\ gate[p].calls < MaxCalls[p]
  /\ gate' = [gate EXCEPT ![p].calls = @ + 1]
  /\ UNCHANGED <<storageVars, starts>>

(* Whether a call or the scheduler opens the database is not told apart. *)
CallReturns(p) ==
  /\ gate[p].calls > 0
  /\ gate' = [gate EXCEPT ![p].calls = @ - 1]
  /\ UNCHANGED <<storageVars, starts>>

(* with_database: the first use opens the database, by a call or by the      *)
(* background scheduler, whose last pass may begin before the shutdown.      *)
OpenDatabase(p) ==
  /\ In(p, {"running", "draining", "quiescing"}) /\ At(p, "closed")
  /\ Connect(p) /\ UNCHANGED <<gate, starts>>

Opening(p) == OpenStep(p) /\ UNCHANGED <<gate, starts>>
TimesOut(p) == Busy(p) /\ UNCHANGED <<gate, starts>>

(* Builds are started by calls and by the scheduler until request_shutdown,  *)
(* the settings are changed by calls.                                        *)
Build(p) ==
  /\ In(p, {"running", "draining"}) /\ (\E s \in Servers : StartBuild(p, s))
  /\ UNCHANGED <<gate, starts>>

BuildEnds(p) ==
  /\ \E s \in Servers : Promote(p, s) \/ FailBuild(p, s)
  /\ UNCHANGED <<gate, starts>>

Configure(p) ==
  /\ gate[p].calls > 0 /\ (\E s \in Servers : SetAutoRefresh(p, s) \/ DeleteIndex(p, s))
  /\ UNCHANGED <<gate, starts>>

-----------------------------------------------------------------------------
(* The manager sends Stop only to a service that has reported Running; the   *)
(* sender is taken by the first.                                             *)
Stop(p) ==
  /\ In(p, {"running"}) /\ ~gate[p].stop /\ (p \in Service => gate[p].scm = "running")
  /\ gate' = [gate EXCEPT ![p].stop = TRUE]
  /\ UNCHANGED <<storageVars, starts>>

(* The shutdown future: StopPending is reported, then no call is accepted. *)
Drain(p) ==
  /\ In(p, {"running"}) /\ gate[p].stop
  /\ Enter(p, "draining", "stop_pending") /\ UNCHANGED <<storageVars, starts>>

(* serve has returned: request_shutdown, and the builds whose control is in  *)
(* the runtime map are cancelled; one that has not published its control, or *)
(* whose entry another build took away, is not found (IndexBuild).           *)
RequestShutdown(p) ==
  /\ In(p, {"draining"}) /\ gate[p].calls = 0
  /\ \E found \in BOOLEAN :
       gate' = [gate EXCEPT ![p].phase = "quiescing", ![p].scm = Report(p, "stop_pending"),
                            ![p].reached = found]
  /\ UNCHANGED <<storageVars, starts>>

NoCancel(p) == FALSE /\ BuildEnds(p)              \* mutant of CancelledBuildEnds

(* A build that was cancelled ends. *)
CancelledBuildEnds(p) ==
  In(p, {"quiescing"}) /\ gate[p].reached /\ BuildEnds(p)

LeaveAtOnce(p) ==                                 \* mutant of Finish
  In(p, {"quiescing"}) /\ proc[p].pc \in {"closed", "open"} /\ Exit(p)

(* wait_for_idle: no build and no scheduler pass is left. *)
Finish(p) ==
  /\ In(p, {"quiescing"}) /\ proc[p].pc \in {"closed", "open"} /\ proc[p].building = {}
  /\ Exit(p)

Crash(p) ==
  /\ ~In(p, {"down"}) /\ Die(p) /\ gate' = [gate EXCEPT ![p] = Down] /\ UNCHANGED starts

Next ==
  \E p \in Processes :
    \/ Start(p) \/ Boot(p) \/ Call(p) \/ CallReturns(p)
    \/ OpenDatabase(p) \/ Opening(p) \/ TimesOut(p) \/ Build(p) \/ BuildEnds(p)
    \/ Configure(p) \/ Stop(p) \/ Drain(p) \/ RequestShutdown(p)
    \/ CancelledBuildEnds(p) \/ Finish(p) \/ Crash(p)

Spec == Init /\ [][Next]_vars

(* The threads of a service that can run do run, and it needs the database   *)
(* again and again; nothing is asked of the processes beside it.             *)
(* A cancelled build ends (IndexBuild, CancelEndsBuild), one the shutdown did *)
(* not find in its own time, if at all; nothing makes a call return, since a  *)
(* stream ends only with its reader.  The last scheduler pass tries the       *)
(* database finitely often.                                                   *)
Fairness ==
  \A p \in Service :
    /\ WF_vars(OpenDatabase(p)) /\ WF_vars(Opening(p))
    /\ WF_vars(Drain(p)) /\ WF_vars(RequestShutdown(p)) /\ WF_vars(CancelledBuildEnds(p))
    /\ SF_vars(Finish(p))

FairSpec == Spec /\ Fairness

-----------------------------------------------------------------------------
(* store.rs, migrate_schema_3_to_4 and open_once: the automatic-refresh      *)
(* setting a user made is in force as long as its database is used, through  *)
(* restarts, crashes and the migration another process still has under way.  *)
ChoiceKept ==
  \A s \in Servers : Exists /\ choice[s].file = main.id => main.enrolled[s] = choice[s].set

(* store.rs, open_once, the two UPDATEs of recovery: a build that recovery   *)
(* closed is reported by the index that is still served, even if the process *)
(* dies between them, until the next index replaces it; and the recovery of  *)
(* a gateway that has the database to itself leaves nobody's staging         *)
(* generation when it lets the gateway in.                                   *)
InterruptionIsNoted ==
  /\ \A s \in Servers : Exists /\ Has(s, "cut") => main.noted[s]
  /\ \A p \in Processes : At(p, "recover") /\ proc[p].alone /\ proc[p].todo = {}
       => \A s \in Servers : ~Has(s, "staging")

(* run.rs, run_gateway, scheduler.rs, shutdown_background_indexing, and      *)
(* traversal.rs, fail_generation_and_schedule_cleanup: a staging generation  *)
(* has a process that works on it, or its process died or could not write    *)
(* that the build had failed; in particular a gateway that stops leaves no   *)
(* other one, and no file that is moved and brought back contains one.       *)
StagingHasBuilder ==
  \A s \in Servers : Exists => \A g \in DOMAIN Gens(s) : Gens(s)[g] = "staging" =>
    \/ \E p \in Processes : s \in proc[p].building /\ proc[p].gen = g
    \/ [file |-> main.id, server |-> s, gen |-> g] \in left

(* store.rs, IndexDb::open: a service that is alone gets a usable database,  *)
(* whatever file it found and wherever an earlier process died.              *)
GetsDatabase ==
  \A p \in Service :
    In(p, {"running"}) ~> (At(p, "open") \/ ~In(p, {"running"}) \/ Others(p) # {})

CallsEnd(p) == In(p, {"draining"}) ~> gate[p].calls = 0
BuildIsFound(p) == [](In(p, {"quiescing"}) => gate[p].reached \/ proc[p].building = {})

(* run.rs, run_gateway, and service.rs, run_service: a stop is answered by   *)
(* the end of the process, also from within an open, a migration or a        *)
(* quarantine and with builds under way, provided the calls in flight end,   *)
(* which nothing enforces, and the shutdown's cancel finds the build.        *)
StopEnds ==
  \A p \in Service : CallsEnd(p) /\ BuildIsFound(p) => (gate[p].stop ~> In(p, {"down"}))

(* The same without the two provisos, which the code does not guarantee. *)
StopAlwaysEnds ==
  \A p \in Service : gate[p].stop ~> In(p, {"down"})

-----------------------------------------------------------------------------
(* store.rs:378, "preserving namespace index staging generation owned by a   *)
(* live process": recovery closes no generation that is being built.         *)
LiveStagingKept ==
  \A p \in Processes : \A s \in proc[p].building : Staged(p, s)

(* store.rs:1044, "quarantined invalid namespace index": only files that     *)
(* cannot be used are moved aside.                                           *)
OnlyInvalidMoved == "valid" \notin aside
=============================================================================
