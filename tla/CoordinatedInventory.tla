------------------------ MODULE CoordinatedInventory ------------------------
(***************************************************************************)
(* One inventory made of several: workers take the branches of the root    *)
(* page from a queue and inventory each with a native stream of their own, *)
(* a coordinator merges what they send, and one control stands for all.    *)
(*                                                                         *)
(* Code: crates/opcda-bridge-gateway/src/index/traversal.rs                *)
(* (CoordinatedInventoryControl, CoordinatedInventoryStream,               *)
(* discover_inventory_roots, run_coordinated_inventory,                    *)
(* run_inventory_worker).                                                  *)
(*                                                                         *)
(* The native streams are external: an unpaused one sends its entries in   *)
(* any order and ends in any of the ways the code provides for.  Progress, *)
(* slice and Started messages carry numbers for reports and are left out.  *)
(***************************************************************************)
EXTENDS Naturals, Sequences, FiniteSets

CONSTANTS
  Workers,     \* min(worker_count, number of worker roots)
  Callers,     \* the build loop and others that hold the control
  Nodes,       \* nodes of the root page
  Kind,        \* BrowseNodeKind of each node
  Named,       \* the nodes with an item_id
  Below,       \* items in the subtree of each branch
  Pacings,     \* settings of the native pacing
  Faults,      \* TRUE: streams fail, workers panic
  Truncates,   \* TRUE: a native inventory may be truncated
  Coord

Branches == {n \in Nodes : Kind[n] # "item"}

RootEntries == {n \in Named : Kind[n] # "branch"}
WorkerRoots == Branches \cap Named

ASSUME InventoryAssumption ==
  /\ Kind \in [Nodes -> {"item", "branch", "both"}] /\ Named \subseteq Nodes
  /\ DOMAIN Below = Nodes
  /\ Cardinality(WorkerRoots) >= 2       \* otherwise there is one full-root inventory
  /\ Workers # {} /\ Workers \cap Callers = {} /\ Coord \notin Workers \cup Callers
  /\ 0 \in Pacings /\ Faults \in BOOLEAN /\ Truncates \in BOOLEAN

(* The items of the namespace. *)
Items == {n \in Nodes : Kind[n] # "branch"} \cup UNION {Below[n] : n \in Branches}

VARIABLES
  cancelled, stopping, paused, pacing,   \* CoordinatedInventoryControlState
  controls,    \* the workers registered there
  queue,       \* roots nobody has taken yet
  own,         \* the control of each worker's native stream
  left,        \* what each native stream has yet to send
  chan,        \* messages of the workers
  seen,        \* item ids sent on
  out,         \* the terminal event of the merged stream
  open,        \* its receiver exists
  cut,         \* history: what truncated native inventories left unsent
  at, todo     \* program counters; workers a call has yet to reach

flags == <<cancelled, stopping, paused, pacing>>
vars == <<flags, controls, queue, own, left, chan, seen, out, open, cut, at, todo>>

Threads == Workers \cup Callers \cup {Coord}

ShouldStop == cancelled \/ stopping

Fresh == [paused |-> FALSE, pacing |-> 0, cancelled |-> FALSE]

Results == {"complete", "cancelled", "truncated", "incomplete"}
Message == [kind : {"entry"}, item : Items] \cup [kind : {"completed"}, result : Results]
           \cup [kind : {"failed"}]

Ended == {"ended", "panicked"}

TypeOK ==
  /\ cancelled \in BOOLEAN /\ stopping \in BOOLEAN /\ paused \in BOOLEAN
  /\ pacing \in Pacings
  /\ controls \subseteq Workers /\ queue \subseteq WorkerRoots
  /\ own \in [Workers -> [paused : BOOLEAN, pacing : Pacings, cancelled : BOOLEAN]]
  /\ left \in [Workers -> SUBSET Items]
  /\ \A i \in DOMAIN chan : chan[i] \in Message
  /\ seen \subseteq Items
  /\ out \in {"none", "complete", "cancelled", "error"}
  /\ open \in BOOLEAN /\ cut \subseteq Items
  /\ todo \in [Callers -> SUBSET Workers]
  /\ \A t \in Threads :
       at[t] \in {"idle", "cancel", "cancelAll", "roots", "join", "loop",
                  "start", "register", "readPaused", "insert", "stream", "close",
                  "closeEarly", "pauseAll", "resumeAll", "paceAll", "pausing",
                  "resuming", "pacing", "shutdown", "dropped"} \cup Ended

Init ==
  /\ cancelled = FALSE /\ stopping = FALSE /\ paused = FALSE /\ pacing = 0
  /\ controls = {} /\ queue = WorkerRoots
  /\ own = [w \in Workers |-> Fresh] /\ left = [w \in Workers |-> {}]
  /\ chan = <<>> /\ seen = {} /\ out = "none" /\ open = TRUE /\ cut = {}
  /\ at = [t \in Threads |-> IF t \in Workers THEN "loop"
                             ELSE IF t = Coord THEN "roots" ELSE "idle"]
  /\ todo = [c \in Callers |-> {}]

Goto(t, pc) == at' = [at EXCEPT ![t] = pc]

(* The stream of a worker is shut down; a call that still holds its control  *)
(* reaches nothing any more.                                                 *)
Retire(w) ==
  /\ controls' = controls \ {w} /\ todo' = [c \in Callers |-> todo[c] \ {w}]
  /\ own' = [own EXCEPT ![w] = Fresh] /\ left' = [left EXCEPT ![w] = {}]

Send(m) == chan' = Append(chan, m)

-----------------------------------------------------------------------------
(* CoordinatedInventoryControl::cancel, by whichever thread is at "cancel":  *)
(* the flags first, then the registered controls.                            *)
AfterCancel(t) ==
  IF t \in Workers THEN "close"
  ELSE IF t = Coord THEN (IF out = "error" THEN "join" ELSE "loop")
  ELSE "shutdown"

CancelFlags(t) ==
  /\ at[t] = "cancel" /\ cancelled' = TRUE /\ stopping' = TRUE
  /\ Goto(t, "cancelAll")
  /\ UNCHANGED <<paused, pacing, controls, queue, own, left, chan, seen, out, open, cut, todo>>

CancelAll(t) ==
  /\ at[t] = "cancelAll"
  /\ own' = [w \in Workers |->
               IF w \in controls THEN [own[w] EXCEPT !.cancelled = TRUE] ELSE own[w]]
  /\ Goto(t, AfterCancel(t))
  /\ UNCHANGED <<flags, controls, queue, left, chan, seen, out, open, cut, todo>>

-----------------------------------------------------------------------------
(* run_inventory_worker *)

(* pop_inventory_root *)
TakeRoot(w) ==
  /\ at[w] = "loop"
  /\ \/ (ShouldStop \/ queue = {}) /\ Goto(w, "ended") /\ UNCHANGED <<queue, left>>
     \/ /\ ~ShouldStop
        /\ \E r \in queue :
             queue' = queue \ {r} /\ left' = [left EXCEPT ![w] = Below[r]]
        /\ Goto(w, "start")
  /\ UNCHANGED <<flags, controls, own, chan, seen, out, open, cut, todo>>

(* start_inventory_worker_stream; the failure of the pacing update and of    *)
(* the start have the same consequences.                                     *)
StartStream(w) ==
  /\ at[w] = "start"
  /\ \/ Goto(w, "register") /\ UNCHANGED chan
     \/ Faults /\ ShouldStop /\ Goto(w, "ended") /\ UNCHANGED chan
     \/ Faults /\ ~ShouldStop /\ Send([kind |-> "failed"]) /\ Goto(w, "cancel")
  /\ UNCHANGED <<flags, controls, queue, own, left, seen, out, open, cut, todo>>

(* register: pacing, then the pause, then -- under the lock of the controls, *)
(* where the flags are looked at once more -- the insertion.                 *)
Register(w) ==
  /\ at[w] = "register"
  /\ \/ ShouldStop /\ Retire(w) /\ Goto(w, "ended")
     \/ /\ ~ShouldStop /\ own' = [own EXCEPT ![w].pacing = pacing]
        /\ Goto(w, "readPaused") /\ UNCHANGED <<controls, left, todo>>
  /\ UNCHANGED <<flags, queue, chan, seen, out, open, cut>>

ReadPaused(w) ==
  /\ at[w] = "readPaused"
  /\ own' = [own EXCEPT ![w].paused = paused]
  /\ Goto(w, "insert")
  /\ UNCHANGED <<flags, controls, queue, left, chan, seen, out, open, cut, todo>>

InsertUnchecked(w) ==                  \* mutant of Insert
  /\ at[w] = "insert" /\ controls' = controls \cup {w} /\ Goto(w, "stream")
  /\ UNCHANGED <<flags, queue, own, left, chan, seen, out, open, cut, todo>>

Insert(w) ==
  /\ at[w] = "insert"
  /\ \/ ShouldStop /\ Retire(w) /\ Goto(w, "ended")
     \/ /\ ~ShouldStop /\ controls' = controls \cup {w}
        /\ Goto(w, "stream") /\ UNCHANGED <<own, left, todo>>
  /\ UNCHANGED <<flags, queue, chan, seen, out, open, cut>>

(* forward_inventory_event, with the next event of the native stream.  A     *)
(* paused stream sends nothing until it is resumed or cancelled.             *)
Flowing(w) == at[w] = "stream" /\ (own[w].paused => own[w].cancelled)

ForwardEntry(w) ==
  /\ Flowing(w)
  /\ \E i \in left[w] :
       Send([kind |-> "entry", item |-> i]) /\ left' = [left EXCEPT ![w] = @ \ {i}]
  /\ UNCHANGED <<flags, controls, queue, own, seen, out, open, cut, at, todo>>

ForwardCompleted(w) ==
  /\ Flowing(w)
  /\ \E result \in Results :
       /\ result = "complete" => left[w] = {}
       /\ result = "cancelled" => own[w].cancelled
       /\ result = "truncated" => Truncates
       /\ result = "incomplete" => Faults
       /\ Send([kind |-> "completed", result |-> result])
       /\ cut' = IF result = "truncated" THEN cut \cup left[w] ELSE cut
  /\ Goto(w, "close")
  /\ UNCHANGED <<flags, controls, queue, own, left, seen, out, open, todo>>

ForwardError(w) ==
  /\ Faults /\ Flowing(w)
  /\ \/ ShouldStop /\ Goto(w, "close") /\ UNCHANGED chan
     \/ ~ShouldStop /\ Send([kind |-> "failed"]) /\ Goto(w, "cancel")
  /\ UNCHANGED <<flags, controls, queue, own, left, seen, out, open, cut, todo>>

StreamEnds(w) ==
  /\ Flowing(w) /\ (Faults \/ own[w].cancelled) /\ Goto(w, "closeEarly")
  /\ UNCHANGED <<flags, controls, queue, own, left, chan, seen, out, open, cut, todo>>

(* The stream is shut down and the control unregistered. *)
Close(w) ==
  /\ at[w] = "close" /\ Retire(w) /\ Goto(w, "loop")
  /\ UNCHANGED <<flags, queue, chan, seen, out, open, cut>>

CloseEarlySilently(w) ==               \* mutant of CloseEarly
  /\ at[w] = "closeEarly" /\ Retire(w) /\ Goto(w, "loop")
  /\ UNCHANGED <<flags, queue, chan, seen, out, open, cut>>

CloseEarly(w) ==
  /\ at[w] = "closeEarly" /\ Retire(w)
  /\ \/ ShouldStop /\ Goto(w, "loop") /\ UNCHANGED chan
     \/ ~ShouldStop /\ Send([kind |-> "failed"]) /\ Goto(w, "cancel")
  /\ UNCHANGED <<flags, queue, seen, out, open, cut>>

Panic(w) ==
  /\ Faults /\ at[w] \in {"start", "stream"} /\ Goto(w, "panicked")
  /\ UNCHANGED <<flags, controls, queue, own, left, chan, seen, out, open, cut, todo>>

-----------------------------------------------------------------------------
(* run_coordinated_inventory *)

AllEnded == \A w \in Workers : at[w] \in Ended

(* emit_coordinated_entry for the items of the root page *)
EmitRoots ==
  /\ at[Coord] = "roots" /\ seen' = IF open THEN RootEntries ELSE seen
  /\ Goto(Coord, IF open \/ RootEntries = {} THEN "loop" ELSE "cancel")
  /\ UNCHANGED <<flags, controls, queue, own, left, chan, out, open, cut, todo>>

EmitEntry ==
  /\ at[Coord] = "loop" /\ chan # <<>> /\ Head(chan).kind = "entry"
  /\ chan' = Tail(chan) /\ seen' = seen \cup {Head(chan).item}
  /\ Goto(Coord, IF Head(chan).item \in seen \/ open THEN "loop" ELSE "cancel")
  /\ UNCHANGED <<flags, controls, queue, own, left, out, open, cut, todo>>

Fatal(m) ==
  \/ m.kind = "failed"
  \/ m.kind = "completed" /\ m.result = "incomplete"

(* A worker's end is only looked at to find a failure: everything is         *)
(* cancelled, the error sent on and the workers joined.                      *)
HandleEndAndReturn ==                  \* mutant of HandleEnd
  /\ at[Coord] = "loop" /\ chan # <<>> /\ Head(chan).kind # "entry"
  /\ chan' = Tail(chan)
  /\ IF Fatal(Head(chan)) THEN out' = "error" /\ Goto(Coord, "ended")
     ELSE UNCHANGED <<out, at>>
  /\ UNCHANGED <<flags, controls, queue, own, left, seen, open, cut, todo>>

HandleEndWithoutCancel ==              \* mutant of HandleEnd
  /\ at[Coord] = "loop" /\ chan # <<>> /\ Head(chan).kind # "entry"
  /\ chan' = Tail(chan)
  /\ IF Fatal(Head(chan)) THEN out' = "error" /\ Goto(Coord, "join")
     ELSE UNCHANGED <<out, at>>
  /\ UNCHANGED <<flags, controls, queue, own, left, seen, open, cut, todo>>

HandleEnd ==
  /\ at[Coord] = "loop" /\ chan # <<>> /\ Head(chan).kind # "entry"
  /\ chan' = Tail(chan)
  /\ IF Fatal(Head(chan)) THEN out' = "error" /\ Goto(Coord, "cancel")
     ELSE UNCHANGED <<out, at>>
  /\ UNCHANGED <<flags, controls, queue, own, left, seen, open, cut, todo>>

Join ==
  /\ at[Coord] = "join" /\ AllEnded /\ Goto(Coord, "ended")
  /\ UNCHANGED <<flags, controls, queue, own, left, chan, seen, out, open, cut, todo>>

(* finish_coordinated_inventory_after_channel_close *)
Finish ==
  /\ at[Coord] = "loop" /\ chan = <<>> /\ AllEnded
  /\ stopping' = TRUE
  /\ out' = IF \E w \in Workers : at[w] = "panicked" THEN "error"
            ELSE IF cancelled THEN "cancelled" ELSE "complete"
  /\ Goto(Coord, "ended")
  /\ UNCHANGED <<cancelled, paused, pacing, controls, queue, own, left, chan,
                 seen, open, cut, todo>>

-----------------------------------------------------------------------------
(* Calls on the control: pause_all, resume_all, set_pacing, cancel, and the  *)
(* end of CoordinatedInventoryStream.  What is wanted is stored first, then  *)
(* told to the controls registered at that moment, one by one.               *)
Store(c) ==
  /\ at[c] = "idle" /\ open
  /\ \/ paused' = TRUE /\ Goto(c, "pauseAll") /\ UNCHANGED pacing
     \/ paused' = FALSE /\ Goto(c, "resumeAll") /\ UNCHANGED pacing
     \/ /\ \E p \in Pacings : pacing' = p
        /\ Goto(c, "paceAll") /\ UNCHANGED paused
     \/ Goto(c, "cancel") /\ UNCHANGED <<paused, pacing>>
  /\ UNCHANGED <<cancelled, stopping, controls, queue, own, left, chan, seen,
                 out, open, cut, todo>>

Begun == [pauseAll |-> "pausing", resumeAll |-> "resuming", paceAll |-> "pacing"]

Snapshot(c) ==
  /\ at[c] \in DOMAIN Begun /\ todo' = [todo EXCEPT ![c] = controls]
  /\ Goto(c, Begun[at[c]])
  /\ UNCHANGED <<flags, controls, queue, own, left, chan, seen, out, open, cut>>

(* A rejected pacing cancels everything. *)
Tell(c) ==
  /\ at[c] \in {"pausing", "resuming", "pacing"}
  /\ \/ /\ todo[c] = {} /\ Goto(c, "idle") /\ UNCHANGED <<own, todo>>
     \/ \E w \in todo[c] :
          /\ own' = CASE at[c] = "pausing" -> [own EXCEPT ![w].paused = TRUE]
                      [] at[c] = "resuming" -> [own EXCEPT ![w].paused = FALSE]
                      [] at[c] = "pacing" -> [own EXCEPT ![w].pacing = pacing]
          /\ todo' = [todo EXCEPT ![c] = @ \ {w}] /\ UNCHANGED at
     \/ /\ Faults /\ at[c] = "pacing" /\ todo[c] # {}
        /\ todo' = [todo EXCEPT ![c] = {}] /\ Goto(c, "cancel") /\ UNCHANGED own
  /\ UNCHANGED <<flags, controls, queue, left, chan, seen, out, open, cut>>

(* The stream is dropped after shutdown() has awaited the coordinator, or at *)
(* once when the build is unwound; both cancel first.                        *)
DropStream(c) ==
  /\ at[c] = "shutdown" /\ (Faults \/ at[Coord] = "ended")
  /\ open' = FALSE /\ Goto(c, "dropped")
  /\ UNCHANGED <<flags, controls, queue, own, left, chan, seen, out, cut, todo>>

-----------------------------------------------------------------------------
CancelStep(t) == CancelFlags(t) \/ CancelAll(t)

WorkerStep(w) ==
  \/ TakeRoot(w) \/ StartStream(w) \/ Register(w) \/ ReadPaused(w) \/ Insert(w)
  \/ ForwardEntry(w) \/ ForwardCompleted(w) \/ ForwardError(w) \/ StreamEnds(w)
  \/ Close(w) \/ CloseEarly(w)

CoordStep == EmitRoots \/ EmitEntry \/ HandleEnd \/ Join \/ Finish

CallStep(c) == Snapshot(c) \/ Tell(c)

Next ==
  \/ \E t \in Threads : CancelStep(t)
  \/ \E w \in Workers : WorkerStep(w) \/ Panic(w)
  \/ CoordStep
  \/ \E c \in Callers : Store(c) \/ CallStep(c) \/ DropStream(c)

Spec == Init /\ [][Next]_vars

(* Tasks are scheduled, and a native stream that is cancelled or not paused  *)
(* goes on; nobody has to call.                                              *)
FairSpec ==
  /\ Spec
  /\ \A t \in Threads : WF_vars(CancelStep(t))
  /\ \A w \in Workers : WF_vars(WorkerStep(w))
  /\ WF_vars(CoordStep)
  /\ \A c \in Callers : WF_vars(CallStep(c))

-----------------------------------------------------------------------------
(* What the workers and the root page lead to: a node without an item_id is  *)
(* neither sent nor walked.                                                  *)
Reachable == RootEntries \cup UNION {Below[r] : r \in WorkerRoots}

(* A merged inventory that calls itself complete has sent every item it can  *)
(* reach but those a truncated native inventory kept back, whichever worker  *)
(* took which root and however the streams, workers and callers ended:       *)
(* failures, panics, early ends and cancellations are never "complete".      *)
CompleteMissesOnlyCuts == out = "complete" => Reachable \ cut \subseteq seen

(* A merged inventory that calls itself complete is complete: it has sent    *)
(* every item of the namespace.  Truncated inventories and nodes without an  *)
(* item_id refute it.                                                        *)
CompleteMeansWhole == out = "complete" => seen = Items

Cancelling == \E t \in Threads : at[t] \in {"cancel", "cancelAll"}

(* "Coordinated workers share [...] cancellation controls": a worker that    *)
(* registers while a cancellation passes is cancelled all the same.          *)
CancelReachesWorkers ==
  cancelled /\ ~Cancelling => \A w \in Workers : at[w] = "stream" => own[w].cancelled

(* "all worker streams are shut down and joined before the build releases    *)
(* its ownership": shutdown() returns when the coordinator has ended.        *)
JoinedBeforeRelease == at[Coord] = "ended" => AllEnded

(* A cancelled or failed inventory ends, also when its workers are paused.   *)
EndIsReached == (cancelled \/ at[Coord] = "join") ~> at[Coord] = "ended"

(* "Coordinated workers share pause, resume, pacing [...] controls": with no *)
(* call under way, what was asked for last holds for every worker.           *)
WorkersFollowControl ==
  (\A c \in Callers : at[c] = "idle") =>
    \A w \in Workers : at[w] = "stream" =>
      own[w].paused = paused /\ own[w].pacing = pacing

=============================================================================
