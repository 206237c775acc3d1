--------------------- MODULE CoordinatedInventoryProofs ---------------------
(***************************************************************************)
(* A coordinated inventory joins its workers, cancels them all and, when it *)
(* calls itself complete, has missed only what truncation cut off: for any  *)
(* number of workers, callers and nodes.                                    *)
(***************************************************************************)
EXTENDS CoordinatedInventory, TLAPS

Pcs ==
  {"idle", "cancel", "cancelAll", "roots", "join", "loop", "start", "register",
   "readPaused", "insert", "stream", "close", "closeEarly", "pauseAll", "resumeAll",
   "paceAll", "pausing", "resuming", "pacing", "shutdown", "dropped"} \cup Ended

Controls == [paused : BOOLEAN, pacing : Pacings, cancelled : BOOLEAN]

InvTypes ==
  /\ cancelled \in BOOLEAN /\ stopping \in BOOLEAN /\ paused \in BOOLEAN
  /\ pacing \in Pacings /\ open \in BOOLEAN
  /\ controls \in SUBSET Workers /\ queue \in SUBSET WorkerRoots
  /\ own \in [Workers -> Controls] /\ left \in [Workers -> SUBSET Items]
  /\ chan \in Seq(Message) /\ seen \in SUBSET Items /\ cut \in SUBSET Items
  /\ out \in {"none", "complete", "cancelled", "error"}
  /\ at \in [Threads -> Pcs] /\ todo \in [Callers -> SUBSET Workers]

-----------------------------------------------------------------------------
(* The same in the words of the model. *)
LEMMA TypesAreTypeOK == InvTypes => TypeOK
  <1> SUFFICES ASSUME InvTypes PROVE TypeOK
    OBVIOUS
  <1>1. \A i \in DOMAIN chan : chan[i] \in Message
    BY DEF InvTypes
  <1>2. \A t \in Threads : at[t] \in Pcs
    BY DEF InvTypes
  <1> QED BY <1>1, <1>2 DEF InvTypes, TypeOK, Controls, Pcs

(* Every thread has a role of its own. *)
LEMMA Roles ==
  /\ Workers \subseteq Threads /\ Callers \subseteq Threads /\ Coord \in Threads
  /\ Coord \notin Workers /\ Coord \notin Callers
  /\ \A w \in Workers : w \notin Callers /\ w # Coord
  BY InventoryAssumption DEF Threads

(* What the workers send. *)
LEMMA Messages ==
  /\ \A i \in Items : [kind |-> "entry", item |-> i] \in Message
  /\ \A r \in Results : [kind |-> "completed", result |-> r] \in Message
  /\ [kind |-> "failed"] \in Message
  /\ \A m \in Message : m.kind = "entry" => m.item \in Items
  BY DEF Message

(* One thread goes on. *)
LEMMA GotoType ==
  ASSUME at \in [Threads -> Pcs], NEW t \in Threads, NEW p \in Pcs, Goto(t, p)
  PROVE  /\ at' \in [Threads -> Pcs] /\ at'[t] = p
         /\ \A u \in Threads \ {t} : at'[u] = at[u]
  BY DEF Goto

(* The control of one worker changes. *)
LEMMA OwnType ==
  ASSUME own \in [Workers -> Controls], NEW w \in Workers, NEW x \in Controls,
         own' = [own EXCEPT ![w] = x]
  PROVE  /\ own' \in [Workers -> Controls] /\ own'[w] = x
         /\ \A v \in Workers \ {w} : own'[v] = own[v]
  OBVIOUS

(* A control with one setting changed. *)
LEMMA ControlType ==
  ASSUME NEW x \in Controls
  PROVE  /\ \A b \in BOOLEAN : [x EXCEPT !.paused = b] \in Controls
         /\ \A p \in Pacings : [x EXCEPT !.pacing = p] \in Controls
         /\ \A b \in BOOLEAN : [x EXCEPT !.paused = b].cancelled = x.cancelled
         /\ \A p \in Pacings : [x EXCEPT !.pacing = p].cancelled = x.cancelled
         /\ [x EXCEPT !.cancelled = TRUE] \in Controls
         /\ [x EXCEPT !.cancelled = TRUE].cancelled
  BY DEF Controls

(* Roots lead to items. *)
LEMMA RootsType ==
  RootEntries \in SUBSET Items /\ \A r \in WorkerRoots : Below[r] \in SUBSET Items
  BY InventoryAssumption DEF RootEntries, Items, WorkerRoots, Branches

(* A retired stream. *)
LEMMA RetireType ==
  ASSUME InvTypes, NEW w \in Workers, Retire(w)
  PROVE  /\ controls' \in SUBSET Workers /\ own' \in [Workers -> Controls]
         /\ left' \in [Workers -> SUBSET Items] /\ todo' \in [Callers -> SUBSET Workers]
         /\ controls' = controls \ {w} /\ own'[w] = Fresh
         /\ \A v \in Workers \ {w} : own'[v] = own[v] /\ left'[v] = left[v]
  <1>1. Fresh \in Controls
    BY InventoryAssumption DEF Fresh, Controls
  <1>2. own' \in [Workers -> Controls] /\ own'[w] = Fresh
        /\ \A v \in Workers \ {w} : own'[v] = own[v]
    BY <1>1 DEF Retire, InvTypes
  <1>3. left' \in [Workers -> SUBSET Items] /\ \A v \in Workers \ {w} : left'[v] = left[v]
    BY DEF Retire, InvTypes
  <1>4. todo' \in [Callers -> SUBSET Workers]
    BY DEF Retire, InvTypes
  <1> QED BY <1>2, <1>3, <1>4 DEF Retire, InvTypes

(* A message is sent. *)
LEMMA SendType ==
  ASSUME chan \in Seq(Message), NEW m \in Message, Send(m)
  PROVE  /\ chan' \in Seq(Message) /\ Len(chan') = Len(chan) + 1
         /\ chan'[Len(chan) + 1] = m /\ \A k \in 1..Len(chan) : chan'[k] = chan[k]
  BY DEF Send

(* CoordinatedInventoryControl::cancel. *)
LEMMA TypeCancel ==
  ASSUME InvTypes, NEW t \in Threads, CancelStep(t)
  PROVE  InvTypes'
  <1>1. CASE CancelFlags(t)
    <2>1. at' \in [Threads -> Pcs]
      BY <1>1, GotoType DEF CancelFlags, InvTypes, Pcs
    <2> QED BY <1>1, <2>1 DEF CancelFlags, InvTypes
  <1>2. CASE CancelAll(t)
    <2>1. AfterCancel(t) \in Pcs
      BY DEF AfterCancel, Pcs
    <2>2. at' \in [Threads -> Pcs]
      BY <1>2, <2>1, GotoType DEF CancelAll, InvTypes
    <2>3. own' \in [Workers -> Controls]
      <3>1. \A w \in Workers : [own[w] EXCEPT !.cancelled = TRUE] \in Controls
        BY ControlType DEF InvTypes
      <3> QED BY <1>2, <3>1 DEF CancelAll, InvTypes
    <2> QED BY <1>2, <2>2, <2>3 DEF CancelAll, InvTypes, flags
  <1> QED BY <1>1, <1>2 DEF CancelStep

(* run_inventory_worker, up to its stream. *)
LEMMA TypeWorkerStart ==
  ASSUME InvTypes, NEW w \in Workers,
         TakeRoot(w) \/ StartStream(w) \/ Register(w) \/ ReadPaused(w) \/ Insert(w)
  PROVE  InvTypes'
  <1>0. w \in Threads
    BY Roles
  <1>1. CASE TakeRoot(w)
    <2>1. at' \in [Threads -> Pcs]
      BY <1>0, <1>1, GotoType DEF TakeRoot, InvTypes, Pcs, Ended
    <2>2. queue' \in SUBSET WorkerRoots
      BY <1>1 DEF TakeRoot, InvTypes
    <2>3. left' \in [Workers -> SUBSET Items]
      BY <1>1, RootsType DEF TakeRoot, InvTypes
    <2> QED BY <1>1, <2>1, <2>2, <2>3 DEF TakeRoot, InvTypes, flags
  <1>2. CASE StartStream(w)
    <2>1. at' \in [Threads -> Pcs]
      BY <1>0, <1>2, GotoType DEF StartStream, InvTypes, Pcs, Ended
    <2>2. chan' \in Seq(Message)
      BY <1>2, SendType, Messages DEF StartStream, InvTypes
    <2> QED BY <1>2, <2>1, <2>2 DEF StartStream, InvTypes, flags
  <1>3. CASE Register(w)
    <2>1. at' \in [Threads -> Pcs]
      BY <1>0, <1>3, GotoType DEF Register, InvTypes, Pcs, Ended
    <2>2. CASE Retire(w)
      BY <1>3, <2>1, <2>2, RetireType DEF Register, InvTypes, flags
    <2>3. CASE own' = [own EXCEPT ![w].pacing = pacing] /\ UNCHANGED <<controls, left, todo>>
      <3>1. [own[w] EXCEPT !.pacing = pacing] \in Controls
        BY ControlType DEF InvTypes
      <3>2. own' \in [Workers -> Controls]
        BY <2>3, <3>1 DEF InvTypes
      <3> QED BY <1>3, <2>1, <2>3, <3>2 DEF Register, InvTypes, flags
    <2> QED BY <1>3, <2>2, <2>3 DEF Register
  <1>4. CASE ReadPaused(w)
    <2>1. at' \in [Threads -> Pcs]
      BY <1>0, <1>4, GotoType DEF ReadPaused, InvTypes, Pcs
    <2>2. [own[w] EXCEPT !.paused = paused] \in Controls
      BY ControlType DEF InvTypes
    <2>3. own' \in [Workers -> Controls]
      BY <1>4, <2>2 DEF ReadPaused, InvTypes
    <2> QED BY <1>4, <2>1, <2>3 DEF ReadPaused, InvTypes, flags
  <1>5. CASE Insert(w)
    <2>1. at' \in [Threads -> Pcs]
      BY <1>0, <1>5, GotoType DEF Insert, InvTypes, Pcs, Ended
    <2>2. CASE Retire(w)
      BY <1>5, <2>1, <2>2, RetireType DEF Insert, InvTypes, flags
    <2>3. CASE controls' = controls \cup {w} /\ UNCHANGED <<own, left, todo>>
      BY <1>5, <2>1, <2>3 DEF Insert, InvTypes, flags
    <2> QED BY <1>5, <2>2, <2>3 DEF Insert
  <1> QED BY <1>1, <1>2, <1>3, <1>4, <1>5

(* run_inventory_worker, from its stream on. *)
LEMMA TypeWorkerStream ==
  ASSUME InvTypes, NEW w \in Workers,
         \/ ForwardEntry(w) \/ ForwardCompleted(w) \/ ForwardError(w) \/ StreamEnds(w)
         \/ Close(w) \/ CloseEarly(w) \/ Panic(w)
  PROVE  InvTypes'
  <1>0. w \in Threads
    BY Roles
  <1>1. CASE ForwardEntry(w)
    <2>1. PICK i \in left[w] : /\ Send([kind |-> "entry", item |-> i])
                               /\ left' = [left EXCEPT ![w] = @ \ {i}]
      BY <1>1 DEF ForwardEntry
    <2>2. i \in Items /\ left' \in [Workers -> SUBSET Items]
      BY <2>1 DEF InvTypes
    <2>3. chan' \in Seq(Message)
      BY <2>1, <2>2, SendType, Messages DEF InvTypes
    <2> QED BY <1>1, <2>2, <2>3 DEF ForwardEntry, InvTypes, flags
  <1>2. CASE ForwardCompleted(w)
    <2>1. at' \in [Threads -> Pcs]
      BY <1>0, <1>2, GotoType DEF ForwardCompleted, InvTypes, Pcs
    <2>2. chan' \in Seq(Message)
      BY <1>2, SendType, Messages DEF ForwardCompleted, InvTypes
    <2>3. cut' \in SUBSET Items
      BY <1>2 DEF ForwardCompleted, InvTypes
    <2> QED BY <1>2, <2>1, <2>2, <2>3 DEF ForwardCompleted, InvTypes, flags
  <1>3. CASE ForwardError(w)
    <2>1. at' \in [Threads -> Pcs]
      BY <1>0, <1>3, GotoType DEF ForwardError, InvTypes, Pcs
    <2>2. chan' \in Seq(Message)
      BY <1>3, SendType, Messages DEF ForwardError, InvTypes
    <2> QED BY <1>3, <2>1, <2>2 DEF ForwardError, InvTypes, flags
  <1>4. CASE StreamEnds(w) \/ Panic(w)
    <2>1. at' \in [Threads -> Pcs]
      BY <1>0, <1>4, GotoType DEF StreamEnds, Panic, InvTypes, Pcs, Ended
    <2> QED BY <1>4, <2>1 DEF StreamEnds, Panic, InvTypes, flags
  <1>5. CASE Close(w)
    <2>1. at' \in [Threads -> Pcs]
      BY <1>0, <1>5, GotoType DEF Close, InvTypes, Pcs
    <2> QED BY <1>5, <2>1, RetireType DEF Close, InvTypes, flags
  <1>6. CASE CloseEarly(w)
    <2>1. at' \in [Threads -> Pcs]
      BY <1>0, <1>6, GotoType DEF CloseEarly, InvTypes, Pcs
    <2>2. chan' \in Seq(Message)
      BY <1>6, SendType, Messages DEF CloseEarly, InvTypes
    <2> QED BY <1>6, <2>1, <2>2, RetireType DEF CloseEarly, InvTypes, flags
  <1> QED BY <1>1, <1>2, <1>3, <1>4, <1>5, <1>6

(* A message is received. *)
LEMMA ReceiveType ==
  ASSUME chan \in Seq(Message), chan # <<>>, chan' = Tail(chan)
  PROVE  /\ chan' \in Seq(Message) /\ Len(chan') = Len(chan) - 1 /\ Len(chan) > 0
         /\ Head(chan) = chan[1] /\ Head(chan) \in Message
         /\ \A k \in 1..Len(chan') : chan'[k] = chan[k + 1]
  OBVIOUS

(* run_coordinated_inventory. *)
LEMMA TypeCoord ==
  ASSUME InvTypes, CoordStep
  PROVE  InvTypes'
  <1>0. Coord \in Threads
    BY Roles
  <1>1. CASE EmitRoots
    <2>1. at' \in [Threads -> Pcs]
      BY <1>0, <1>1, GotoType DEF EmitRoots, InvTypes, Pcs
    <2> QED BY <1>1, <2>1, RootsType DEF EmitRoots, InvTypes, flags
  <1>2. CASE EmitEntry
    <2>1. at' \in [Threads -> Pcs]
      BY <1>0, <1>2, GotoType DEF EmitEntry, InvTypes, Pcs
    <2>2. chan' \in Seq(Message) /\ Head(chan).item \in Items
      BY <1>2, ReceiveType, Messages DEF EmitEntry, InvTypes
    <2>3. seen' \in SUBSET Items
      BY <1>2, <2>2 DEF EmitEntry, InvTypes
    <2> QED BY <1>2, <2>1, <2>2, <2>3 DEF EmitEntry, InvTypes, flags
  <1>3. CASE HandleEnd
    <2>1. at' \in [Threads -> Pcs]
      BY <1>0, <1>3, GotoType DEF HandleEnd, InvTypes, Pcs
    <2>2. chan' \in Seq(Message)
      BY <1>3, ReceiveType DEF HandleEnd, InvTypes
    <2>3. out' \in {"none", "complete", "cancelled", "error"}
      BY <1>3 DEF HandleEnd, InvTypes
    <2> QED BY <1>3, <2>1, <2>2, <2>3 DEF HandleEnd, InvTypes, flags
  <1>4. CASE Join
    <2>1. at' \in [Threads -> Pcs]
      BY <1>0, <1>4, GotoType DEF Join, InvTypes, Pcs, Ended
    <2> QED BY <1>4, <2>1 DEF Join, InvTypes, flags
  <1>5. CASE Finish
    <2>1. at' \in [Threads -> Pcs]
      BY <1>0, <1>5, GotoType DEF Finish, InvTypes, Pcs, Ended
    <2> QED BY <1>5, <2>1 DEF Finish, InvTypes
  <1> QED BY <1>1, <1>2, <1>3, <1>4, <1>5 DEF CoordStep

(* The calls on the control. *)
LEMMA TypeCall ==
  ASSUME InvTypes, NEW c \in Callers, Store(c) \/ CallStep(c) \/ DropStream(c)
  PROVE  InvTypes'
  <1>0. c \in Threads
    BY Roles
  <1>1. CASE Store(c)
    <2>1. at' \in [Threads -> Pcs]
      BY <1>0, <1>1, GotoType DEF Store, InvTypes, Pcs
    <2>2. paused' \in BOOLEAN /\ pacing' \in Pacings
      BY <1>1 DEF Store, InvTypes
    <2> QED BY <1>1, <2>1, <2>2 DEF Store, InvTypes
  <1>2. CASE Snapshot(c)
    <2>1. Begun[at[c]] \in Pcs
      BY <1>2 DEF Snapshot, Begun, Pcs
    <2>2. at' \in [Threads -> Pcs]
      BY <1>0, <1>2, <2>1, GotoType DEF Snapshot, InvTypes
    <2>3. todo' \in [Callers -> SUBSET Workers]
      BY <1>2 DEF Snapshot, InvTypes
    <2> QED BY <1>2, <2>2, <2>3 DEF Snapshot, InvTypes, flags
  <1>3. CASE Tell(c)
    <2>1. at' \in [Threads -> Pcs]
      BY <1>0, <1>3, GotoType DEF Tell, InvTypes, Pcs
    <2>2. todo' \in [Callers -> SUBSET Workers]
      BY <1>3 DEF Tell, InvTypes
    <2>3. own' \in [Workers -> Controls]
      <3>1. CASE UNCHANGED own
        BY <3>1 DEF InvTypes
      <3>2. ASSUME NEW w \in todo[c],
                   own' = CASE at[c] = "pausing" -> [own EXCEPT ![w].paused = TRUE]
                            [] at[c] = "resuming" -> [own EXCEPT ![w].paused = FALSE]
                            [] at[c] = "pacing" -> [own EXCEPT ![w].pacing = pacing]
            PROVE  own' \in [Workers -> Controls]
        <4>1. w \in Workers
          BY <3>2 DEF InvTypes
        <4>2. /\ [own[w] EXCEPT !.paused = TRUE] \in Controls
              /\ [own[w] EXCEPT !.paused = FALSE] \in Controls
              /\ [own[w] EXCEPT !.pacing = pacing] \in Controls
          BY <4>1, ControlType DEF InvTypes
        <4>3. /\ [own EXCEPT ![w].paused = TRUE] \in [Workers -> Controls]
              /\ [own EXCEPT ![w].paused = FALSE] \in [Workers -> Controls]
              /\ [own EXCEPT ![w].pacing = pacing] \in [Workers -> Controls]
          BY <4>1, <4>2 DEF InvTypes
        <4> QED BY <1>3, <3>2, <4>3 DEF Tell
      <3> QED BY <1>3, <3>1, <3>2 DEF Tell
    <2> QED BY <1>3, <2>1, <2>2, <2>3 DEF Tell, InvTypes, flags
  <1>4. CASE DropStream(c)
    <2>1. at' \in [Threads -> Pcs]
      BY <1>0, <1>4, GotoType DEF DropStream, InvTypes, Pcs
    <2> QED BY <1>4, <2>1 DEF DropStream, InvTypes, flags
  <1> QED BY <1>1, <1>2, <1>3, <1>4 DEF CallStep

(* Every step keeps the types. *)
LEMMA TypeNext == InvTypes /\ [Next]_vars => InvTypes'
  <1> SUFFICES ASSUME InvTypes, [Next]_vars PROVE InvTypes'
    OBVIOUS
  <1>1. CASE UNCHANGED vars
    BY <1>1 DEF vars, flags, InvTypes
  <1>2. ASSUME NEW w \in Workers, WorkerStep(w) \/ Panic(w) PROVE InvTypes'
    BY <1>2, TypeWorkerStart, TypeWorkerStream DEF WorkerStep
  <1> QED BY <1>1, <1>2, TypeCancel, TypeCoord, TypeCall DEF Next

(* ... and they hold at the start. *)
LEMMA TypeInit == Init => InvTypes
  <1> SUFFICES ASSUME Init PROVE InvTypes
    OBVIOUS
  <1>1. Fresh \in Controls
    BY InventoryAssumption DEF Fresh, Controls
  <1>2. at \in [Threads -> Pcs]
    BY DEF Init, Pcs
  <1>3. own \in [Workers -> Controls]
    BY <1>1 DEF Init
  <1>4. left \in [Workers -> SUBSET Items] /\ todo \in [Callers -> SUBSET Workers]
    BY DEF Init
  <1>5. chan \in Seq(Message)
    BY DEF Init
  <1> QED BY <1>2, <1>3, <1>4, <1>5, InventoryAssumption DEF Init, InvTypes

-----------------------------------------------------------------------------
(* The coordinator moves only by its own steps and by cancelling, a worker  *)
(* only by its own, and a caller only by its own.                           *)
LEMMA WhoMoves ==
  ASSUME InvTypes, [Next]_vars, NEW t \in Threads, at'[t] # at[t]
  PROVE  \/ CancelStep(t)
         \/ t \in Workers /\ (WorkerStep(t) \/ Panic(t))
         \/ t = Coord /\ CoordStep
         \/ t \in Callers
  <1>0. at \in [Threads -> Pcs]
    BY DEF InvTypes
  <1>1. ASSUME NEW u \in Threads, CancelStep(u), u # t PROVE FALSE
    BY <1>0, <1>1 DEF CancelStep, CancelFlags, CancelAll, Goto
  <1>2. ASSUME NEW w \in Workers, WorkerStep(w) \/ Panic(w), w # t PROVE FALSE
    BY <1>0, <1>2
    DEF WorkerStep, Panic, TakeRoot, StartStream, Register, ReadPaused, Insert, ForwardEntry,
        ForwardCompleted, ForwardError, StreamEnds, Close, CloseEarly, Goto
  <1>3. ASSUME CoordStep, t # Coord PROVE FALSE
    BY <1>0, <1>3 DEF CoordStep, EmitRoots, EmitEntry, HandleEnd, Join, Finish, Goto
  <1>4. ASSUME NEW c \in Callers, Store(c) \/ CallStep(c) \/ DropStream(c), c # t PROVE FALSE
    BY <1>0, <1>4 DEF Store, CallStep, Snapshot, Tell, DropStream, Goto
  <1>5. ~(UNCHANGED vars)
    BY DEF vars
  <1> QED BY <1>1, <1>2, <1>3, <1>4, <1>5 DEF Next

(* A worker that has ended, or panicked, stays so. *)
LEMMA EndIsFinal ==
  ASSUME InvTypes, [Next]_vars, NEW w \in Workers, at[w] \in Ended
  PROVE  at'[w] = at[w]
  <1>1. w \in Threads /\ w \notin Callers /\ w # Coord
    BY Roles
  <1>2. ~CancelStep(w)
    BY DEF CancelStep, CancelFlags, CancelAll, Ended
  <1>3. ~(WorkerStep(w) \/ Panic(w))
    BY DEF WorkerStep, Panic, TakeRoot, StartStream, Register, ReadPaused, Insert,
           ForwardEntry, ForwardCompleted, ForwardError, StreamEnds, Close, CloseEarly,
           Flowing, Ended
  <1> QED BY <1>1, <1>2, <1>3, WhoMoves

(* The coordinator ends only behind its workers. *)
LEMMA JoinNext == InvTypes /\ JoinedBeforeRelease /\ [Next]_vars => JoinedBeforeRelease'
  <1> SUFFICES ASSUME InvTypes, JoinedBeforeRelease, [Next]_vars, at'[Coord] = "ended"
               PROVE  AllEnded'
    BY DEF JoinedBeforeRelease
  <1>1. AllEnded => AllEnded'
    BY EndIsFinal DEF AllEnded
  <1>2. CASE at[Coord] = "ended"
    BY <1>1, <1>2 DEF JoinedBeforeRelease
  <1>3. CASE at[Coord] # "ended"
    <2>1. Coord \in Threads /\ Coord \notin Workers /\ Coord \notin Callers
      BY Roles
    <2>2. CancelStep(Coord) \/ CoordStep
      BY <1>3, <2>1, WhoMoves
    <2>3. at \in [Threads -> Pcs]
      BY DEF InvTypes
    <2>4. ~CancelStep(Coord)
      BY <2>1, <2>3 DEF CancelStep, CancelFlags, CancelAll, AfterCancel, Goto
    <2>5. AllEnded
      BY <2>1, <2>2, <2>3, <2>4
      DEF CoordStep, EmitRoots, EmitEntry, HandleEnd, Join, Finish, Goto
    <2> QED BY <1>1, <2>5
  <1> QED BY <1>2, <1>3

(* shutdown() returns behind every worker: however the coordinator ends, it *)
(* has joined them all, and a worker that ended takes no further step.      *)
THEOREM WorkersAreJoined == Spec => []JoinedBeforeRelease
  <1>1. Init => JoinedBeforeRelease
    BY Roles DEF Init, JoinedBeforeRelease
  <1> QED BY <1>1, TypeInit, TypeNext, JoinNext, PTL DEF Spec

-----------------------------------------------------------------------------
(* A worker that streams is registered, so that CancelAll finds it, and one *)
(* that registers after the flags were set is turned away: a cancellation   *)
(* that is not under way any more has reached every stream.                 *)
CancelInv ==
  /\ \A w \in Workers : at[w] = "stream" => w \in controls
  /\ cancelled => \/ \E t \in Threads : at[t] = "cancelAll"
                  \/ \A w \in Workers : at[w] = "stream" => own[w].cancelled

(* A step that sets no flag, touches no control and brings no worker to its *)
(* stream.                                                                  *)
LEMMA CancelKept ==
  ASSUME CancelInv, cancelled' = cancelled, controls' = controls,
         \A w \in Workers : at'[w] = "stream" =>
           at[w] = "stream" /\ own'[w].cancelled = own[w].cancelled,
         \A t \in Threads : at[t] = "cancelAll" => at'[t] = "cancelAll"
  PROVE  CancelInv'
  BY DEF CancelInv

(* cancel(). *)
LEMMA CancelByCancel ==
  ASSUME InvTypes, CancelInv, NEW t \in Threads, CancelStep(t)
  PROVE  CancelInv'
  <1>0. at \in [Threads -> Pcs] /\ own \in [Workers -> Controls] /\ Workers \subseteq Threads
    BY Roles DEF InvTypes
  <1>1. CASE CancelFlags(t)
    <2>1. at'[t] = "cancelAll" /\ \A u \in Threads \ {t} : at'[u] = at[u]
      BY <1>0, <1>1 DEF CancelFlags, Goto
    <2>2. controls' = controls
      BY <1>1 DEF CancelFlags
    <2> QED BY <1>0, <2>1, <2>2 DEF CancelInv
  <1>2. CASE CancelAll(t)
    <2>1. at'[t] = AfterCancel(t) /\ \A u \in Threads \ {t} : at'[u] = at[u]
      BY <1>0, <1>2 DEF CancelAll, Goto
    <2>2. AfterCancel(t) # "stream"
      BY DEF AfterCancel
    <2>3. \A w \in Workers : at'[w] = "stream" => at[w] = "stream" /\ w \in controls
      BY <1>0, <2>1, <2>2 DEF CancelInv
    <2>4. \A w \in controls : own'[w].cancelled
      <3>1. \A w \in Workers : w \in controls => own'[w] = [own[w] EXCEPT !.cancelled = TRUE]
        BY <1>2 DEF CancelAll
      <3>2. \A w \in Workers : [own[w] EXCEPT !.cancelled = TRUE].cancelled
        BY <1>0, ControlType
      <3> QED BY <3>1, <3>2 DEF InvTypes
    <2>5. controls' = controls
      BY <1>2 DEF CancelAll
    <2> QED BY <2>3, <2>4, <2>5 DEF CancelInv
  <1> QED BY <1>1, <1>2 DEF CancelStep

(* run_inventory_worker. *)
LEMMA CancelByWorker ==
  ASSUME InvTypes, CancelInv, NEW w \in Workers, WorkerStep(w) \/ Panic(w)
  PROVE  CancelInv'
  <1>0. /\ at \in [Threads -> Pcs] /\ own \in [Workers -> Controls]
        /\ Workers \subseteq Threads /\ w \in Threads
    BY Roles DEF InvTypes
  <1>1. cancelled' = cancelled
    BY DEF WorkerStep, Panic, TakeRoot, StartStream, Register, ReadPaused, Insert,
           ForwardEntry, ForwardCompleted, ForwardError, StreamEnds, Close, CloseEarly, flags
  <1>2. \A u \in Threads \ {w} : at'[u] = at[u]
    BY <1>0
    DEF WorkerStep, Panic, TakeRoot, StartStream, Register, ReadPaused, Insert,
        ForwardEntry, ForwardCompleted, ForwardError, StreamEnds, Close, CloseEarly, Goto
  <1>3. at[w] # "cancelAll"
    BY DEF WorkerStep, Panic, TakeRoot, StartStream, Register, ReadPaused, Insert,
           ForwardEntry, ForwardCompleted, ForwardError, StreamEnds, Close, CloseEarly,
           Flowing
  <1>4. \A t \in Threads : at[t] = "cancelAll" => at'[t] = "cancelAll"
    BY <1>2, <1>3
  <1>5. CASE Insert(w) /\ ~ShouldStop
    <2>1. ~cancelled /\ controls' = controls \cup {w}
      BY <1>5 DEF Insert, ShouldStop
    <2> QED BY <1>0, <1>1, <1>2, <2>1 DEF CancelInv
  <1>6. CASE ForwardEntry(w)
    BY <1>1, <1>4, <1>6, CancelKept DEF ForwardEntry
  <1>7. CASE ~(Insert(w) /\ ~ShouldStop) /\ ~ForwardEntry(w)
    <2>1. at'[w] # "stream"
      BY <1>0, <1>7
      DEF WorkerStep, Panic, TakeRoot, StartStream, Register, ReadPaused, Insert,
          ForwardCompleted, ForwardError, StreamEnds, Close, CloseEarly, Goto
    <2>2. controls' \in {controls, controls \ {w}}
      BY <1>7 DEF WorkerStep, Panic, TakeRoot, StartStream, Register, ReadPaused, Insert,
                  ForwardCompleted, ForwardError, StreamEnds, Close, CloseEarly, Retire
    <2>3. \A v \in Workers \ {w} : own'[v] = own[v]
      BY <1>0, <1>7
      DEF WorkerStep, Panic, TakeRoot, StartStream, Register, ReadPaused, Insert,
          ForwardCompleted, ForwardError, StreamEnds, Close, CloseEarly, Retire
    <2> QED BY <1>0, <1>1, <1>2, <1>4, <2>1, <2>2, <2>3 DEF CancelInv
  <1> QED BY <1>5, <1>6, <1>7

(* run_coordinated_inventory. *)
LEMMA CancelByCoord ==
  ASSUME InvTypes, CancelInv, CoordStep
  PROVE  CancelInv'
  <1>0. at \in [Threads -> Pcs] /\ Workers \subseteq Threads /\ Coord \notin Workers
    BY Roles DEF InvTypes
  <1>1. cancelled' = cancelled /\ controls' = controls /\ own' = own
    BY DEF CoordStep, EmitRoots, EmitEntry, HandleEnd, Join, Finish, flags
  <1>2. \A t \in Threads \ {Coord} : at'[t] = at[t]
    BY <1>0 DEF CoordStep, EmitRoots, EmitEntry, HandleEnd, Join, Finish, Goto
  <1>3. at[Coord] # "cancelAll"
    BY DEF CoordStep, EmitRoots, EmitEntry, HandleEnd, Join, Finish
  <1> QED BY <1>0, <1>1, <1>2, <1>3, CancelKept

(* A call on the control cancels nobody by what it tells a worker. *)
LEMMA CallsSpareCancel ==
  ASSUME InvTypes, NEW c \in Callers, Store(c) \/ CallStep(c) \/ DropStream(c)
  PROVE  \A v \in Workers : own'[v].cancelled = own[v].cancelled
  <1>0. own \in [Workers -> Controls] /\ pacing \in Pacings
    BY DEF InvTypes
  <1>1. CASE UNCHANGED own
    BY <1>1
  <1>2. CASE Tell(c)
    <2>1. ASSUME NEW w \in todo[c],
                 own' = CASE at[c] = "pausing" -> [own EXCEPT ![w].paused = TRUE]
                          [] at[c] = "resuming" -> [own EXCEPT ![w].paused = FALSE]
                          [] at[c] = "pacing" -> [own EXCEPT ![w].pacing = pacing]
          PROVE  \A v \in Workers : own'[v].cancelled = own[v].cancelled
      <3>1. w \in Workers
        BY <2>1 DEF InvTypes
      <3>2. /\ [own[w] EXCEPT !.paused = TRUE].cancelled = own[w].cancelled
            /\ [own[w] EXCEPT !.paused = FALSE].cancelled = own[w].cancelled
            /\ [own[w] EXCEPT !.pacing = pacing].cancelled = own[w].cancelled
        BY <1>0, <3>1, ControlType
      <3>3. own'[w] \in {[own[w] EXCEPT !.paused = TRUE], [own[w] EXCEPT !.paused = FALSE],
                         [own[w] EXCEPT !.pacing = pacing]}
        BY <1>0, <1>2, <2>1, <3>1 DEF Tell
      <3>4. \A v \in Workers \ {w} : own'[v] = own[v]
        BY <1>0, <1>2, <2>1, <3>1 DEF Tell
      <3> QED BY <3>2, <3>3, <3>4
    <2> QED BY <1>1, <1>2, <2>1 DEF Tell
  <1> QED BY <1>1, <1>2 DEF Store, CallStep, Snapshot, DropStream

(* The calls on the control change a pause or a pacing. *)
LEMMA CancelByCall ==
  ASSUME InvTypes, CancelInv, NEW c \in Callers, Store(c) \/ CallStep(c) \/ DropStream(c)
  PROVE  CancelInv'
  <1>0. at \in [Threads -> Pcs] /\ Workers \subseteq Threads /\ c \notin Workers
    BY Roles DEF InvTypes
  <1>1. cancelled' = cancelled /\ controls' = controls
    BY DEF Store, CallStep, Snapshot, Tell, DropStream, flags
  <1>2. \A t \in Threads \ {c} : at'[t] = at[t]
    BY <1>0 DEF Store, CallStep, Snapshot, Tell, DropStream, Goto
  <1>3. at[c] # "cancelAll"
    BY DEF Store, CallStep, Snapshot, Tell, DropStream, Begun
  <1>4. \A v \in Workers : own'[v].cancelled = own[v].cancelled
    BY CallsSpareCancel
  <1> QED BY <1>0, <1>1, <1>2, <1>3, <1>4, CancelKept

(* Every step keeps the invariant. *)
LEMMA CancelNext == InvTypes /\ CancelInv /\ [Next]_vars => CancelInv'
  <1> SUFFICES ASSUME InvTypes, CancelInv, [Next]_vars PROVE CancelInv'
    OBVIOUS
  <1>1. CASE UNCHANGED vars
    BY <1>1, CancelKept DEF vars, flags
  <1> QED BY <1>1, CancelByCancel, CancelByWorker, CancelByCoord, CancelByCall DEF Next

(* A cancellation reaches every worker, also one that was about to register *)
(* when the flags were set: register() looks at them again under the lock   *)
(* under which cancel() reads the controls.                                 *)
THEOREM CancellationIsShared == Spec => []CancelReachesWorkers
  <1>1. Init => CancelInv
    BY Roles DEF Init, CancelInv
  <1>2. CancelInv => CancelReachesWorkers
    BY DEF CancelInv, CancelReachesWorkers, Cancelling
  <1> QED BY <1>1, <1>2, TypeInit, TypeNext, CancelNext, PTL DEF Spec

(* The types hold in every reachable state. *)
THEOREM InventoryTyping == Spec => []TypeOK
  BY TypeInit, TypeNext, TypesAreTypeOK, PTL DEF Spec

-----------------------------------------------------------------------------
(* Nothing is missed.  Until something is lost -- a cancellation, a failure  *)
(* on its way, a panic -- every reachable item is sent on, cut off by a      *)
(* truncation, in the channel, yet to be sent by a running worker, below a   *)
(* root nobody took, or on the root page that is still to come.  A worker    *)
(* ends only when no root is left, so when all have ended and the channel is *)
(* empty every item was sent on or cut off.                                  *)
Active == {"start", "register", "readPaused", "insert", "stream", "closeEarly"}

InChan(i) == \E k \in 1..Len(chan) : chan[k].kind = "entry" /\ chan[k].item = i

Failed == \E k \in 1..Len(chan) : Fatal(chan[k])

Lost ==
  \/ cancelled \/ out = "error" \/ at[Coord] = "cancel" \/ Failed
  \/ \E w \in Workers : at[w] = "panicked"

Accounted(i) ==
  \/ i \in seen \/ i \in cut \/ InChan(i)
  \/ \E w \in Workers : at[w] \in Active /\ i \in left[w]
  \/ \E r \in queue : i \in Below[r]
  \/ at[Coord] = "roots" /\ i \in RootEntries

(* Who stops has a reason, and the terminal event comes last. *)
ReasonInv ==
  /\ \A t \in Threads : at[t] = "cancelAll" => cancelled
  /\ \A w \in Workers : own[w].cancelled => cancelled
  /\ stopping => cancelled \/ AllEnded
  /\ at[Coord] = "roots" => seen = {}
  /\ at[Coord] \in {"roots", "loop"} => out = "none"
  /\ at[Coord] \in {"cancel", "cancelAll"} => out \in {"none", "error"}

WholeInv ==
  /\ ReasonInv
  /\ \A w \in Workers : at[w] = "ended" => queue = {} \/ Lost
  /\ Lost \/ \A i \in Reachable : Accounted(i)
  /\ CompleteMissesOnlyCuts

(* A message sent is in the channel, behind the others. *)
LEMMA SentIsThere ==
  ASSUME InvTypes, NEW m \in Message, Send(m)
  PROVE  /\ \A i : InChan(i) => InChan(i)'
         /\ Failed => Failed'
         /\ Fatal(m) => Failed'
         /\ m.kind = "entry" => InChan(m.item)'
  <1>1. /\ chan' \in Seq(Message) /\ Len(chan') = Len(chan) + 1 /\ Len(chan) \in Nat
        /\ chan'[Len(chan) + 1] = m /\ \A k \in 1..Len(chan) : chan'[k] = chan[k]
    BY SendType DEF InvTypes
  <1>2. \A k \in 1..Len(chan) : k \in 1..Len(chan') /\ chan'[k] = chan[k]
    BY <1>1
  <1>3. Len(chan) + 1 \in 1..Len(chan') /\ chan'[Len(chan) + 1] = m
    BY <1>1
  <1>4. \A i : InChan(i) => InChan(i)'
    BY <1>2 DEF InChan
  <1>5. Failed => Failed'
    BY <1>2 DEF Failed, Fatal
  <1>6. Fatal(m) => Failed'
    BY <1>3 DEF Failed, Fatal
  <1>7. m.kind = "entry" => InChan(m.item)'
    BY <1>3 DEF InChan
  <1> QED BY <1>4, <1>5, <1>6, <1>7

(* Only the first message leaves it. *)
LEMMA ReceivedIsFirst ==
  ASSUME InvTypes, chan # <<>>, chan' = Tail(chan)
  PROVE  /\ \A i : InChan(i) => \/ InChan(i)'
                                \/ Head(chan).kind = "entry" /\ Head(chan).item = i
         /\ Failed => Failed' \/ Fatal(Head(chan))
  <1>1. /\ chan' \in Seq(Message) /\ Len(chan') = Len(chan) - 1 /\ Len(chan) \in Nat
        /\ Head(chan) = chan[1] /\ \A k \in 1..Len(chan') : chan'[k] = chan[k + 1]
    BY ReceiveType DEF InvTypes
  <1>2. \A k \in 1..Len(chan) : k = 1 \/ (k - 1 \in 1..Len(chan') /\ chan'[k - 1] = chan[k])
    BY <1>1
  <1>3. \A k \in 1..Len(chan) :
          k = 1 \/ \E j \in 1..Len(chan') : chan'[j] = chan[k]
    BY <1>2
  <1>4. ASSUME NEW i, InChan(i)
        PROVE  InChan(i)' \/ (Head(chan).kind = "entry" /\ Head(chan).item = i)
    <2>1. PICK k \in 1..Len(chan) : chan[k].kind = "entry" /\ chan[k].item = i
      BY <1>4 DEF InChan
    <2>2. CASE k = 1
      BY <1>1, <2>1, <2>2
    <2>3. CASE k # 1
      <3>1. PICK j \in 1..Len(chan') : chan'[j] = chan[k]
        BY <1>3, <2>3
      <3> QED BY <2>1, <3>1 DEF InChan
    <2> QED BY <2>2, <2>3
  <1>5. ASSUME Failed PROVE Failed' \/ Fatal(Head(chan))
    <2>1. PICK k \in 1..Len(chan) : Fatal(chan[k])
      BY <1>5 DEF Failed
    <2> QED BY <1>1, <1>3, <2>1 DEF Failed, Fatal
  <1> QED BY <1>4, <1>5

(* What a worker's step leaves alone. *)
LEMMA WorkerFrame ==
  ASSUME InvTypes, NEW w \in Workers, WorkerStep(w) \/ Panic(w)
  PROVE  /\ cancelled' = cancelled /\ stopping' = stopping /\ seen' = seen /\ out' = out
         /\ at'[Coord] = at[Coord]
         /\ \A t \in Threads \ {w} : at'[t] = at[t]
         /\ at'[w] # "cancelAll" /\ at[w] \notin Ended
         /\ \A v \in Workers : own'[v].cancelled => own[v].cancelled
  <1>0. /\ at \in [Threads -> Pcs] /\ own \in [Workers -> Controls] /\ pacing \in Pacings
        /\ paused \in BOOLEAN /\ w \in Threads /\ w # Coord /\ Coord \in Threads
    BY Roles DEF InvTypes
  <1>1. cancelled' = cancelled /\ stopping' = stopping /\ seen' = seen /\ out' = out
    BY DEF WorkerStep, Panic, TakeRoot, StartStream, Register, ReadPaused, Insert,
           ForwardEntry, ForwardCompleted, ForwardError, StreamEnds, Close, CloseEarly, flags
  <1>2. \A t \in Threads \ {w} : at'[t] = at[t]
    BY <1>0
    DEF WorkerStep, Panic, TakeRoot, StartStream, Register, ReadPaused, Insert,
        ForwardEntry, ForwardCompleted, ForwardError, StreamEnds, Close, CloseEarly, Goto
  <1>3. at'[w] # "cancelAll" /\ at[w] \notin Ended
    BY <1>0
    DEF WorkerStep, Panic, TakeRoot, StartStream, Register, ReadPaused, Insert, ForwardEntry,
        ForwardCompleted, ForwardError, StreamEnds, Close, CloseEarly, Goto, Flowing, Ended
  <1>4. \A v \in Workers : own'[v].cancelled => own[v].cancelled
    <2>1. CASE UNCHANGED own
      BY <2>1
    <2>2. CASE Retire(w)
      <3>1. own'[w] = Fresh /\ \A v \in Workers \ {w} : own'[v] = own[v]
        BY <2>2, RetireType
      <3> QED BY <3>1 DEF Fresh
    <2>3. CASE \/ own' = [own EXCEPT ![w].pacing = pacing]
               \/ own' = [own EXCEPT ![w].paused = paused]
      <3>1. /\ own'[w] \in {[own[w] EXCEPT !.pacing = pacing], [own[w] EXCEPT !.paused = paused]}
            /\ \A v \in Workers \ {w} : own'[v] = own[v]
        BY <1>0, <2>3
      <3>2. /\ [own[w] EXCEPT !.pacing = pacing].cancelled = own[w].cancelled
            /\ [own[w] EXCEPT !.paused = paused].cancelled = own[w].cancelled
        BY <1>0, ControlType
      <3> QED BY <3>1, <3>2
    <2> QED BY <2>1, <2>2, <2>3
        DEF WorkerStep, Panic, TakeRoot, StartStream, Register, ReadPaused, Insert,
            ForwardEntry, ForwardCompleted, ForwardError, StreamEnds, Close, CloseEarly
  <1> QED BY <1>0, <1>1, <1>2, <1>3, <1>4

(* What a caller's step leaves alone. *)
LEMMA CallFrame ==
  ASSUME InvTypes, NEW c \in Callers, Store(c) \/ CallStep(c) \/ DropStream(c)
  PROVE  /\ cancelled' = cancelled /\ stopping' = stopping /\ queue' = queue /\ left' = left
         /\ chan' = chan /\ seen' = seen /\ out' = out /\ cut' = cut
         /\ \A t \in Threads \ {c} : at'[t] = at[t]
         /\ c # Coord /\ c \notin Workers /\ at'[c] # "cancelAll"
  <1>0. at \in [Threads -> Pcs] /\ c \in Threads /\ c # Coord /\ c \notin Workers
    BY Roles DEF InvTypes
  <1>1. /\ cancelled' = cancelled /\ stopping' = stopping /\ queue' = queue /\ left' = left
        /\ chan' = chan /\ seen' = seen /\ out' = out /\ cut' = cut
    BY DEF Store, CallStep, Snapshot, Tell, DropStream, flags
  <1>2. \A t \in Threads \ {c} : at'[t] = at[t]
    BY <1>0 DEF Store, CallStep, Snapshot, Tell, DropStream, Goto
  <1>3. at'[c] # "cancelAll"
    BY <1>0 DEF Store, CallStep, Snapshot, Tell, DropStream, Goto, Begun
  <1> QED BY <1>0, <1>1, <1>2, <1>3

(* Every step keeps the reasons. *)
LEMMA ReasonNext ==
  ASSUME InvTypes, ReasonInv, [Next]_vars
  PROVE  ReasonInv'
  <1>0. /\ at \in [Threads -> Pcs] /\ own \in [Workers -> Controls] /\ Coord \in Threads
        /\ Coord \notin Workers /\ Workers \subseteq Threads
    BY Roles DEF InvTypes
  <1>1. AllEnded => AllEnded'
    BY EndIsFinal DEF AllEnded
  <1>2. CASE UNCHANGED vars
    BY <1>2 DEF vars, flags, ReasonInv, AllEnded
  <1>3. ASSUME NEW t \in Threads, CancelFlags(t) PROVE ReasonInv'
    <2>1. /\ cancelled' /\ seen' = seen /\ out' = out /\ at[t] = "cancel"
          /\ at'[t] = "cancelAll" /\ \A u \in Threads \ {t} : at'[u] = at[u]
      BY <1>0, <1>3 DEF CancelFlags, Goto
    <2> QED BY <1>0, <2>1 DEF ReasonInv
  <1>4. ASSUME NEW t \in Threads, CancelAll(t) PROVE ReasonInv'
    <2>1. /\ cancelled /\ cancelled' /\ seen' = seen /\ out' = out /\ at[t] = "cancelAll"
          /\ at'[t] = AfterCancel(t) /\ \A u \in Threads \ {t} : at'[u] = at[u]
      BY <1>0, <1>4 DEF CancelAll, Goto, flags, ReasonInv
    <2>2. AfterCancel(t) \notin {"roots", "cancel", "cancelAll"}
      BY DEF AfterCancel
    <2>3. t = Coord => AfterCancel(t) = IF out = "error" THEN "join" ELSE "loop"
      BY <1>0 DEF AfterCancel
    <2>4. t = Coord => out \in {"none", "error"}
      BY <2>1 DEF ReasonInv
    <2> QED BY <1>0, <2>1, <2>2, <2>3, <2>4 DEF ReasonInv
  <1>5. ASSUME NEW w \in Workers, WorkerStep(w) \/ Panic(w) PROVE ReasonInv'
    BY <1>0, <1>1, <1>5, WorkerFrame DEF ReasonInv
  <1>6. ASSUME CoordStep PROVE ReasonInv'
    <2>1. cancelled' = cancelled /\ own' = own
      BY <1>6 DEF CoordStep, EmitRoots, EmitEntry, HandleEnd, Join, Finish, flags
    <2>2. (\A t \in Threads \ {Coord} : at'[t] = at[t]) /\ at'[Coord] \notin {"roots", "cancelAll"}
      BY <1>0, <1>6 DEF CoordStep, EmitRoots, EmitEntry, HandleEnd, Join, Finish, Goto
    <2>3. stopping' = stopping \/ AllEnded
      BY <1>6 DEF CoordStep, EmitRoots, EmitEntry, HandleEnd, Join, Finish, flags
    <2>4. /\ at'[Coord] = "loop" => out' = "none"
          /\ at'[Coord] = "cancel" => out' \in {"none", "error"}
      BY <1>0, <1>6
      DEF CoordStep, EmitRoots, EmitEntry, HandleEnd, Join, Finish, Goto, ReasonInv
    <2> QED BY <1>0, <1>1, <2>1, <2>2, <2>3, <2>4 DEF ReasonInv
  <1>7. ASSUME NEW c \in Callers, Store(c) \/ CallStep(c) \/ DropStream(c) PROVE ReasonInv'
    BY <1>0, <1>1, <1>7, CallFrame, CallsSpareCancel DEF ReasonInv
  <1> QED BY <1>2, <1>3, <1>4, <1>5, <1>6, <1>7 DEF Next, CancelStep

(* A worker only adds to the channel. *)
LEMMA WorkerSends ==
  ASSUME InvTypes, NEW w \in Workers, WorkerStep(w) \/ Panic(w)
  PROVE  (\A i : InChan(i) => InChan(i)') /\ (Failed => Failed')
  <1>1. chan' = chan \/ \E m \in Message : Send(m)
    <2>1. left[w] \subseteq Items
      BY DEF InvTypes
    <2>2. CASE ForwardEntry(w)
      BY <2>1, <2>2, Messages DEF ForwardEntry
    <2>3. CASE ForwardCompleted(w)
      BY <2>3, Messages DEF ForwardCompleted
    <2>4. CASE chan' = chan \/ Send([kind |-> "failed"])
      BY <2>4, Messages
    <2> QED BY <2>2, <2>3, <2>4
        DEF WorkerStep, Panic, TakeRoot, StartStream, Register, ReadPaused, Insert,
            ForwardError, StreamEnds, Close, CloseEarly
  <1>2. CASE chan' = chan
    BY <1>2 DEF InChan, Failed, Fatal
  <1>3. CASE \E m \in Message : Send(m)
    BY <1>3, SentIsThere
  <1> QED BY <1>1, <1>2, <1>3

(* What is lost stays lost: a cancellation is never taken back, a failure in *)
(* the channel reaches the terminal event.                                   *)
LEMMA LostStays ==
  ASSUME InvTypes, ReasonInv, [Next]_vars, Lost
  PROVE  Lost'
  <1>0. /\ at \in [Threads -> Pcs] /\ Coord \in Threads /\ Workers \subseteq Threads
        /\ Coord \notin Workers
    BY Roles DEF InvTypes
  <1>1. CASE \E w \in Workers : at[w] = "panicked"
    BY <1>1, EndIsFinal DEF Lost, Ended
  <1>2. CASE UNCHANGED vars
    BY <1>2 DEF vars, flags, Lost, Failed, Fatal
  <1>3. ASSUME NEW t \in Threads, CancelStep(t), ~(\E w \in Workers : at[w] = "panicked")
        PROVE  Lost'
    <2>1. CASE CancelFlags(t)
      BY <2>1 DEF CancelFlags, Lost
    <2>2. CASE CancelAll(t)
      BY <2>2 DEF CancelAll, flags, ReasonInv, Lost
    <2> QED BY <1>3, <2>1, <2>2 DEF CancelStep
  <1>4. ASSUME NEW w \in Workers, WorkerStep(w) \/ Panic(w),
               ~(\E v \in Workers : at[v] = "panicked")
        PROVE  Lost'
    BY <1>4, WorkerFrame, WorkerSends DEF Lost
  <1>5. ASSUME CoordStep, ~(\E w \in Workers : at[w] = "panicked") PROVE Lost'
    <2>1. CASE cancelled
      BY <1>5, <2>1 DEF CoordStep, EmitRoots, EmitEntry, HandleEnd, Join, Finish, flags, Lost
    <2>2. CASE EmitRoots \/ Join
      BY <1>5, <2>2 DEF EmitRoots, Join, flags, Lost, Failed, Fatal
    <2>3. CASE EmitEntry
      <3>1. ~Fatal(Head(chan)) /\ out' = out /\ at[Coord] = "loop" /\ cancelled' = cancelled
        BY <2>3 DEF EmitEntry, Fatal, flags
      <3>2. Failed => Failed'
        BY <2>3, <3>1, ReceivedIsFirst DEF EmitEntry
      <3> QED BY <1>5, <3>1, <3>2 DEF Lost
    <2>4. CASE HandleEnd
      <3>1. CASE Fatal(Head(chan))
        BY <2>4, <3>1 DEF HandleEnd, Lost
      <3>2. CASE ~Fatal(Head(chan))
        <4>1. out' = out /\ at' = at /\ cancelled' = cancelled
          BY <2>4, <3>2 DEF HandleEnd, flags
        <4>2. Failed => Failed'
          BY <2>4, <3>2, ReceivedIsFirst DEF HandleEnd
        <4> QED BY <1>5, <4>1, <4>2 DEF Lost
      <3> QED BY <3>1, <3>2
    <2>5. CASE Finish
      <3>1. chan = <<>> /\ out = "none" /\ at[Coord] = "loop"
        BY <2>5 DEF Finish, ReasonInv
      <3>2. ~Failed
        BY <3>1 DEF Failed
      <3> QED BY <1>5, <2>1, <3>1, <3>2 DEF Lost
    <2> QED BY <1>5, <2>2, <2>3, <2>4, <2>5 DEF CoordStep
  <1>6. ASSUME NEW c \in Callers, Store(c) \/ CallStep(c) \/ DropStream(c),
               ~(\E w \in Workers : at[w] = "panicked")
        PROVE  Lost'
    <2>1. /\ cancelled' = cancelled /\ chan' = chan /\ out' = out /\ at'[Coord] = at[Coord]
      BY <1>0, <1>6, CallFrame
    <2>2. Failed => Failed'
      BY <2>1 DEF Failed, Fatal
    <2> QED BY <1>6, <2>1, <2>2 DEF Lost
  <1> QED BY <1>1, <1>2, <1>3, <1>4, <1>5, <1>6 DEF Next

(* A running worker that sees a reason to stop has seen a cancellation. *)
LEMMA StopIsCancel ==
  ASSUME InvTypes, ReasonInv, NEW w \in Workers, at[w] \notin Ended, ShouldStop
  PROVE  cancelled /\ Lost
  BY DEF ReasonInv, ShouldStop, AllEnded, Lost

(* A worker ends when no root is left, or when something is lost. *)
LEMMA EndedNext ==
  ASSUME InvTypes, ReasonInv, [Next]_vars,
         \A w \in Workers : at[w] = "ended" => queue = {} \/ Lost
  PROVE  \A w \in Workers : at'[w] = "ended" => queue' = {} \/ Lost'
  <1> SUFFICES ASSUME NEW w \in Workers, at'[w] = "ended", ~Lost'
               PROVE  queue' = {}
    OBVIOUS
  <1>0. /\ at \in [Threads -> Pcs] /\ w \in Threads /\ w # Coord /\ w \notin Callers
        /\ queue \in SUBSET WorkerRoots /\ ~Lost
    BY Roles, LostStays DEF InvTypes
  <1>1. queue' \subseteq queue
    BY DEF Next, vars, CancelStep, CancelFlags, CancelAll, WorkerStep, Panic, TakeRoot,
           StartStream, Register, ReadPaused, Insert, ForwardEntry, ForwardCompleted,
           ForwardError, StreamEnds, Close, CloseEarly, CoordStep, EmitRoots, EmitEntry,
           HandleEnd, Join, Finish, Store, CallStep, Snapshot, Tell, DropStream
  <1>2. CASE at[w] = "ended"
    BY <1>0, <1>1, <1>2
  <1>3. CASE at[w] # "ended"
    <2>1. CancelStep(w) \/ WorkerStep(w) \/ Panic(w)
      BY <1>0, <1>3, WhoMoves
    <2>2. ~CancelStep(w)
      BY <1>0 DEF CancelStep, CancelFlags, CancelAll, AfterCancel, Goto
    <2>3. ~ShouldStop
      <3>1. at[w] \notin Ended
        BY <2>1, <2>2, WorkerFrame
      <3> QED BY <1>0, <3>1, StopIsCancel
    <2>4. queue = {}
      BY <1>0, <2>1, <2>2, <2>3
      DEF WorkerStep, Panic, TakeRoot, StartStream, Register, ReadPaused, Insert, ForwardEntry,
          ForwardCompleted, ForwardError, StreamEnds, Close, CloseEarly, Goto, Flowing
    <2> QED BY <1>1, <2>4
  <1> QED BY <1>2, <1>3

(* The step of a worker loses no item silently: what it takes from the queue *)
(* it has yet to send, what it sends is in the channel, and where it gives   *)
(* up a stream that is not at its end it says so or was cancelled.           *)
LEMMA AccountByWorker ==
  ASSUME InvTypes, ReasonInv, NEW w \in Workers, WorkerStep(w) \/ Panic(w),
         ~Lost', ~Lost, NEW i, Accounted(i)
  PROVE  Accounted(i)'
  <1>0. /\ at \in [Threads -> Pcs] /\ left \in [Workers -> SUBSET Items]
        /\ Workers \subseteq Threads /\ queue \in SUBSET WorkerRoots
    BY Roles DEF InvTypes
  <1>1. /\ seen' = seen /\ at'[Coord] = at[Coord] /\ at[w] \notin Ended
        /\ \A v \in Workers \ {w} : at'[v] = at[v]
    BY <1>0, WorkerFrame
  <1>2. InChan(i) => InChan(i)'
    BY WorkerSends
  <1>3. ~ShouldStop /\ ~cancelled
    BY <1>1, StopIsCancel DEF Lost
  <1>9. cut \subseteq cut'
    BY DEF WorkerStep, Panic, TakeRoot, StartStream, Register, ReadPaused, Insert, ForwardEntry,
           ForwardCompleted, ForwardError, StreamEnds, Close, CloseEarly
  <1>4. \A v \in Workers \ {w} : left'[v] = left[v]
    BY <1>0
    DEF WorkerStep, Panic, TakeRoot, StartStream, Register, ReadPaused, Insert, ForwardEntry,
        ForwardCompleted, ForwardError, StreamEnds, Close, CloseEarly, Retire
  <1>5. ~Send([kind |-> "failed"])
    <2>1. [kind |-> "failed"] \in Message /\ Fatal([kind |-> "failed"])
      BY Messages DEF Fatal
    <2> QED BY <2>1, SentIsThere DEF Lost
  <1>6. CASE TakeRoot(w)
    <2>1. at[w] = "loop" /\ "loop" \notin Active /\ "start" \in Active
      BY <1>6 DEF TakeRoot, Active
    <2>2. CASE at'[w] = "start" /\ \E r \in queue :
                 queue' = queue \ {r} /\ left' = [left EXCEPT ![w] = Below[r]]
      <3>1. PICK r \in queue : queue' = queue \ {r} /\ left' = [left EXCEPT ![w] = Below[r]]
        BY <2>2
      <3>2. left'[w] = Below[r]
        BY <1>0, <3>1
      <3> QED BY <1>1, <1>2, <1>4, <1>9, <2>1, <2>2, <3>1, <3>2 DEF Accounted
    <2>3. CASE queue' = queue /\ left' = left
      BY <1>1, <1>2, <1>4, <1>9, <2>1, <2>3 DEF Accounted
    <2> QED BY <1>0, <1>6, <2>2, <2>3 DEF TakeRoot, Goto
  <1>7. CASE ~TakeRoot(w)
    <2>1. queue' = queue
      BY <1>7
      DEF WorkerStep, Panic, StartStream, Register, ReadPaused, Insert, ForwardEntry,
          ForwardCompleted, ForwardError, StreamEnds, Close, CloseEarly
    <2>2. SUFFICES ASSUME at[w] \in Active, i \in left[w]
                   PROVE  InChan(i)' \/ i \in cut' \/ (at'[w] \in Active /\ i \in left'[w])
      BY <1>1, <1>2, <1>4, <1>9, <2>1 DEF Accounted
    <2>3. CASE ForwardEntry(w)
      <3>1. PICK j \in left[w] : /\ Send([kind |-> "entry", item |-> j])
                                 /\ left' = [left EXCEPT ![w] = @ \ {j}]
        BY <2>3 DEF ForwardEntry
      <3>2. at' = at
        BY <2>3 DEF ForwardEntry
      <3>3. j = i => InChan(i)'
        <4>1. PICK m \in Message : m = [kind |-> "entry", item |-> j]
          BY <1>0, <3>1, Messages
        <4>2. m.kind = "entry" /\ m.item = j /\ Send(m)
          BY <3>1, <4>1
        <4> QED BY <4>2, SentIsThere
      <3>4. j # i => i \in left'[w]
        BY <1>0, <2>2, <3>1
      <3> QED BY <2>2, <3>2, <3>3, <3>4
    <2>4. CASE ForwardCompleted(w)
      <3>1. PICK result \in Results :
              /\ result = "complete" => left[w] = {}
              /\ result = "cancelled" => own[w].cancelled
              /\ result = "truncated" => Truncates
              /\ result = "incomplete" => Faults
              /\ Send([kind |-> "completed", result |-> result])
              /\ cut' = IF result = "truncated" THEN cut \cup left[w] ELSE cut
        BY <2>4 DEF ForwardCompleted
      <3>2. result = "incomplete" \/ i \in cut'
        BY <1>3, <2>2, <3>1 DEF Results, ReasonInv
      <3>3. PICK m \in Message : m = [kind |-> "completed", result |-> result]
        BY Messages
      <3>4. result = "incomplete" => Fatal(m) /\ Send(m)
        BY <3>1, <3>3 DEF Fatal
      <3> QED BY <3>2, <3>4, SentIsThere DEF Lost
    <2>5. CASE ~ForwardEntry(w) /\ ~ForwardCompleted(w)
      <3>1. at'[w] # "panicked"
        BY DEF Lost
      <3>2. /\ left' = left
            /\ at'[w] \in {"register", "readPaused", "insert", "stream", "closeEarly"}
        BY <1>0, <1>3, <1>5, <1>7, <2>2, <2>5, <3>1
        DEF WorkerStep, Panic, StartStream, Register, ReadPaused, Insert,
            ForwardError, StreamEnds, Close, CloseEarly, Goto, Active
      <3> QED BY <2>2, <3>2 DEF Active
    <2> QED BY <2>3, <2>4, <2>5
  <1> QED BY <1>6, <1>7

(* The coordinator sends on what it takes from the channel. *)
LEMMA AccountByCoord ==
  ASSUME InvTypes, ReasonInv, CoordStep, ~Lost', NEW i, Accounted(i)
  PROVE  Accounted(i)'
  <1>0. /\ at \in [Threads -> Pcs] /\ Coord \in Threads /\ Coord \notin Workers
        /\ Workers \subseteq Threads
    BY Roles DEF InvTypes
  <1>1. /\ queue' = queue /\ left' = left /\ cut' = cut
        /\ \A w \in Workers : at'[w] = at[w]
    BY <1>0 DEF CoordStep, EmitRoots, EmitEntry, HandleEnd, Join, Finish, Goto
  <1>2. CASE EmitRoots
    <2>1. at'[Coord] # "cancel"
      BY DEF Lost
    <2>2. open \/ RootEntries = {}
      BY <1>0, <1>2, <2>1 DEF EmitRoots, Goto
    <2>3. seen = {} /\ RootEntries \subseteq seen' /\ chan' = chan
      BY <1>2, <2>2 DEF EmitRoots, ReasonInv
    <2>4. InChan(i) => InChan(i)'
      BY <2>3 DEF InChan
    <2> QED BY <1>1, <2>3, <2>4 DEF Accounted
  <1>3. CASE EmitEntry
    <2>1. /\ chan # <<>> /\ chan' = Tail(chan) /\ seen' = seen \cup {Head(chan).item}
          /\ at[Coord] = "loop"
      BY <1>3 DEF EmitEntry
    <2>2. InChan(i) => InChan(i)' \/ i \in seen'
      BY <2>1, ReceivedIsFirst
    <2> QED BY <1>1, <2>1, <2>2 DEF Accounted
  <1>4. CASE HandleEnd
    <2>1. /\ chan # <<>> /\ chan' = Tail(chan) /\ seen' = seen /\ at[Coord] = "loop"
          /\ Head(chan).kind # "entry"
      BY <1>4 DEF HandleEnd
    <2>2. InChan(i) => InChan(i)'
      BY <2>1, ReceivedIsFirst
    <2> QED BY <1>1, <2>1, <2>2 DEF Accounted
  <1>5. CASE Join \/ Finish
    <2>1. chan' = chan /\ seen' = seen /\ at[Coord] # "roots"
      BY <1>5 DEF Join, Finish
    <2>2. InChan(i) => InChan(i)'
      BY <2>1 DEF InChan
    <2> QED BY <1>1, <2>1, <2>2 DEF Accounted
  <1> QED BY <1>2, <1>3, <1>4, <1>5 DEF CoordStep

(* Every step accounts for every item, or something is lost. *)
LEMMA AccountNext ==
  ASSUME InvTypes, ReasonInv, [Next]_vars,
         Lost \/ \A i \in Reachable : Accounted(i)
  PROVE  Lost' \/ \A i \in Reachable : Accounted(i)'
  <1> SUFFICES ASSUME ~Lost', NEW i \in Reachable PROVE Accounted(i)'
    OBVIOUS
  <1>0. ~Lost /\ Accounted(i)
    BY LostStays
  <1>1. CASE UNCHANGED vars
    BY <1>0, <1>1 DEF vars, flags, Accounted, InChan
  <1>2. ASSUME NEW t \in Threads, CancelStep(t) PROVE FALSE
    BY <1>0, <1>2 DEF CancelStep, CancelFlags, CancelAll, flags, ReasonInv, Lost
  <1>3. ASSUME NEW c \in Callers, Store(c) \/ CallStep(c) \/ DropStream(c)
        PROVE  Accounted(i)'
    <2>1. /\ queue' = queue /\ left' = left /\ chan' = chan /\ seen' = seen /\ cut' = cut
          /\ at'[Coord] = at[Coord] /\ \A w \in Workers : at'[w] = at[w]
      BY <1>3, CallFrame, Roles
    <2>2. InChan(i) => InChan(i)'
      BY <2>1 DEF InChan
    <2> QED BY <1>0, <2>1, <2>2 DEF Accounted
  <1> QED BY <1>0, <1>1, <1>2, <1>3, AccountByWorker, AccountByCoord DEF Next

(* The coordinator calls complete only what is whole. *)
LEMMA CompleteNext ==
  ASSUME InvTypes, WholeInv, [Next]_vars
  PROVE  CompleteMissesOnlyCuts'
  <1> SUFFICES ASSUME out' = "complete" PROVE Reachable \ cut' \subseteq seen'
    BY DEF CompleteMissesOnlyCuts
  <1>1. CASE Finish
    <2>1. /\ at[Coord] = "loop" /\ chan = <<>> /\ AllEnded /\ ~cancelled /\ seen' = seen
          /\ cut' = cut
          /\ ~(\E w \in Workers : at[w] = "panicked")
      BY <1>1 DEF Finish
    <2>2. ~Failed /\ \A i : ~InChan(i)
      BY <2>1 DEF Failed, InChan
    <2>3. ~Lost
      BY <2>1, <2>2 DEF Lost, WholeInv, ReasonInv
    <2>4. PICK w \in Workers : TRUE
      BY InventoryAssumption
    <2>5. \A v \in Workers : at[v] = "ended" /\ at[v] \notin Active
      BY <2>1 DEF AllEnded, Ended, Active
    <2>6. queue = {}
      BY <2>3, <2>4, <2>5 DEF WholeInv
    <2>7. \A i \in Reachable : i \in seen \/ i \in cut
      BY <2>1, <2>2, <2>3, <2>5, <2>6 DEF WholeInv, Accounted
    <2> QED BY <2>1, <2>7
  <1>2. CASE ~Finish
    <2>1. out = "complete"
      BY <1>2
      DEF Next, vars, CancelStep, CancelFlags, CancelAll, WorkerStep, Panic, TakeRoot,
          StartStream, Register, ReadPaused, Insert, ForwardEntry, ForwardCompleted,
          ForwardError, StreamEnds, Close, CloseEarly, CoordStep, EmitRoots, EmitEntry,
          HandleEnd, Join, Store, CallStep, Snapshot, Tell, DropStream
    <2>2. at[Coord] \notin {"roots", "loop"}
      BY <2>1 DEF WholeInv, ReasonInv
    <2>3. seen' = seen
      BY <1>2, <2>2
      DEF Next, vars, CancelStep, CancelFlags, CancelAll, WorkerStep, Panic, TakeRoot,
          StartStream, Register, ReadPaused, Insert, ForwardEntry, ForwardCompleted,
          ForwardError, StreamEnds, Close, CloseEarly, CoordStep, EmitRoots, EmitEntry,
          HandleEnd, Join, Store, CallStep, Snapshot, Tell, DropStream
    <2>4. cut \subseteq cut'
      BY <1>2
      DEF Next, vars, CancelStep, CancelFlags, CancelAll, WorkerStep, Panic, TakeRoot,
          StartStream, Register, ReadPaused, Insert, ForwardEntry, ForwardCompleted,
          ForwardError, StreamEnds, Close, CloseEarly, CoordStep, EmitRoots, EmitEntry,
          HandleEnd, Join, Store, CallStep, Snapshot, Tell, DropStream
    <2> QED BY <2>1, <2>3, <2>4 DEF WholeInv, CompleteMissesOnlyCuts
  <1> QED BY <1>1, <1>2

(* At the start everything reachable is below an untaken root or on the root *)
(* page.                                                                     *)
LEMMA WholeInit ==
  ASSUME Init
  PROVE  WholeInv
  <1>1. /\ Coord \in Threads /\ Coord \notin Workers /\ Workers \subseteq Threads
        /\ Coord \notin Callers /\ \A t \in Threads : at[t] \in {"loop", "roots", "idle"}
        /\ at[Coord] = "roots" /\ \A w \in Workers : at[w] = "loop"
    BY Roles DEF Init
  <1>2. ReasonInv
    BY <1>1 DEF Init, ReasonInv, Fresh
  <1>3. \A i \in Reachable : Accounted(i)
    BY <1>1 DEF Init, Accounted, Reachable
  <1> QED BY <1>1, <1>2, <1>3 DEF Init, WholeInv, CompleteMissesOnlyCuts

(* An inventory that calls itself complete has sent on every item it can     *)
(* reach, but for those a truncated native inventory kept back, whatever its *)
(* workers, their streams and the callers did in which order, with failing   *)
(* streams, panics, truncation and nodes that have no item_id.               *)
THEOREM CompleteIsAccounted == Spec => []CompleteMissesOnlyCuts
  <1>1. Init => InvTypes /\ WholeInv
    BY TypeInit, WholeInit
  <1>2. InvTypes /\ WholeInv /\ [Next]_vars => InvTypes' /\ WholeInv'
    <2> SUFFICES ASSUME InvTypes, WholeInv, [Next]_vars PROVE InvTypes' /\ WholeInv'
      OBVIOUS
    <2>1. ReasonInv'
      BY ReasonNext DEF WholeInv
    <2>2. \A w \in Workers : at'[w] = "ended" => queue' = {} \/ Lost'
      BY EndedNext DEF WholeInv
    <2>3. Lost' \/ \A i \in Reachable : Accounted(i)'
      BY AccountNext DEF WholeInv
    <2> QED BY <2>1, <2>2, <2>3, TypeNext, CompleteNext DEF WholeInv
  <1>3. WholeInv => CompleteMissesOnlyCuts
    BY DEF WholeInv
  <1> QED BY <1>1, <1>2, <1>3, PTL DEF Spec
=============================================================================
