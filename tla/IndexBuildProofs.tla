-------------------------- MODULE IndexBuildProofs --------------------------
(***************************************************************************)
(* Theorems about IndexBuild for any set of servers, calls and items and   *)
(* any bounds: its types, its safety invariants, and that it implements    *)
(* IndexCatalog.                                                           *)
(***************************************************************************)
EXTENDS IndexBuildCatalog, FiniteSetTheorems, TLAPS

-----------------------------------------------------------------------------
(* Types: TypeOK is inductive; a step preserves the types of the store, of  *)
(* the process memory and of the task locals separately.                    *)

(* A default server exists because discovery reported at least one. *)
LEMMA DefaultServer == AnyServer \in Servers
  BY BuildAssumption DEF AnyServer

(* The new rows of a batch can be counted. *)
LEMMA BatchCount ==
  ASSUME NEW b \in SUBSET Items
  PROVE  Cardinality(b) \in Nat
  BY BuildAssumption, FS_Subset, FS_CardinalityType

(* What reserve_refresh_build loads is a retry state. *)
LEMMA LoadedRetryType ==
  ASSUME TypeOK, NEW s \in Servers
  PROVE  LoadedRetry(s) \in RetryState
  BY DEF TypeOK, StoreOK, MemoryOK, LoadedRetry, RetryState

(* What finish_build_* records is a retry state. *)
LEMMA RetryAfterBuildType ==
  ASSUME TypeOK, NEW t \in Tasks
  PROVE  RetryAfterBuild(t) \in RetryState
  <1>1. srv[t] \in Servers /\ retry[srv[t]] \in RetryState
    BY DEF TypeOK, TasksOK, MemoryOK
  <1>2. ASSUME NEW n \in 0..MaxFailures PROVE Capped(n) \in 0..MaxFailures
    BY BuildAssumption DEF Capped
  <1>3. Capped(retry[srv[t]].failures) \in 0..MaxFailures
    BY <1>1, <1>2 DEF RetryState
  <1>4. NoRetry \in RetryState
    BY BuildAssumption DEF NoRetry, RetryState
  <1>5. [retry[srv[t]] EXCEPT !.wait = opUntil[srv[t]] = "future"] \in RetryState
    BY <1>1 DEF RetryState
  <1>6. [wait |-> TRUE, failures |-> Capped(retry[srv[t]].failures),
         open |-> Capped(retry[srv[t]].failures) >= Threshold] \in RetryState
    BY <1>3, BuildAssumption DEF RetryState
  <1> QED
    BY <1>1, <1>4, <1>5, <1>6 DEF RetryAfterBuild

(* The locals of a call that returns are the initial ones. *)
LEMMA ReturnType ==
  ASSUME TasksOK, NEW t \in Tasks, Return(t)
  PROVE  TasksOK'
  BY DefaultServer, BuildAssumption DEF TasksOK, Return, PcSet, EndState

(* A task goes on with an outcome. *)
LEMMA OutcomeType ==
  ASSUME TasksOK, NEW t \in Tasks, NEW x \in PcSet,
         NEW e \in {"none", "error", "interrupted"}, NEW c \in BOOLEAN,
         Outcome(t, x, e, c)
  PROVE  /\ pc' \in [Tasks -> PcSet]
         /\ error' \in [Tasks -> {"none", "error", "interrupted"}]
         /\ withCtl' \in [Tasks -> BOOLEAN]
  BY DEF TasksOK, Outcome

GensType == [Servers -> [Gens -> GenState]]

(* One generation row changes its state. *)
LEMMA GenUpdate ==
  ASSUME StoreOK, NEW s \in Servers, NEW g \in 0..MaxGen, NEW x \in GenState
  PROVE  [gens EXCEPT ![s][g] = x] \in GensType
  BY DEF StoreOK, GensType

(* All generations of a server go: clear_server and the deletion. *)
LEMMA ServerCleared ==
  ASSUME StoreOK, NEW s \in Servers
  PROVE  /\ [gens EXCEPT ![s] = PerGen("absent")] \in [Servers -> [Gens -> GenState]]
         /\ [rows EXCEPT ![s] = PerGen({})] \in [Servers -> [Gens -> SUBSET Items]]
         /\ [count EXCEPT ![s] = PerGen(0)] \in [Servers -> [Gens -> Nat]]
  <1>1. PerGen("absent") \in [Gens -> GenState]
    BY DEF PerGen, GenState
  <1>2. PerGen({}) \in [Gens -> SUBSET Items]
    BY DEF PerGen
  <1>3. PerGen(0) \in [Gens -> Nat]
    BY DEF PerGen
  <1>4. [gens EXCEPT ![s] = PerGen("absent")] \in [Servers -> [Gens -> GenState]]
    BY <1>1 DEF StoreOK
  <1>5. [rows EXCEPT ![s] = PerGen({})] \in [Servers -> [Gens -> SUBSET Items]]
    BY <1>2 DEF StoreOK
  <1>6. [count EXCEPT ![s] = PerGen(0)] \in [Servers -> [Gens -> Nat]]
    BY <1>3 DEF StoreOK
  <1> QED BY <1>4, <1>5, <1>6

(* Which states a row can be given. *)
LEMMA GenStates ==
  /\ "absent" \in GenState /\ "staging" \in GenState /\ "active" \in GenState
  /\ "superseded" \in GenState /\ "failed" \in GenState
  BY DEF GenState

(* Generation numbers are numbers a task may hold. *)
LEMMA GenNumbers == \A g \in Gens : g \in 0..MaxGen
  BY BuildAssumption DEF Gens

(* A commit writes rows of the types the store and the task expect. *)
LEMMA InsertType ==
  ASSUME TypeOK, NEW t \in Tasks, NEW b \in SUBSET Items, InsertEntries(t, b)
  PROVE  /\ rows' \in [Servers -> [Gens -> SUBSET Items]]
         /\ kept' \in [Tasks -> Nat]
         /\ buffered' \in [Tasks -> SUBSET Items]
  <1>1. srv[t] \in Servers /\ gen[t] \in 0..MaxGen
    BY DEF TypeOK, TasksOK
  <1>2. Cardinality(b \ rows[srv[t]][gen[t]]) \in Nat
    BY BatchCount
  <1>3. rows' \in [Servers -> [Gens -> SUBSET Items]]
    BY <1>1 DEF InsertEntries, TypeOK, StoreOK
  <1> QED
    BY <1>2, <1>3 DEF InsertEntries, TypeOK, TasksOK

(* A dropped snapshot and dropped run state are well typed. *)
LEMMA ForgetType ==
  ASSUME TasksOK
  PROVE  /\ \A s \in Servers : ForgetSeen(s) => seen' \in [Tasks -> 0..MaxGen]
         /\ \A t \in Tasks : DropRun(t) =>
              /\ sent' \in [Tasks -> SUBSET Items]
              /\ buffered' \in [Tasks -> SUBSET Items]
              /\ kept' \in [Tasks -> Nat]
  BY BuildAssumption DEF TasksOK, ForgetSeen, DropRun

(* Steps of a refresh call. *)
LEMMA TypeStartup ==
  ASSUME TypeOK, NEW t \in Tasks, Startup(t)
  PROVE  TypeOK'
  <1>0. StoreOK /\ MemoryOK /\ TasksOK /\ srv[t] \in Servers
    BY DEF TypeOK, TasksOK
  <1> USE <1>0
  <1>1. CASE Validate(t)
    <2>1. StoreOK'
      BY <1>1 DEF Validate, StoreOK, durable, GenState, Gens, RetryState,
          NoRetry
    <2>2. MemoryOK'
      BY <1>1 DEF Validate, MemoryOK, runtime, registry, others, Owner,
          RetryState, NoRetry, Deadline
    <2>3. TasksOK'
      BY <1>1, ReturnType DEF Validate, TasksOK, locals, outcome, PcSet,
          ReservedStep, EndState, Gens, Step, Outcome, CancelControl
    <2> QED BY <2>1, <2>2, <2>3 DEF TypeOK
  <1>2. CASE Enroll(t)
    <2>1. StoreOK'
      BY <1>2 DEF Enroll, StoreOK, durable, GenState, Gens, RetryState, NoRetry
    <2>2. MemoryOK'
      BY <1>2 DEF Enroll, MemoryOK, runtime, registry, others, Owner,
          RetryState, NoRetry, Deadline
    <2>3. TasksOK'
      BY <1>2, ReturnType DEF Enroll, TasksOK, locals, outcome, PcSet,
          ReservedStep, EndState, Gens, Step, Outcome, CancelControl
    <2> QED BY <2>1, <2>2, <2>3 DEF TypeOK
  <1>3. CASE ReserveDenied(t)
    <2>1. StoreOK'
      BY <1>3 DEF ReserveDenied, StoreOK, durable, GenState, Gens, RetryState,
          NoRetry
    <2>2. MemoryOK'
      BY <1>3, LoadedRetryType DEF ReserveDenied, MemoryOK, runtime, registry,
          others
    <2>3. TasksOK'
      BY <1>3, ReturnType DEF ReserveDenied, TasksOK, locals, outcome, PcSet,
          ReservedStep, EndState, Gens, Step, Outcome, CancelControl
    <2> QED BY <2>1, <2>2, <2>3 DEF TypeOK
  <1>4. CASE ReserveGranted(t)
    <2>1. StoreOK'
      BY <1>4 DEF ReserveGranted, StoreOK, durable, GenState, Gens, RetryState,
          NoRetry
    <2>2. MemoryOK'
      BY <1>4, LoadedRetryType DEF ReserveGranted, MemoryOK, runtime, registry,
          others, Owner, Deadline
    <2>3. TasksOK'
      BY <1>4, ReturnType DEF ReserveGranted, TasksOK, locals, outcome, PcSet,
          ReservedStep, EndState, Gens, Step, Outcome, CancelControl
    <2> QED BY <2>1, <2>2, <2>3 DEF TypeOK
  <1>5. CASE RefreshAfterProbe(t)
    <2>1. StoreOK'
      BY <1>5 DEF RefreshAfterProbe, StoreOK, durable, GenState, Gens,
          RetryState, NoRetry
    <2>2. MemoryOK'
      BY <1>5 DEF RefreshAfterProbe, MemoryOK, runtime, registry, others, Owner,
          RetryState, NoRetry, Deadline
    <2>3. TasksOK'
      BY <1>5, ReturnType DEF RefreshAfterProbe, TasksOK, locals, outcome,
          PcSet, ReservedStep, EndState, Gens, Step, Outcome, CancelControl
    <2> QED BY <2>1, <2>2, <2>3 DEF TypeOK
  <1>6. CASE InvalidateProfile(t)
    <2>1. StoreOK'
      <3>1. StoreOK /\ srv[t] \in Servers
        BY DEF TypeOK, TasksOK
      <3>2. /\ gens' \in [Servers -> [Gens -> GenState]]
            /\ rows' \in [Servers -> [Gens -> SUBSET Items]]
            /\ count' \in [Servers -> [Gens -> Nat]]
        <4>1. CASE UNCHANGED <<gens, rows, count>>
          BY <3>1, <4>1 DEF StoreOK
        <4>2. CASE /\ gens' = [gens EXCEPT ![srv[t]] = PerGen("absent")]
                   /\ rows' = [rows EXCEPT ![srv[t]] = PerGen({})]
                   /\ count' = [count EXCEPT ![srv[t]] = PerGen(0)]
          BY <3>1, <4>2, ServerCleared
        <4> QED BY <1>6, <4>1, <4>2 DEF InvalidateProfile
      <3>3. UNCHANGED <<enrolled, optedIn, dbRetry>>
        BY <1>6 DEF InvalidateProfile
      <3> QED BY <3>1, <3>2, <3>3 DEF StoreOK
    <2>2. MemoryOK'
      BY <1>6 DEF InvalidateProfile, MemoryOK, runtime, registry, others, Owner,
          RetryState, NoRetry, Deadline
    <2>3. TasksOK'
      BY <1>6, ForgetType DEF InvalidateProfile, TasksOK, locals, outcome,
          PcSet, ReservedStep, EndState, Outcome
    <2> QED BY <2>1, <2>2, <2>3 DEF TypeOK
  <1>7. CASE StartInventory(t)
    <2>1. StoreOK'
      BY <1>7 DEF StartInventory, StoreOK, durable, GenState, Gens, RetryState,
          NoRetry
    <2>2. MemoryOK'
      BY <1>7 DEF StartInventory, MemoryOK, runtime, registry, others, Owner,
          RetryState, NoRetry, Deadline
    <2>3. TasksOK'
      BY <1>7, ReturnType DEF StartInventory, TasksOK, locals, outcome, PcSet,
          ReservedStep, EndState, Gens, Step, Outcome, CancelControl
    <2> QED BY <2>1, <2>2, <2>3 DEF TypeOK
  <1>8. CASE RecordStartFailure(t)
    <2>1. StoreOK'
      <3>1. ASSUME NEW g \in Gens, gens' = [gens EXCEPT ![srv[t]][g] = "failed"]
            PROVE  gens' \in GensType
        BY <3>1, GenUpdate, GenStates, GenNumbers
      <3>2. \/ UNCHANGED gens
            \/ \E g \in Gens : gens' = [gens EXCEPT ![srv[t]][g] = "failed"]
        BY <1>8 DEF RecordStartFailure
      <3>3. gens' \in GensType
        BY <3>1, <3>2 DEF StoreOK, GensType
      <3> QED BY <1>8, <3>3 DEF RecordStartFailure, StoreOK, GensType
    <2>2. MemoryOK'
      BY <1>8 DEF RecordStartFailure, MemoryOK, runtime, registry, others,
          Owner, RetryState, NoRetry, Deadline
    <2>3. TasksOK'
      BY <1>8, ReturnType DEF RecordStartFailure, TasksOK, locals, outcome,
          PcSet, ReservedStep, EndState, Gens, Step, Outcome, CancelControl
    <2> QED BY <2>1, <2>2, <2>3 DEF TypeOK
  <1>9. CASE AttachControl(t)
    <2>1. StoreOK'
      BY <1>9 DEF AttachControl, StoreOK, durable, GenState, Gens, RetryState,
          NoRetry
    <2>2. MemoryOK'
      BY <1>9 DEF AttachControl, MemoryOK, runtime, registry, others, Owner
    <2>3. TasksOK'
      BY <1>9, ReturnType DEF AttachControl, TasksOK, locals, outcome, PcSet,
          ReservedStep, EndState, Gens, Step, Outcome, CancelControl
    <2> QED BY <2>1, <2>2, <2>3 DEF TypeOK
  <1>10. CASE TakePendingCancel(t)
    <2>1. StoreOK'
      BY <1>10 DEF TakePendingCancel, StoreOK, durable, GenState, Gens,
          RetryState, NoRetry
    <2>2. MemoryOK'
      BY <1>10 DEF TakePendingCancel, MemoryOK, runtime, registry, others,
          Owner, RetryState, NoRetry, Deadline
    <2>3. TasksOK'
      BY <1>10, ReturnType DEF TakePendingCancel, TasksOK, locals, outcome,
          PcSet, ReservedStep, EndState, Gens, Step, Outcome, CancelControl
    <2> QED BY <2>1, <2>2, <2>3 DEF TypeOK
  <1>11. CASE ProbeCapabilities(t)
    <2>1. StoreOK'
      BY <1>11 DEF ProbeCapabilities, StoreOK, durable, GenState, Gens,
          RetryState, NoRetry
    <2>2. MemoryOK'
      BY <1>11 DEF ProbeCapabilities, MemoryOK, runtime, registry, others,
          Owner, RetryState, NoRetry, Deadline
    <2>3. TasksOK'
      BY <1>11, ZenonT(60) DEF ProbeCapabilities, TasksOK, locals, outcome, PcSet,
          ReservedStep, EndState, Step, Outcome, CancelControl,
          StartGenerationFailed
    <2> QED BY <2>1, <2>2, <2>3 DEF TypeOK
  <1>12. CASE StartGeneration(t)
    <2>1. StoreOK'
      <3>1. ASSUME NEW g \in Gens, gens' = [gens EXCEPT ![srv[t]][g] = "staging"]
            PROVE  gens' \in GensType
        BY <3>1, GenUpdate, GenStates, GenNumbers
      <3>2. \/ UNCHANGED gens
            \/ \E g \in Gens : gens' = [gens EXCEPT ![srv[t]][g] = "staging"]
        BY <1>12 DEF StartGeneration
      <3>3. gens' \in GensType
        BY <3>1, <3>2 DEF StoreOK, GensType
      <3> QED BY <1>12, <3>3 DEF StartGeneration, StoreOK, GensType
    <2>2. MemoryOK'
      BY <1>12 DEF StartGeneration, MemoryOK, runtime, registry, others, Owner,
          RetryState, NoRetry, Deadline
    <2>3. TasksOK'
      <3>1. /\ pc' \in [Tasks -> PcSet] /\ cancelled' \in [Tasks -> BOOLEAN]
            /\ error' \in [Tasks -> {"none", "error", "interrupted"}]
            /\ withCtl' \in [Tasks -> BOOLEAN]
        BY <1>12 DEF StartGeneration, StartGenerationFailed, Outcome, CancelControl,
                     TasksOK, outcome, PcSet, ReservedStep
      <3>2. gen' \in [Tasks -> 0..MaxGen]
        BY <1>12, GenNumbers DEF StartGeneration, TasksOK
      <3> QED BY <1>12, <3>1, <3>2 DEF StartGeneration, TasksOK
    <2> QED BY <2>1, <2>2, <2>3 DEF TypeOK
  <1>13. CASE LaunchBuild(t)
    <2>1. StoreOK'
      BY <1>13 DEF LaunchBuild, StoreOK, durable, GenState, Gens, RetryState,
          NoRetry
    <2>2. MemoryOK'
      BY <1>13 DEF LaunchBuild, MemoryOK, runtime, registry, others, Owner,
          RetryState, NoRetry, Deadline
    <2>3. TasksOK'
      <3>1. pc' \in [Tasks -> PcSet] /\ cancelled' \in [Tasks -> BOOLEAN]
        BY <1>13 DEF LaunchBuild, Outcome, CancelControl, TasksOK, PcSet,
                     ReservedStep
      <3>2. error' \in [Tasks -> {"none", "error", "interrupted"}]
        BY <1>13 DEF LaunchBuild, Outcome, TasksOK, outcome
      <3>3. withCtl' \in [Tasks -> BOOLEAN]
        BY <1>13 DEF LaunchBuild, Outcome, TasksOK, outcome
      <3> QED BY <1>13, <3>1, <3>2, <3>3 DEF LaunchBuild, TasksOK, locals
    <2> QED BY <2>1, <2>2, <2>3 DEF TypeOK
  <1> QED
    BY <1>1, <1>2, <1>3, <1>4, <1>5, <1>6, <1>7, <1>8, <1>9, <1>10, <1>11,
       <1>12, <1>13 DEF Startup

(* Steps that end a build and release its reservation. *)
LEMMA TypeTeardown ==
  ASSUME TypeOK, NEW t \in Tasks, Teardown(t)
  PROVE  TypeOK'
  <1>0. StoreOK /\ MemoryOK /\ TasksOK /\ srv[t] \in Servers
    BY DEF TypeOK, TasksOK
  <1> USE <1>0
  <1>1. CASE Settle(t)
    <2>1. StoreOK'
      BY <1>1, InsertType DEF Settle, StoreOK, durable, TasksOK
    <2>2. MemoryOK'
      BY <1>1 DEF Settle, MemoryOK, runtime, registry, others, Owner,
          RetryState, NoRetry, Deadline
    <2>3. TasksOK'
      BY <1>1, InsertType DEF Settle, TasksOK, locals, outcome, PcSet,
          ReservedStep, EndState, Outcome, Finalize, FinishFailedBuild, FinishInterruptedBuild,
          FinishCompletedBuild, FinishCancelledBuild
    <2> QED BY <2>1, <2>2, <2>3 DEF TypeOK
  <1>2. CASE Promote(t)
    <2>1. StoreOK'
      <3> DEFINE s == srv[t]
                 new == [h \in Gens |->
                           IF h = gen[t] THEN "active"
                           ELSE IF gens[s][h] = "active" THEN "superseded"
                           ELSE gens[s][h]]
      <3>1. new \in [Gens -> GenState]
        BY GenStates DEF StoreOK
      <3>2. [gens EXCEPT ![s] = new] \in GensType
        BY <3>1 DEF StoreOK, GensType
      <3>3. gens' \in GensType
        BY <1>2, <3>2 DEF Promote, StoreOK, GensType
      <3>4. gen[t] \in 0..MaxGen /\ kept[t] \in Nat
        BY DEF TasksOK
      <3>5. [count EXCEPT ![s][gen[t]] = kept[t]] \in [Servers -> [Gens -> Nat]]
        BY <3>4 DEF StoreOK
      <3>6. count' \in [Servers -> [Gens -> Nat]]
        BY <1>2, <3>5 DEF Promote, StoreOK
      <3> QED BY <1>2, <3>3, <3>6 DEF Promote, StoreOK, GensType
    <2>2. MemoryOK'
      BY <1>2 DEF Promote, MemoryOK, runtime, registry, others, Owner,
          RetryState, NoRetry, Deadline
    <2>3. TasksOK'
      BY <1>2, ForgetType DEF Promote, TasksOK, locals, outcome, PcSet,
          ReservedStep, EndState, Outcome,
          FinishPromotedBuild, FinishPromotionFailure
    <2> QED BY <2>1, <2>2, <2>3 DEF TypeOK
  <1>3. CASE FailGeneration(t)
    <2>1. StoreOK'
      <3>1. gen[t] \in 0..MaxGen
        BY DEF TasksOK
      <3>2. ASSUME NEW x \in GenState, gens' = [gens EXCEPT ![srv[t]][gen[t]] = x]
            PROVE  gens' \in GensType
        BY <3>1, <3>2, GenUpdate
      <3>3. \/ UNCHANGED gens
            \/ \E x \in GenState : gens' = [gens EXCEPT ![srv[t]][gen[t]] = x]
        BY <1>3, GenStates DEF FailGeneration
      <3>4. gens' \in GensType
        BY <3>2, <3>3 DEF StoreOK, GensType
      <3> QED BY <1>3, <3>4 DEF FailGeneration, StoreOK, GensType
    <2>2. MemoryOK'
      BY <1>3 DEF FailGeneration, MemoryOK, runtime, registry, others, Owner,
          RetryState, NoRetry, Deadline
    <2>3. TasksOK'
      BY <1>3, ForgetType DEF FailGeneration, TasksOK, locals, outcome, PcSet,
          ReservedStep, EndState, Step
    <2> QED BY <2>1, <2>2, <2>3 DEF TypeOK
  <1>4. CASE AbandonGeneration(t)
    <2>1. StoreOK'
      <3>1. gen[t] \in 0..MaxGen
        BY DEF TasksOK
      <3>2. ASSUME NEW x \in GenState, gens' = [gens EXCEPT ![srv[t]][gen[t]] = x]
            PROVE  gens' \in GensType
        BY <3>1, <3>2, GenUpdate
      <3>3. \/ UNCHANGED gens
            \/ \E x \in GenState : gens' = [gens EXCEPT ![srv[t]][gen[t]] = x]
        BY <1>4, GenStates DEF AbandonGeneration
      <3>4. gens' \in GensType
        BY <3>2, <3>3 DEF StoreOK, GensType
      <3> QED BY <1>4, <3>4 DEF AbandonGeneration, StoreOK, GensType
    <2>2. MemoryOK'
      BY <1>4 DEF AbandonGeneration, MemoryOK, runtime, registry, others, Owner,
          RetryState, NoRetry, Deadline
    <2>3. TasksOK'
      BY <1>4, ForgetType DEF AbandonGeneration, TasksOK, locals, outcome,
          PcSet, ReservedStep, EndState, Step
    <2> QED BY <2>1, <2>2, <2>3 DEF TypeOK
  <1>5. CASE FinishBuild(t)
    <2>1. StoreOK'
      BY <1>5 DEF FinishBuild, StoreOK, durable, GenState, Gens, RetryState,
          NoRetry
    <2>2. MemoryOK'
      BY <1>5, RetryAfterBuildType DEF FinishBuild, MemoryOK, runtime, registry,
          others
    <2>3. TasksOK'
      BY <1>5, ReturnType DEF FinishBuild, TasksOK, locals, outcome, PcSet,
          ReservedStep, EndState, Gens, Step, Outcome, CancelControl
    <2> QED BY <2>1, <2>2, <2>3 DEF TypeOK
  <1>6. CASE PersistRetry(t)
    <2>1. StoreOK'
      BY <1>6 DEF PersistRetry, StoreOK, durable, MemoryOK
    <2>2. MemoryOK'
      BY <1>6 DEF PersistRetry, MemoryOK, runtime, registry, others, Owner,
          RetryState, NoRetry, Deadline
    <2>3. TasksOK'
      BY <1>6, ReturnType DEF PersistRetry, TasksOK, locals, outcome, PcSet,
          ReservedStep, EndState, Gens, Step, Outcome, CancelControl
    <2> QED BY <2>1, <2>2, <2>3 DEF TypeOK
  <1>7. CASE RemoveOwner(t)
    <2>1. StoreOK'
      BY <1>7 DEF RemoveOwner, StoreOK, durable, GenState, Gens, RetryState,
          NoRetry
    <2>2. MemoryOK'
      BY <1>7 DEF RemoveOwner, MemoryOK, runtime, registry, others, Owner,
          RetryState, NoRetry, Deadline
    <2>3. TasksOK'
      BY <1>7, ReturnType DEF RemoveOwner, TasksOK, locals, outcome, PcSet,
          ReservedStep, EndState, Gens, Step, Outcome, CancelControl
    <2> QED BY <2>1, <2>2, <2>3 DEF TypeOK
  <1>8. CASE ClearActiveBuild(t)
    <2>1. StoreOK'
      BY <1>8 DEF ClearActiveBuild, StoreOK, durable, GenState, Gens,
          RetryState, NoRetry
    <2>2. MemoryOK'
      BY <1>8 DEF ClearActiveBuild, MemoryOK, runtime, registry, others, Owner,
          RetryState, NoRetry, Deadline
    <2>3. TasksOK'
      BY <1>8, ReturnType DEF ClearActiveBuild, TasksOK, locals, outcome, PcSet,
          ReservedStep, EndState, Gens, Step, Outcome, CancelControl
    <2> QED BY <2>1, <2>2, <2>3 DEF TypeOK
  <1>9. CASE ClearBuildLock(t)
    <2>1. StoreOK'
      BY <1>9 DEF ClearBuildLock, StoreOK, durable, GenState, Gens, RetryState,
          NoRetry
    <2>2. MemoryOK'
      BY <1>9 DEF ClearBuildLock, MemoryOK, runtime, registry, others, Owner,
          RetryState, NoRetry, Deadline
    <2>3. TasksOK'
      BY <1>9, ReturnType DEF ClearBuildLock, TasksOK, locals, outcome, PcSet,
          ReservedStep, EndState, Gens, Step, Outcome, CancelControl
    <2> QED BY <2>1, <2>2, <2>3 DEF TypeOK
  <1>10. CASE TakeRuntimeBuild(t)
    <2>1. StoreOK'
      BY <1>10 DEF TakeRuntimeBuild, StoreOK, durable, GenState, Gens,
          RetryState, NoRetry
    <2>2. MemoryOK'
      BY <1>10 DEF TakeRuntimeBuild, MemoryOK, runtime, registry, others, Owner,
          RetryState, NoRetry, Deadline
    <2>3. TasksOK'
      BY <1>10, ReturnType DEF TakeRuntimeBuild, TasksOK, locals, outcome,
          PcSet, ReservedStep, EndState, Gens, Step, Outcome, CancelControl
    <2> QED BY <2>1, <2>2, <2>3 DEF TypeOK
  <1>11. CASE ClearPendingCancel(t)
    <2>1. StoreOK'
      BY <1>11 DEF ClearPendingCancel, StoreOK, durable, GenState, Gens,
          RetryState, NoRetry
    <2>2. MemoryOK'
      BY <1>11 DEF ClearPendingCancel, MemoryOK, runtime, registry, others,
          Owner, RetryState, NoRetry, Deadline
    <2>3. TasksOK'
      BY <1>11, ReturnType DEF ClearPendingCancel, TasksOK, locals, outcome,
          PcSet, ReservedStep, EndState, Gens, Step, Outcome, CancelControl
    <2> QED BY <2>1, <2>2, <2>3 DEF TypeOK
  <1> QED
    BY <1>1, <1>2, <1>3, <1>4, <1>5, <1>6, <1>7, <1>8, <1>9, <1>10, <1>11 DEF Teardown

(* Every step of a call or of its build task. *)
LEMMA TypeTask ==
  ASSUME TypeOK, NEW t \in Tasks, TaskStep(t)
  PROVE  TypeOK'
  <1>0. StoreOK /\ MemoryOK /\ TasksOK /\ srv[t] \in Servers
    BY DEF TypeOK, TasksOK
  <1> USE <1>0
  <1>1. ASSUME NEW s \in Servers, NEW k \in {"manual", "forced"}, Refresh(t, s, k)
        PROVE  TypeOK'
    <2>1. StoreOK' /\ MemoryOK'
      BY <1>1 DEF Refresh, StoreOK, MemoryOK, durable, runtime, registry, others
    <2>2. TasksOK'
      BY <1>1 DEF Refresh, TasksOK, outcome, PcSet, ReservedStep
    <2> QED BY <2>1, <2>2 DEF TypeOK
  <1>2. ASSUME NEW s \in Servers, RefreshIfDue(t, s)
        PROVE  TypeOK'
    <2>1. StoreOK' /\ MemoryOK'
      BY <1>2 DEF RefreshIfDue, StoreOK, MemoryOK, durable, runtime, registry, others
    <2>2. TasksOK'
      BY <1>2, GenNumbers DEF RefreshIfDue, TasksOK, outcome, PcSet, ReservedStep, Step
    <2> QED BY <2>1, <2>2 DEF TypeOK
  <1>3. ASSUME NEW i \in Items, ReceiveEntry(t, i)
        PROVE  TypeOK'
    <2>1. /\ rows' \in [Servers -> [Gens -> SUBSET Items]]
          /\ kept' \in [Tasks -> Nat] /\ buffered' \in [Tasks -> SUBSET Items]
      <3>1. buffered[t] \cup {i} \in SUBSET Items
        BY DEF TasksOK
      <3> QED BY <1>3, <3>1, InsertType, ZenonT(60) DEF ReceiveEntry, StoreOK, TasksOK
    <2>2. StoreOK' /\ MemoryOK'
      BY <1>3, <2>1 DEF ReceiveEntry, StoreOK, MemoryOK, runtime, registry, others
    <2>3. TasksOK'
      BY <1>3, <2>1 DEF ReceiveEntry, TasksOK, outcome
    <2> QED BY <2>2, <2>3 DEF TypeOK
  <1>4. CASE CommitDue(t)
    <2>1. /\ rows' \in [Servers -> [Gens -> SUBSET Items]]
          /\ kept' \in [Tasks -> Nat] /\ buffered' \in [Tasks -> SUBSET Items]
      <3>1. buffered[t] \in SUBSET Items
        BY DEF TasksOK
      <3> QED BY <1>4, <3>1, InsertType DEF CommitDue
    <2>2. StoreOK' /\ MemoryOK'
      BY <1>4, <2>1 DEF CommitDue, StoreOK, MemoryOK, runtime, registry, others
    <2>3. TasksOK'
      BY <1>4, <2>1 DEF CommitDue, TasksOK, outcome
    <2> QED BY <2>2, <2>3 DEF TypeOK
  <1>5. CASE EndLoop(t)
    <2>1. PICK e \in EndState, c \in BOOLEAN : LeaveLoop(t, e, c)
      BY <1>5 DEF EndLoop, InventoryCompleted, InventoryFailed, StreamEnded,
                  EndState, TasksOK
    <2>2. StoreOK' /\ MemoryOK'
      BY <2>1 DEF LeaveLoop, StoreOK, MemoryOK, durable, runtime, registry, others
    <2>3. TasksOK'
      BY <2>1 DEF LeaveLoop, TasksOK, outcome, PcSet, ReservedStep, Step
    <2> QED BY <2>2, <2>3 DEF TypeOK
  <1>6. CASE BuildPanics(t)
    <2>1. StoreOK' /\ MemoryOK'
      BY <1>6 DEF BuildPanics, StoreOK, MemoryOK, durable, runtime, registry, others
    <2>2. TasksOK'
      BY <1>6 DEF BuildPanics, TasksOK, Outcome, CancelControl, PcSet, ReservedStep,
                  EndState
    <2> QED BY <2>1, <2>2 DEF TypeOK
  <1>7. CASE ClientGone(t)
    <2>1. StoreOK' /\ MemoryOK'
      BY <1>7 DEF ClientGone, StoreOK, MemoryOK, durable, others, Owner
    <2>2. TasksOK'
      BY <1>7, ReturnType DEF ClientGone
    <2> QED BY <2>1, <2>2 DEF TypeOK
  <1> QED
    BY <1>1, <1>2, <1>3, <1>4, <1>5, <1>6, <1>7, TypeStartup, TypeTeardown
    DEF TaskStep

(* cancel_build keeps the types of what it changes. *)
LEMMA CancelType ==
  ASSUME TypeOK, NEW s \in Servers, CancelBuild(s)
  PROVE  pending' \in SUBSET Servers /\ cancelled' \in [Tasks -> BOOLEAN]
  BY DEF TypeOK, MemoryOK, TasksOK, CancelBuild

(* Operator controls, deletion, time and cleanup. *)
LEMMA TypeServer ==
  ASSUME TypeOK, NEW s \in Servers, ServerStep(s)
  PROVE  TypeOK'
  <1>0. StoreOK /\ MemoryOK /\ TasksOK
    BY DEF TypeOK
  <1> USE <1>0
  <1>1. CASE Cancel(s)
    BY <1>1 DEF Cancel, TypeOK, StoreOK, MemoryOK, TasksOK, durable, runtime,
                registry, locals, outcome
  <1>2. CASE ApplyCancel(s)
    <2>1. /\ pending' \in SUBSET Servers /\ cancelled' \in [Tasks -> BOOLEAN]
          /\ opUntil' \in [Servers -> Deadline]
      BY <1>2, CancelType DEF ApplyCancel, MemoryOK, TasksOK, Deadline
    <2>2. retry' \in [Servers -> RetryState]
      <3>1. ASSUME NEW b \in BOOLEAN
            PROVE  [retry EXCEPT ![s].wait = retry[s].wait \/ b]
                     \in [Servers -> RetryState]
        <4>1. retry[s] \in RetryState
          BY DEF MemoryOK
        <4>2. [retry[s] EXCEPT !.wait = retry[s].wait \/ b] \in RetryState
          BY <4>1 DEF RetryState
        <4> QED BY <4>2 DEF MemoryOK
      <3>2. \/ UNCHANGED retry
            \/ \E b \in BOOLEAN : retry' = [retry EXCEPT ![s].wait = retry[s].wait \/ b]
        BY <1>2 DEF ApplyCancel
      <3> QED BY <3>1, <3>2 DEF MemoryOK
    <2>3. dbRetry' \in [Servers -> RetryState]
      BY <1>2, <2>2 DEF ApplyCancel, StoreOK
    <2>4. StoreOK' /\ MemoryOK' /\ TasksOK'
      BY <1>2, <2>1, <2>2, <2>3
      DEF ApplyCancel, StoreOK, MemoryOK, TasksOK, registry, locals, outcome
    <2> QED BY <2>4 DEF TypeOK
  <1>3. ASSUME NEW e \in BOOLEAN, SetAutoRefresh(s, e)
        PROVE  TypeOK'
    BY <1>3 DEF SetAutoRefresh, TypeOK, StoreOK, MemoryOK, TasksOK, runtime,
                registry, locals, outcome, others
  <1>4. CASE DeleteIndex(s)
    BY <1>4 DEF DeleteIndex, TypeOK, StoreOK, MemoryOK, TasksOK, durable, runtime,
                registry, locals, outcome, DeleteStep, DeleteSteps
  <1>5. CASE DeletionStep(s)
    <2> USE DEF DeleteStep, DeleteSteps
    <2>1. CASE DeleteCancel(s)
      BY <2>1, CancelType DEF DeleteCancel, TypeOK, StoreOK, MemoryOK, TasksOK,
         durable, runtime, registry, locals, outcome
    <2>2. CASE DeleteWait(s)
      BY <2>2 DEF DeleteWait, TypeOK, StoreOK, MemoryOK, TasksOK, durable, runtime,
                  registry, locals, outcome
    <2>3. CASE DeleteLock(s)
      <3>1. MemoryOK'
        BY <2>3 DEF DeleteLock, MemoryOK, runtime
      <3>2. StoreOK' /\ TasksOK'
        BY <2>3 DEF DeleteLock, StoreOK, TasksOK, durable, locals, outcome
      <3> QED BY <3>1, <3>2 DEF TypeOK
    <2>4. CASE DeleteRows(s)
      <3>1. StoreOK /\ NoRetry \in RetryState
        BY BuildAssumption DEF TypeOK, NoRetry, RetryState
      <3>2. StoreOK'
        <4>1. CASE UNCHANGED durable
          BY <3>1, <4>1 DEF StoreOK, durable
        <4>2. CASE ~UNCHANGED durable
          <5>1. /\ gens' \in [Servers -> [Gens -> GenState]]
                /\ rows' \in [Servers -> [Gens -> SUBSET Items]]
                /\ count' \in [Servers -> [Gens -> Nat]]
            BY <2>4, <3>1, <4>2, ServerCleared, ZenonT(60) DEF DeleteRows
          <5>2. enrolled' \in SUBSET Servers /\ optedIn' \in SUBSET Servers
            BY <2>4, <3>1, <4>2 DEF DeleteRows, StoreOK
          <5>3. dbRetry' \in [Servers -> RetryState]
            BY <2>4, <3>1, <4>2 DEF DeleteRows, StoreOK
          <5> QED BY <5>1, <5>2, <5>3 DEF StoreOK
        <4> QED BY <4>1, <4>2
      <3>3. MemoryOK'
        BY <2>4 DEF DeleteRows, MemoryOK, runtime
      <3>4. TasksOK'
        BY <2>4, ForgetType DEF DeleteRows, TasksOK, outcome
      <3> QED BY <3>2, <3>3, <3>4 DEF TypeOK
    <2>5. CASE DeleteRuntime(s)
      <3>1. NoRetry \in RetryState
        BY BuildAssumption DEF NoRetry, RetryState
      <3>2. MemoryOK'
        BY <2>5, <3>1 DEF DeleteRuntime, MemoryOK, registry, Owner, Deadline
      <3>3. StoreOK' /\ TasksOK'
        BY <2>5 DEF DeleteRuntime, StoreOK, TasksOK, durable, locals, outcome
      <3> QED BY <3>2, <3>3 DEF TypeOK
    <2>6. CASE DeleteUnpend(s)
      BY <2>6 DEF DeleteUnpend, TypeOK, StoreOK, MemoryOK, TasksOK, durable, runtime,
                  locals, outcome
    <2>7. CASE DeleteDone(s)
      BY <2>7 DEF DeleteDone, TypeOK, StoreOK, MemoryOK, TasksOK, durable, runtime,
                  registry, locals, outcome
    <2> QED
      BY <1>5, <2>1, <2>2, <2>3, <2>4, <2>5, <2>6, <2>7 DEF DeletionStep
  <1>6. CASE DeadlinesPass(s)
    <2>1. /\ retry' \in [Servers -> RetryState] /\ dbRetry' \in [Servers -> RetryState]
      BY <1>6 DEF DeadlinesPass, StoreOK, MemoryOK, RetryState
    <2>2. opUntil' \in [Servers -> Deadline]
      BY <1>6 DEF DeadlinesPass, MemoryOK, Deadline
    <2>3. StoreOK' /\ MemoryOK' /\ TasksOK'
      BY <1>6, <2>1, <2>2
      DEF DeadlinesPass, StoreOK, MemoryOK, TasksOK, registry, locals, outcome, others
    <2> QED BY <2>3 DEF TypeOK
  <1>7. ASSUME NEW g \in Gens, Cleanup(s, g)
        PROVE  TypeOK'
    <2>1. gens' \in GensType
      BY <1>7, GenUpdate, GenStates, GenNumbers DEF Cleanup
    <2>2. /\ rows' \in [Servers -> [Gens -> SUBSET Items]]
          /\ count' \in [Servers -> [Gens -> Nat]]
      BY <1>7 DEF Cleanup, StoreOK
    <2>3. StoreOK' /\ MemoryOK' /\ TasksOK'
      BY <1>7, <2>1, <2>2
      DEF Cleanup, StoreOK, MemoryOK, TasksOK, GensType, runtime, registry, locals,
          outcome, others
    <2> QED BY <2>3 DEF TypeOK
  <1> QED
    BY <1>1, <1>2, <1>3, <1>4, <1>5, <1>6, <1>7 DEF ServerStep

(* The types hold when a process starts, on an empty or on an existing store. *)
LEMMA TypeInit == Init => TypeOK
  <1> SUFFICES ASSUME Init PROVE TypeOK
    OBVIOUS
  <1>1. NoRetry \in RetryState
    BY BuildAssumption DEF NoRetry, RetryState
  <1>2. StoreOK
    BY <1>1, GenStates DEF Init, EmptyStore, StoreOK, PerServer, PerGen
  <1>3. MemoryOK
    BY <1>1, BuildAssumption
    DEF Init, FreshProcess, MemoryOK, PerServer, Owner, Deadline, DeleteSteps
  <1>4. TasksOK
    BY DefaultServer, BuildAssumption
    DEF Init, FreshProcess, TasksOK, PerTask, PcSet, EndState
  <1> QED BY <1>2, <1>3, <1>4 DEF TypeOK

(* TypeOK is inductive. *)
LEMMA TypeNext == TypeOK /\ [Next]_vars => TypeOK'
  <1> SUFFICES ASSUME TypeOK, [Next]_vars PROVE TypeOK'
    OBVIOUS
  <1>1. ASSUME NEW t \in Tasks, TaskStep(t) PROVE TypeOK'
    BY <1>1, TypeTask
  <1>2. ASSUME NEW s \in Servers, ServerStep(s) PROVE TypeOK'
    BY <1>2, TypeServer
  <1>3. CASE RequestShutdown
    BY <1>3 DEF RequestShutdown, TypeOK, StoreOK, MemoryOK, TasksOK, durable, runtime,
                registry, locals, outcome
  <1>4. CASE CancelBuilds
    BY <1>4 DEF CancelBuilds, TypeOK, StoreOK, MemoryOK, TasksOK, durable, runtime,
                registry, locals, outcome
  <1>5. CASE BecomeIdle
    BY <1>5 DEF BecomeIdle, TypeOK, StoreOK, MemoryOK, TasksOK, durable, runtime,
                registry, locals, outcome
  <1>6. CASE Restart
    <2>1. NoRetry \in RetryState
      BY BuildAssumption DEF NoRetry, RetryState
    <2>2. gens' \in GensType
      BY <1>6, GenStates DEF Restart, RecoveredGens, TypeOK, StoreOK, GensType
    <2>3. StoreOK'
      BY <1>6, <2>2 DEF Restart, TypeOK, StoreOK, GensType
    <2>4. restarts' \in 0..MaxRestarts
      BY <1>6, BuildAssumption DEF Restart, TypeOK, MemoryOK
    <2>5. MemoryOK'
      BY <1>6, <2>1, <2>4 DEF Restart, MemoryOK, PerServer, Owner, Deadline, DeleteSteps
    <2>6. TasksOK'
      BY <1>6, DefaultServer, BuildAssumption
      DEF Restart, TasksOK, PerTask, PcSet, EndState
    <2> QED BY <2>3, <2>5, <2>6 DEF TypeOK
  <1>7. CASE UNCHANGED vars
    BY <1>7 DEF vars, TypeOK, StoreOK, MemoryOK, TasksOK, durable, runtime, registry,
                locals, outcome, others
  <1> QED
    BY <1>1, <1>2, <1>3, <1>4, <1>5, <1>6, <1>7 DEF Next

(* Store, process memory and task locals always have their types: retry     *)
(* counters saturate, generation numbers stay in range, a file lock, a      *)
(* token and a control always belong to a call, an abandoned call or nobody.*)
THEOREM Typing == Spec => []TypeOK
  BY TypeInit, TypeNext, PTL DEF Spec

-----------------------------------------------------------------------------
(* Exclusion: the lock that a build or a deletion holds says who works on   *)
(* the server.  BuildsExclusive is not inductive: when a build releases its *)
(* lock, only the second conjunct tells that no other build relied on it.   *)
ExclTypes ==
  /\ pc \in [Tasks -> PcSet]
  /\ srv \in [Tasks -> Servers]
  /\ lock \in [Servers -> {"free", "build", "delete"}]
  /\ dpc \in [Servers -> DeleteSteps]

BuildHoldsLock ==
  \A t \in Tasks : pc[t] \in ReservedStep => lock[srv[t]] = "build"

OneBuildPerServer ==
  \A t, u \in Tasks :
    pc[t] \in ReservedStep /\ pc[u] \in ReservedStep /\ srv[t] = srv[u] => t = u

DeletionHoldsLock ==
  \A s \in Servers :
    dpc[s] \in {"db", "forget", "unpend"} => lock[s] = "delete"

ExclInv ==
  ExclTypes /\ BuildHoldsLock /\ OneBuildPerServer /\ DeletionHoldsLock

(* The invariant holds when the process starts on an empty store. *)
LEMMA ExclInit == Init => ExclInv
  BY DefaultServer
  DEF Init, FreshProcess, ExclInv, ExclTypes, BuildHoldsLock, OneBuildPerServer,
      DeletionHoldsLock, PerServer, PerTask, PcSet, ReservedStep, DeleteSteps

(* A task that stays within its reservation, or that has none, may move     *)
(* without touching the locks.                                              *)
LEMMA ExclMove ==
  ASSUME ExclInv, NEW t \in Tasks, NEW x \in PcSet,
         pc' = [pc EXCEPT ![t] = x],
         x \in ReservedStep => pc[t] \in ReservedStep,
         srv' = srv, lock' = lock, dpc' = dpc
  PROVE  ExclInv'
  BY DEF ExclInv, ExclTypes, BuildHoldsLock, OneBuildPerServer, DeletionHoldsLock

(* A task without a reservation may be pointed at any server. *)
LEMMA ExclEnter ==
  ASSUME ExclInv, NEW t \in Tasks, NEW x \in PcSet \ ReservedStep,
         NEW s \in Servers,
         pc' = [pc EXCEPT ![t] = x], srv' = [srv EXCEPT ![t] = s],
         lock' = lock, dpc' = dpc
  PROVE  ExclInv'
  BY DEF ExclInv, ExclTypes, BuildHoldsLock, OneBuildPerServer, DeletionHoldsLock

(* The same for a call that returns. *)
LEMMA ExclReturn ==
  ASSUME ExclInv, NEW t \in Tasks, Return(t), lock' = lock, dpc' = dpc
  PROVE  ExclInv'
  <1>1. "idle" \in PcSet \ ReservedStep
    BY DEF PcSet, ReservedStep
  <1> QED BY <1>1, DefaultServer, ExclEnter DEF Return

(* Nothing that the invariant reads has changed. *)
LEMMA ExclStutter ==
  ASSUME ExclInv, UNCHANGED <<pc, srv, lock, dpc>>
  PROVE  ExclInv'
  BY DEF ExclInv, ExclTypes, BuildHoldsLock, OneBuildPerServer, DeletionHoldsLock

(* A deletion moves while it neither takes nor gives back the lock. *)
LEMMA ExclDelete ==
  ASSUME ExclInv, NEW s \in Servers, NEW x \in DeleteSteps,
         dpc' = [dpc EXCEPT ![s] = x],
         x \in {"db", "forget", "unpend"} => dpc[s] \in {"db", "forget", "unpend"},
         UNCHANGED <<pc, srv, lock>>
  PROVE  ExclInv'
  BY DEF ExclInv, ExclTypes, BuildHoldsLock, OneBuildPerServer, DeletionHoldsLock

-----------------------------------------------------------------------------
(* Startup of a call: reserve_refresh_build is the only step that enters    *)
(* the reserved part, and it finds the lock free.                           *)
LEMMA ExclStartup ==
  ASSUME ExclInv, NEW t \in Tasks, Startup(t)
  PROVE  ExclInv'
  <1> USE DEF PcSet, ReservedStep, others, registry, locals, Step, Outcome
  <1>1. CASE Validate(t)
    BY <1>1, ExclMove, ExclReturn DEF Validate
  <1>2. CASE Enroll(t)
    BY <1>2, ExclMove DEF Enroll
  <1>3. CASE ReserveDenied(t)
    BY <1>3, ExclReturn DEF ReserveDenied
  <1>4. CASE ReserveGranted(t)
    <2>1. lock[srv[t]] = "free" /\ lock' = [lock EXCEPT ![srv[t]] = "build"]
      BY <1>4 DEF ReserveGranted, Busy
    <2>2. pc' = [pc EXCEPT ![t] =
                   IF kind[t] = "profile" THEN "invalidate" ELSE "starting"]
          /\ srv' = srv /\ dpc' = dpc
      BY <1>4 DEF ReserveGranted
    <2> QED
      BY <2>1, <2>2 DEF ExclInv, ExclTypes, BuildHoldsLock, OneBuildPerServer,
                        DeletionHoldsLock
  <1>5. CASE RefreshAfterProbe(t)
    BY <1>5, ExclMove, ExclReturn DEF RefreshAfterProbe
  <1>6. CASE InvalidateProfile(t)
    BY <1>6, ExclMove DEF InvalidateProfile
  <1>7. CASE StartInventory(t)
    BY <1>7, ExclMove DEF StartInventory
  <1>8. CASE RecordStartFailure(t)
    BY <1>8, ExclMove DEF RecordStartFailure
  <1>9. CASE AttachControl(t)
    BY <1>9, ExclMove DEF AttachControl
  <1>10. CASE TakePendingCancel(t)
    BY <1>10, ExclMove DEF TakePendingCancel
  <1>11. CASE ProbeCapabilities(t)
    BY <1>11, ExclMove DEF ProbeCapabilities, StartGenerationFailed
  <1>12. CASE StartGeneration(t)
    BY <1>12, ExclMove DEF StartGeneration, StartGenerationFailed
  <1>13. CASE LaunchBuild(t)
    BY <1>13, ExclMove DEF LaunchBuild
  <1> QED
    BY <1>1, <1>2, <1>3, <1>4, <1>5, <1>6, <1>7, <1>8, <1>9, <1>10, <1>11,
       <1>12, <1>13 DEF Startup

(* The build and its release: the lock is given back by the only build that *)
(* holds it.                                                                *)
LEMMA ExclTeardown ==
  ASSUME ExclInv, NEW t \in Tasks, Teardown(t)
  PROVE  ExclInv'
  <1> USE DEF PcSet, ReservedStep, others, registry, locals, Step, Outcome
  <1>1. CASE Settle(t)
    <2>1. \E x \in PcSet : /\ x \in ReservedStep
                           /\ pc' = [pc EXCEPT ![t] = x]
      BY <1>1 DEF Settle, Finalize, FinishFailedBuild, FinishInterruptedBuild,
          FinishCompletedBuild, FinishCancelledBuild
    <2> QED BY <1>1, <2>1, ExclMove DEF Settle
  <1>2. CASE Promote(t)
    BY <1>2, ExclMove DEF Promote, FinishPromotedBuild, FinishPromotionFailure
  <1>3. CASE FailGeneration(t)
    BY <1>3, ExclMove DEF FailGeneration
  <1>4. CASE AbandonGeneration(t)
    BY <1>4, ExclMove DEF AbandonGeneration
  <1>5. CASE FinishBuild(t)
    BY <1>5, ExclMove, ExclReturn DEF FinishBuild
  <1>6. CASE PersistRetry(t)
    BY <1>6, ExclMove DEF PersistRetry
  <1>7. CASE RemoveOwner(t)
    BY <1>7, ExclMove DEF RemoveOwner
  <1>8. CASE ClearActiveBuild(t)
    BY <1>8, ExclMove DEF ClearActiveBuild
  <1>9. CASE ClearBuildLock(t)
    <2>1. /\ pc[t] = "unlock" /\ pc' = [pc EXCEPT ![t] = "take"]
          /\ lock' = [lock EXCEPT ![srv[t]] = "free"]
          /\ srv' = srv /\ dpc' = dpc
      BY <1>9 DEF ClearBuildLock
    <2> QED
      BY <2>1 DEF ExclInv, ExclTypes, BuildHoldsLock, OneBuildPerServer,
                  DeletionHoldsLock
  <1>10. CASE TakeRuntimeBuild(t)
    BY <1>10, ExclMove DEF TakeRuntimeBuild
  <1>11. CASE ClearPendingCancel(t)
    BY <1>11, ExclReturn DEF ClearPendingCancel
  <1> QED
    BY <1>1, <1>2, <1>3, <1>4, <1>5, <1>6, <1>7, <1>8, <1>9, <1>10, <1>11
    DEF Teardown

(* Every step of a call or of its build task. *)
LEMMA ExclTask ==
  ASSUME ExclInv, NEW t \in Tasks, TaskStep(t)
  PROVE  ExclInv'
  <1> USE DEF PcSet, ReservedStep, others, registry, locals, Step, Outcome
  <1>1. ASSUME NEW s \in Servers, NEW k \in {"manual", "forced"}, Refresh(t, s, k)
        PROVE  ExclInv'
    BY <1>1, ExclEnter DEF Refresh
  <1>2. ASSUME NEW s \in Servers, RefreshIfDue(t, s)
        PROVE  ExclInv'
    BY <1>2, ExclEnter DEF RefreshIfDue
  <1>3. ASSUME NEW i \in Items, ReceiveEntry(t, i)
        PROVE  ExclInv'
    BY <1>3, ExclStutter DEF ReceiveEntry
  <1>4. CASE CommitDue(t)
    BY <1>4, ExclStutter DEF CommitDue
  <1>5. CASE EndLoop(t)
    BY <1>5, ExclMove
    DEF EndLoop, InventoryCompleted, InventoryFailed, StreamEnded, LeaveLoop
  <1>6. CASE BuildPanics(t)
    BY <1>6, ExclMove DEF BuildPanics
  <1>7. CASE ClientGone(t)
    BY <1>7, ExclReturn DEF ClientGone
  <1> QED
    BY <1>1, <1>2, <1>3, <1>4, <1>5, <1>6, <1>7, ExclStartup, ExclTeardown
    DEF TaskStep

(* Operator controls, deletion, time and cleanup. *)
LEMMA ExclServer ==
  ASSUME ExclInv, NEW s \in Servers, ServerStep(s)
  PROVE  ExclInv'
  <1> USE DEF DeleteSteps, others, registry, locals, DeleteStep
  <1>1. CASE Cancel(s)
    BY <1>1, ExclStutter DEF Cancel
  <1>2. CASE ApplyCancel(s)
    BY <1>2, ExclStutter DEF ApplyCancel
  <1>3. ASSUME NEW e \in BOOLEAN, SetAutoRefresh(s, e)
        PROVE  ExclInv'
    BY <1>3, ExclStutter DEF SetAutoRefresh
  <1>4. CASE DeleteIndex(s)
    BY <1>4, ExclDelete DEF DeleteIndex
  <1>5. CASE DeletionStep(s)
    <2>1. CASE DeleteCancel(s)
      BY <2>1, ExclDelete DEF DeleteCancel
    <2>2. CASE DeleteWait(s)
      BY <2>2, ExclDelete DEF DeleteWait
    <2>3. CASE DeleteLock(s)
      BY <2>3 DEF DeleteLock, ExclInv, ExclTypes, BuildHoldsLock,
                  OneBuildPerServer, DeletionHoldsLock
    <2>4. CASE DeleteRows(s)
      BY <2>4 DEF DeleteRows, ExclInv, ExclTypes, BuildHoldsLock,
                  OneBuildPerServer, DeletionHoldsLock
    <2>5. CASE DeleteRuntime(s)
      BY <2>5, ExclDelete DEF DeleteRuntime
    <2>6. CASE DeleteUnpend(s)
      BY <2>6 DEF DeleteUnpend, ExclInv, ExclTypes, BuildHoldsLock,
                  OneBuildPerServer, DeletionHoldsLock
    <2>7. CASE DeleteDone(s)
      BY <2>7, ExclDelete DEF DeleteDone
    <2> QED
      BY <1>5, <2>1, <2>2, <2>3, <2>4, <2>5, <2>6, <2>7 DEF DeletionStep
  <1>6. CASE DeadlinesPass(s)
    BY <1>6, ExclStutter DEF DeadlinesPass
  <1>7. ASSUME NEW g \in Gens, Cleanup(s, g)
        PROVE  ExclInv'
    BY <1>7, ExclStutter DEF Cleanup
  <1> QED
    BY <1>1, <1>2, <1>3, <1>4, <1>5, <1>6, <1>7 DEF ServerStep

(* The exclusion invariant is inductive. *)
LEMMA ExclNext == ExclInv /\ [Next]_vars => ExclInv'
  <1> SUFFICES ASSUME ExclInv, [Next]_vars PROVE ExclInv'
    OBVIOUS
  <1> USE DEF others, registry, locals
  <1>1. ASSUME NEW t \in Tasks, TaskStep(t) PROVE ExclInv'
    BY <1>1, ExclTask
  <1>2. ASSUME NEW s \in Servers, ServerStep(s) PROVE ExclInv'
    BY <1>2, ExclServer
  <1>3. CASE RequestShutdown
    BY <1>3, ExclStutter DEF RequestShutdown
  <1>4. CASE CancelBuilds
    BY <1>4, ExclStutter DEF CancelBuilds
  <1>5. CASE BecomeIdle
    BY <1>5, ExclStutter DEF BecomeIdle
  <1>6. CASE Restart
    BY <1>6, DefaultServer
    DEF Restart, ExclInv, ExclTypes, BuildHoldsLock, OneBuildPerServer,
        DeletionHoldsLock, PerServer, PerTask, PcSet, ReservedStep, DeleteSteps
  <1>7. CASE UNCHANGED vars
    BY <1>7, ExclStutter DEF vars
  <1> QED
    BY <1>1, <1>2, <1>3, <1>4, <1>5, <1>6, <1>7 DEF Next

(* From reserve_refresh_build to clear_build_lock a build is alone on its   *)
(* server, for any number of servers, calls, restarts and abandoned calls.  *)
THEOREM Exclusion == Spec => []BuildsExclusive
  <1>1. ExclInv => BuildsExclusive
    BY DEF ExclInv, ExclTypes, BuildHoldsLock, OneBuildPerServer,
           DeletionHoldsLock, BuildsExclusive, Reserved
  <1> QED BY ExclInit, ExclNext, <1>1, PTL DEF Spec

-----------------------------------------------------------------------------
(* Ownership: until remove_build_owner the token of a build is registered   *)
(* for its server, and a deletion in progress is announced in `deleting`.   *)
OwnedStep == ReservedStep \ {"deactivate", "unlock"}

OwnInv ==
  /\ \A t \in Tasks : pc[t] \in OwnedStep => owners[srv[t]] = t
  /\ \A s \in Servers : dpc[s] # "none" => s \in deleting

SafeInv == TypeOK /\ ExclInv /\ OwnInv

(* Steps that leave the registry of owners and the deletions alone and do   *)
(* not bring a task into the owned part of its life.                        *)
LEMMA OwnMove ==
  ASSUME TypeOK, OwnInv, UNCHANGED <<owners, dpc, deleting>>,
         \A u \in Tasks : pc'[u] \in OwnedStep => pc[u] \in OwnedStep /\ srv'[u] = srv[u]
  PROVE  OwnInv'
  BY DEF OwnInv

(* A call returns. *)
LEMMA OwnReturn ==
  ASSUME TypeOK, OwnInv, NEW t \in Tasks, Return(t), UNCHANGED <<owners, dpc, deleting>>
  PROVE  OwnInv'
  <1>1. \A u \in Tasks : pc'[u] \in OwnedStep => pc[u] \in OwnedStep /\ srv'[u] = srv[u]
    BY DEF Return, TypeOK, TasksOK, OwnedStep, ReservedStep
  <1> QED BY <1>1, OwnMove

(* A task moves on without changing its server. *)
LEMMA OwnGoOn ==
  ASSUME TypeOK, OwnInv, NEW t \in Tasks, NEW x, pc' = [pc EXCEPT ![t] = x],
         x \in OwnedStep => pc[t] \in OwnedStep, srv' = srv,
         UNCHANGED <<owners, dpc, deleting>>
  PROVE  OwnInv'
  <1>1. \A u \in Tasks : pc'[u] \in OwnedStep => pc[u] \in OwnedStep /\ srv'[u] = srv[u]
    BY DEF TypeOK, TasksOK
  <1> QED BY <1>1, OwnMove

(* No task moves. *)
LEMMA OwnQuiet ==
  ASSUME OwnInv, UNCHANGED <<pc, srv, owners, dpc, deleting>>
  PROVE  OwnInv'
  BY DEF OwnInv

(* Startup: a reservation registers the token where none was registered. *)
LEMMA OwnStartup ==
  ASSUME SafeInv, NEW t \in Tasks, Startup(t)
  PROVE  OwnInv'
  <1>0. TypeOK /\ OwnInv /\ ExclInv /\ t # NoTask
    BY BuildAssumption DEF SafeInv
  <1> USE <1>0 DEF OwnedStep, ReservedStep, others, registry, locals, Step, Outcome
  <1>1. CASE Validate(t)
    BY <1>1, OwnGoOn, OwnReturn DEF Validate
  <1>2. CASE Enroll(t)
    BY <1>2, OwnGoOn DEF Enroll
  <1>3. CASE ReserveDenied(t)
    BY <1>3, OwnReturn DEF ReserveDenied
  <1>4. CASE ReserveGranted(t)
    <2>1. /\ owners[srv[t]] = NoTask /\ owners' = [owners EXCEPT ![srv[t]] = t]
          /\ srv' = srv /\ dpc' = dpc /\ deleting' = deleting
      BY <1>4 DEF ReserveGranted, Busy
    <2>2. \A u \in Tasks : u # t => pc'[u] = pc[u]
      BY <1>4 DEF ReserveGranted, TypeOK, TasksOK
    <2>3. srv \in [Tasks -> Servers] /\ owners \in [Servers -> Owner]
      BY DEF TypeOK, TasksOK, MemoryOK
    <2> QED BY <2>1, <2>2, <2>3, BuildAssumption DEF OwnInv
  <1>5. CASE RefreshAfterProbe(t)
    BY <1>5, OwnGoOn, OwnReturn DEF RefreshAfterProbe
  <1>6. CASE InvalidateProfile(t)
    BY <1>6, OwnGoOn DEF InvalidateProfile
  <1>7. CASE StartInventory(t)
    BY <1>7, OwnGoOn DEF StartInventory
  <1>8. CASE RecordStartFailure(t)
    BY <1>8, OwnGoOn DEF RecordStartFailure
  <1>9. CASE AttachControl(t)
    BY <1>9, OwnGoOn DEF AttachControl
  <1>10. CASE TakePendingCancel(t)
    BY <1>10, OwnGoOn DEF TakePendingCancel
  <1>11. CASE ProbeCapabilities(t)
    BY <1>11, OwnGoOn DEF ProbeCapabilities, StartGenerationFailed
  <1>12. CASE StartGeneration(t)
    BY <1>12, OwnGoOn DEF StartGeneration, StartGenerationFailed
  <1>13. CASE LaunchBuild(t)
    BY <1>13, OwnGoOn DEF LaunchBuild
  <1> QED
    BY <1>1, <1>2, <1>3, <1>4, <1>5, <1>6, <1>7, <1>8, <1>9, <1>10, <1>11,
       <1>12, <1>13 DEF Startup

(* Teardown: a build removes its own token only, when it is the only build. *)
LEMMA OwnTeardown ==
  ASSUME SafeInv, NEW t \in Tasks, Teardown(t)
  PROVE  OwnInv'
  <1>0. TypeOK /\ OwnInv /\ ExclInv
    BY DEF SafeInv
  <1> USE <1>0 DEF OwnedStep, ReservedStep, others, registry, locals, Step, Outcome
  <1>1. CASE Settle(t)
    <2>1. \E x \in OwnedStep : pc' = [pc EXCEPT ![t] = x]
      BY <1>1 DEF Settle, Finalize, FinishFailedBuild, FinishInterruptedBuild,
          FinishCompletedBuild, FinishCancelledBuild
    <2> QED BY <1>1, <2>1, OwnGoOn DEF Settle
  <1>2. CASE Promote(t)
    BY <1>2, OwnGoOn DEF Promote, FinishPromotedBuild, FinishPromotionFailure
  <1>3. CASE FailGeneration(t)
    BY <1>3, OwnGoOn DEF FailGeneration
  <1>4. CASE AbandonGeneration(t)
    BY <1>4, OwnGoOn DEF AbandonGeneration
  <1>5. CASE FinishBuild(t)
    BY <1>5, OwnGoOn, OwnReturn DEF FinishBuild
  <1>6. CASE PersistRetry(t)
    BY <1>6, OwnGoOn DEF PersistRetry
  <1>7. CASE RemoveOwner(t)
    <2>1. /\ pc[t] = "disown" /\ pc' = [pc EXCEPT ![t] = "deactivate"]
          /\ srv' = srv /\ dpc' = dpc /\ deleting' = deleting
          /\ owners' = IF owners[srv[t]] = t
                       THEN [owners EXCEPT ![srv[t]] = NoTask] ELSE owners
      BY <1>7 DEF RemoveOwner
    <2>2. ASSUME NEW u \in Tasks, pc'[u] \in OwnedStep
          PROVE  owners'[srv'[u]] = u
      <3>1. u # t /\ pc[u] \in OwnedStep
        BY <2>1, <2>2 DEF TypeOK, TasksOK
      <3>2. srv[u] # srv[t]
        BY <2>1, <3>1 DEF ExclInv, OneBuildPerServer
      <3> QED BY <2>1, <3>1, <3>2 DEF OwnInv, TypeOK, MemoryOK, TasksOK
    <2> QED BY <2>1, <2>2 DEF OwnInv
  <1>8. CASE ClearActiveBuild(t)
    BY <1>8, OwnGoOn DEF ClearActiveBuild
  <1>9. CASE ClearBuildLock(t)
    BY <1>9, OwnGoOn DEF ClearBuildLock
  <1>10. CASE TakeRuntimeBuild(t)
    BY <1>10, OwnGoOn DEF TakeRuntimeBuild
  <1>11. CASE ClearPendingCancel(t)
    BY <1>11, OwnReturn DEF ClearPendingCancel
  <1> QED
    BY <1>1, <1>2, <1>3, <1>4, <1>5, <1>6, <1>7, <1>8, <1>9, <1>10, <1>11
    DEF Teardown

(* Every step of a call or of its build task. *)
LEMMA OwnTask ==
  ASSUME SafeInv, NEW t \in Tasks, TaskStep(t)
  PROVE  OwnInv'
  <1>0. TypeOK /\ OwnInv /\ ExclInv
    BY DEF SafeInv
  <1> USE <1>0 DEF OwnedStep, ReservedStep, others, registry, locals, Step, Outcome
  <1>1. ASSUME NEW s \in Servers, NEW k \in {"manual", "forced"}, Refresh(t, s, k)
        PROVE  OwnInv'
    <2>1. \A u \in Tasks : pc'[u] \in OwnedStep => pc[u] \in OwnedStep /\ srv'[u] = srv[u]
      BY <1>1 DEF Refresh, TypeOK, TasksOK
    <2> QED BY <1>1, <2>1, OwnMove DEF Refresh
  <1>2. ASSUME NEW s \in Servers, RefreshIfDue(t, s)
        PROVE  OwnInv'
    <2>1. \A u \in Tasks : pc'[u] \in OwnedStep => pc[u] \in OwnedStep /\ srv'[u] = srv[u]
      BY <1>2 DEF RefreshIfDue, TypeOK, TasksOK
    <2> QED BY <1>2, <2>1, OwnMove DEF RefreshIfDue
  <1>3. ASSUME NEW i \in Items, ReceiveEntry(t, i)
        PROVE  OwnInv'
    BY <1>3, OwnQuiet DEF ReceiveEntry
  <1>4. CASE CommitDue(t)
    BY <1>4, OwnQuiet DEF CommitDue
  <1>5. CASE EndLoop(t)
    BY <1>5, OwnGoOn
    DEF EndLoop, InventoryCompleted, InventoryFailed, StreamEnded, LeaveLoop
  <1>6. CASE BuildPanics(t)
    BY <1>6, OwnGoOn DEF BuildPanics
  <1>7. CASE ClientGone(t)
    <2>1. CASE pc[t] = "validate"
      BY <1>7, <2>1, OwnReturn DEF ClientGone
    <2>2. CASE pc[t] # "validate"
      <3>1. /\ owners' = [owners EXCEPT ![srv[t]] = Orphan]
            /\ dpc' = dpc /\ deleting' = deleting /\ pc[t] \in ReservedStep
        BY <1>7, <2>2 DEF ClientGone
      <3>2. ASSUME NEW u \in Tasks, pc'[u] \in OwnedStep
            PROVE  owners'[srv'[u]] = u
        <4>1. u # t /\ pc[u] \in OwnedStep /\ srv'[u] = srv[u]
          BY <1>7, <3>2 DEF ClientGone, Return, TypeOK, TasksOK
        <4>2. srv[u] # srv[t]
          BY <3>1, <4>1 DEF ExclInv, OneBuildPerServer
        <4> QED BY <3>1, <4>1, <4>2 DEF OwnInv, TypeOK, MemoryOK, TasksOK
      <3> QED BY <3>1, <3>2 DEF OwnInv
    <2> QED BY <2>1, <2>2
  <1> QED
    BY <1>1, <1>2, <1>3, <1>4, <1>5, <1>6, <1>7, OwnStartup, OwnTeardown
    DEF TaskStep

(* Ownership is kept by every step. *)
LEMMA OwnNext == SafeInv /\ [Next]_vars => OwnInv'
  <1> SUFFICES ASSUME SafeInv, [Next]_vars PROVE OwnInv'
    OBVIOUS
  <1>0. TypeOK /\ OwnInv
    BY DEF SafeInv
  <1> USE <1>0 DEF others, registry, locals
  <1>1. ASSUME NEW t \in Tasks, TaskStep(t) PROVE OwnInv'
    BY <1>1, OwnTask
  <1>2. ASSUME NEW s \in Servers, ServerStep(s) PROVE OwnInv'
    <2> USE <1>2 DEF DeleteStep
    <2>1. CASE Cancel(s)
      BY <2>1, OwnQuiet DEF Cancel
    <2>2. CASE ApplyCancel(s)
      BY <2>2, OwnQuiet DEF ApplyCancel
    <2>3. CASE \E e \in BOOLEAN : SetAutoRefresh(s, e)
      BY <2>3, OwnQuiet DEF SetAutoRefresh
    <2>4. CASE DeleteIndex(s)
      BY <2>4 DEF DeleteIndex, OwnInv, TypeOK, MemoryOK
    <2>5. CASE DeleteCancel(s) \/ DeleteWait(s) \/ DeleteLock(s) \/ DeleteRows(s)
               \/ DeleteRuntime(s) \/ DeleteUnpend(s)
      <3>1. /\ UNCHANGED <<pc, srv, owners, deleting>>
            /\ dpc[s] # "none" /\ \E x : dpc' = [dpc EXCEPT ![s] = x]
        BY <2>5 DEF DeleteCancel, DeleteWait, DeleteLock, DeleteRows, DeleteRuntime,
                    DeleteUnpend
      <3> QED BY <3>1 DEF OwnInv, TypeOK, MemoryOK
    <2>6. CASE DeleteDone(s)
      BY <2>6 DEF DeleteDone, OwnInv, TypeOK, MemoryOK
    <2>7. CASE DeadlinesPass(s)
      BY <2>7, OwnQuiet DEF DeadlinesPass
    <2>8. CASE \E g \in Gens : Cleanup(s, g)
      BY <2>8, OwnQuiet DEF Cleanup
    <2> QED
      BY <2>1, <2>2, <2>3, <2>4, <2>5, <2>6, <2>7, <2>8
      DEF ServerStep, DeletionStep
  <1>3. CASE RequestShutdown
    BY <1>3, OwnQuiet DEF RequestShutdown
  <1>4. CASE CancelBuilds
    BY <1>4, OwnQuiet DEF CancelBuilds
  <1>5. CASE BecomeIdle
    BY <1>5, OwnQuiet DEF BecomeIdle
  <1>6. CASE Restart
    BY <1>6 DEF Restart, OwnInv, OwnedStep, ReservedStep, PerServer, PerTask
  <1>7. CASE UNCHANGED vars
    BY <1>7, OwnQuiet DEF vars
  <1> QED
    BY <1>1, <1>2, <1>3, <1>4, <1>5, <1>6, <1>7 DEF Next

(* Types, exclusion and ownership together are inductive. *)
LEMMA SafeInvariant == Spec => []SafeInv
  <1>1. Init => OwnInv
    BY DEF Init, FreshProcess, OwnInv, OwnedStep, ReservedStep, PerServer, PerTask
  <1>2. Init => SafeInv
    BY <1>1, TypeInit, ExclInit DEF SafeInv
  <1>3. SafeInv /\ [Next]_vars => SafeInv'
    BY TypeNext, ExclNext, OwnNext DEF SafeInv
  <1> QED BY <1>2, <1>3, PTL DEF Spec

-----------------------------------------------------------------------------
(* A build that writes, promotes or fails a generation knows its number.    *)
BuildingStep == {"launch", "loop", "settle", "promote", "fail", "abandon"}

GenInv == \A t \in Tasks : pc[t] \in BuildingStep => gen[t] \in Gens

(* Steps of one task that keep its generation number. *)
LEMMA GenGoOn ==
  ASSUME TypeOK, GenInv, NEW t \in Tasks, NEW x, pc' = [pc EXCEPT ![t] = x],
         x \in BuildingStep => pc[t] \in BuildingStep, gen' = gen
  PROVE  GenInv'
  BY DEF GenInv, TypeOK, TasksOK

(* A call returns. *)
LEMMA GenReturn ==
  ASSUME TypeOK, GenInv, NEW t \in Tasks, Return(t)
  PROVE  GenInv'
  BY DEF GenInv, Return, TypeOK, TasksOK, BuildingStep

(* Startup: start_generation numbers the generation it inserts. *)
LEMMA GenStartup ==
  ASSUME TypeOK, GenInv, NEW t \in Tasks, Startup(t)
  PROVE  GenInv'
  <1> USE DEF BuildingStep, locals, Step, Outcome
  <1>1. CASE Validate(t)
    BY <1>1, GenGoOn, GenReturn DEF Validate
  <1>2. CASE Enroll(t)
    BY <1>2, GenGoOn DEF Enroll
  <1>3. CASE ReserveDenied(t)
    BY <1>3, GenReturn DEF ReserveDenied
  <1>4. CASE ReserveGranted(t)
    BY <1>4, GenGoOn DEF ReserveGranted
  <1>5. CASE RefreshAfterProbe(t)
    BY <1>5, GenGoOn, GenReturn DEF RefreshAfterProbe
  <1>6. CASE InvalidateProfile(t)
    BY <1>6, GenGoOn DEF InvalidateProfile
  <1>7. CASE StartInventory(t)
    BY <1>7, GenGoOn DEF StartInventory
  <1>8. CASE RecordStartFailure(t)
    BY <1>8, GenGoOn DEF RecordStartFailure
  <1>9. CASE AttachControl(t)
    BY <1>9, GenGoOn DEF AttachControl
  <1>10. CASE TakePendingCancel(t)
    BY <1>10, GenGoOn DEF TakePendingCancel
  <1>11. CASE ProbeCapabilities(t)
    BY <1>11, GenGoOn DEF ProbeCapabilities, StartGenerationFailed
  <1>12. CASE StartGeneration(t)
    <2>1. CASE StartGenerationFailed(t) /\ gen' = gen
      BY <1>12, <2>1, GenGoOn DEF StartGeneration, StartGenerationFailed
    <2>2. CASE \E g \in Gens : gen' = [gen EXCEPT ![t] = g]
      <3>1. \A u \in Tasks : u # t => pc'[u] = pc[u]
        BY <1>12 DEF StartGeneration, StartGenerationFailed, TypeOK, TasksOK
      <3> QED BY <2>2, <3>1 DEF GenInv, TypeOK, TasksOK
    <2> QED BY <1>12, <2>1, <2>2 DEF StartGeneration
  <1>13. CASE LaunchBuild(t)
    BY <1>13, GenGoOn DEF LaunchBuild
  <1> QED
    BY <1>1, <1>2, <1>3, <1>4, <1>5, <1>6, <1>7, <1>8, <1>9, <1>10, <1>11,
       <1>12, <1>13 DEF Startup

(* Every other step of a call or of its build task. *)
LEMMA GenTask ==
  ASSUME TypeOK, GenInv, NEW t \in Tasks, TaskStep(t)
  PROVE  GenInv'
  <1> USE DEF BuildingStep, locals, Step, Outcome
  <1>1. CASE \E s \in Servers, k \in {"manual", "forced"} : Refresh(t, s, k)
    BY <1>1, GenGoOn DEF Refresh
  <1>2. CASE \E s \in Servers : RefreshIfDue(t, s)
    BY <1>2, GenGoOn DEF RefreshIfDue
  <1>3. CASE (\E i \in Items : ReceiveEntry(t, i)) \/ CommitDue(t)
    BY <1>3 DEF ReceiveEntry, CommitDue, GenInv
  <1>4. CASE EndLoop(t)
    BY <1>4, GenGoOn
    DEF EndLoop, InventoryCompleted, InventoryFailed, StreamEnded, LeaveLoop
  <1>5. CASE BuildPanics(t)
    BY <1>5, GenGoOn DEF BuildPanics
  <1>6. CASE Teardown(t)
    <2>1. CASE Settle(t)
      <3>1. \E x : pc' = [pc EXCEPT ![t] = x]
        BY <2>1 DEF Settle, Finalize, FinishFailedBuild, FinishInterruptedBuild,
          FinishCompletedBuild, FinishCancelledBuild
      <3> QED BY <2>1, <3>1, GenGoOn DEF Settle
    <2>2. CASE Promote(t) \/ FailGeneration(t) \/ AbandonGeneration(t)
      BY <2>2, GenGoOn DEF Promote, FailGeneration, AbandonGeneration,
          FinishPromotedBuild, FinishPromotionFailure
    <2>3. CASE FinishBuild(t)
      BY <2>3, GenGoOn, GenReturn DEF FinishBuild
    <2>4. CASE PersistRetry(t) \/ RemoveOwner(t) \/ ClearActiveBuild(t)
      BY <2>4, GenGoOn DEF PersistRetry, RemoveOwner, ClearActiveBuild
    <2>5. CASE ClearBuildLock(t) \/ TakeRuntimeBuild(t)
      BY <2>5, GenGoOn DEF ClearBuildLock, TakeRuntimeBuild
    <2>6. CASE ClearPendingCancel(t)
      BY <2>6, GenReturn DEF ClearPendingCancel
    <2> QED
      BY <1>6, <2>1, <2>2, <2>3, <2>4, <2>5, <2>6 DEF Teardown
  <1>7. CASE ClientGone(t)
    BY <1>7, GenReturn DEF ClientGone
  <1> QED
    BY <1>1, <1>2, <1>3, <1>4, <1>5, <1>6, <1>7, GenStartup DEF TaskStep

(* Only the steps of tasks move a task. *)
LEMMA GenNext == TypeOK /\ GenInv /\ [Next]_vars => GenInv'
  <1> SUFFICES ASSUME TypeOK, GenInv, [Next]_vars PROVE GenInv'
    OBVIOUS
  <1>1. ASSUME NEW t \in Tasks, TaskStep(t) PROVE GenInv'
    BY <1>1, GenTask
  <1>2. ASSUME NEW s \in Servers, ServerStep(s) PROVE GenInv'
    <2>1. UNCHANGED <<pc, gen>>
      BY <1>2 DEF ServerStep, DeletionStep, Cancel, ApplyCancel, SetAutoRefresh,
        DeleteIndex, DeleteCancel, DeleteWait, DeleteLock, DeleteRows,
        DeleteRuntime, DeleteUnpend, DeleteDone, DeadlinesPass, Cleanup, locals
    <2> QED BY <2>1 DEF GenInv
  <1>3. CASE RequestShutdown \/ CancelBuilds \/ BecomeIdle \/ UNCHANGED vars
    BY <1>3 DEF RequestShutdown, CancelBuilds, BecomeIdle, vars, locals, GenInv
  <1>4. CASE Restart
    BY <1>4 DEF Restart, GenInv, PerTask, BuildingStep
  <1> QED BY <1>1, <1>2, <1>3, <1>4 DEF Next

-----------------------------------------------------------------------------
(* What one step does to the active generation of a server: nothing, replace *)
(* it by exactly one other, or take it away with the right to do so.        *)
SameActive(s) ==
  \A g \in Gens : gens'[s][g] = "active" <=> gens[s][g] = "active"

NewActive(s) ==
  \E g \in Gens : \A h \in Gens : gens'[s][h] = "active" <=> h = g

MayTake(s) ==
  \/ lock[s] = "delete" /\ s \in deleting
  \/ \E t \in Tasks : pc[t] = "invalidate" /\ srv[t] = s /\ owners[s] = t

TakenAway(s) == MayTake(s) /\ \A g \in Gens : gens'[s][g] # "active"

ActiveStep == \A s \in Servers : SameActive(s) \/ NewActive(s) \/ TakenAway(s)

(* No generation row is written. *)
LEMMA ActiveKept ==
  ASSUME gens' = gens
  PROVE  ActiveStep
  BY DEF ActiveStep, SameActive

(* One row that is not active is inserted, updated or deleted. *)
LEMMA ActiveOneRow ==
  ASSUME TypeOK, NEW s \in Servers, NEW g, NEW x, x # "active",
         g \in Gens => gens[s][g] # "active",
         gens' = [gens EXCEPT ![s][g] = x]
  PROVE  ActiveStep
  <1>1. \A r \in Servers : \A h \in Gens :
          gens'[r][h] = IF r = s /\ h = g THEN x ELSE gens[r][h]
    BY DEF TypeOK, StoreOK
  <1> QED BY <1>1 DEF ActiveStep, SameActive

(* A row that start_generation or record_failed_attempt inserts is new. *)
LEMMA NextGenIsNew ==
  ASSUME TypeOK, NEW s \in Servers, NEW g \in Gens, IsNextGen(s, g)
  PROVE  gens[s][g] = "absent"
  <1>1. g \in Nat /\ ~(g < g)
    BY BuildAssumption DEF Gens
  <1> QED BY <1>1 DEF IsNextGen

(* All rows of one server are deleted. *)
LEMMA ActiveErased ==
  ASSUME TypeOK, NEW s \in Servers, MayTake(s),
         gens' = [gens EXCEPT ![s] = PerGen("absent")]
  PROVE  ActiveStep
  BY DEF ActiveStep, SameActive, TakenAway, TypeOK, StoreOK, PerGen

(* promote_with_profile. *)
LEMMA ActivePromote ==
  ASSUME TypeOK, GenInv, NEW t \in Tasks, Promote(t)
  PROVE  ActiveStep
  <1>1. CASE gens' = gens
    BY <1>1, ActiveKept
  <1>2. CASE gens' = [gens EXCEPT ![srv[t]] = [h \in Gens |->
                        IF h = gen[t] THEN "active"
                        ELSE IF @[h] = "active" THEN "superseded" ELSE @[h]]]
    <2>1. gen[t] \in Gens /\ srv[t] \in Servers
      BY DEF Promote, GenInv, BuildingStep, TypeOK, TasksOK
    <2>2. NewActive(srv[t])
      BY <1>2, <2>1 DEF NewActive, TypeOK, StoreOK
    <2>3. \A r \in Servers : r # srv[t] => SameActive(r)
      BY <1>2 DEF SameActive, TypeOK, StoreOK
    <2> QED BY <2>2, <2>3 DEF ActiveStep
  <1> QED BY <1>1, <1>2 DEF Promote

(* Steps of calls and build tasks. *)
LEMMA ActiveTask ==
  ASSUME SafeInv, GenInv, NEW t \in Tasks, TaskStep(t)
  PROVE  ActiveStep
  <1>0. TypeOK /\ OwnInv /\ srv[t] \in Servers
    BY DEF SafeInv, TypeOK, TasksOK
  <1> USE <1>0
  <1>1. CASE InvalidateProfile(t)
    <2>1. MayTake(srv[t])
      BY <1>1 DEF InvalidateProfile, OwnInv, OwnedStep, ReservedStep, MayTake
    <2>2. gens' = gens \/ gens' = [gens EXCEPT ![srv[t]] = PerGen("absent")]
      BY <1>1 DEF InvalidateProfile
    <2> QED BY <2>1, <2>2, ActiveKept, ActiveErased
  <1>2. CASE RecordStartFailure(t)
    BY <1>2, ActiveKept, ActiveOneRow, NextGenIsNew DEF RecordStartFailure
  <1>3. CASE StartGeneration(t)
    <2>1. \/ gens' = gens
          \/ \E g \in Gens : /\ IsNextGen(srv[t], g)
                            /\ gens' = [gens EXCEPT ![srv[t]][g] = "staging"]
      BY <1>3 DEF StartGeneration
    <2>2. ASSUME NEW g \in Gens, IsNextGen(srv[t], g),
                 gens' = [gens EXCEPT ![srv[t]][g] = "staging"]
          PROVE  ActiveStep
      <3>1. gens[srv[t]][g] # "active"
        BY <2>2, NextGenIsNew
      <3> QED BY <2>2, <3>1, ActiveOneRow
    <2> QED BY <2>1, <2>2, ActiveKept
  <1>4. CASE Promote(t)
    BY <1>4, ActivePromote
  <1>5. CASE FailGeneration(t)
    BY <1>5, ActiveKept, ActiveOneRow DEF FailGeneration
  <1>6. CASE AbandonGeneration(t)
    BY <1>6, ActiveKept, ActiveOneRow DEF AbandonGeneration
  <1>7. CASE gens' = gens
    BY <1>7, ActiveKept
  <1>8. CASE Startup(t)
    BY <1>1, <1>2, <1>3, <1>7, <1>8
    DEF Startup, Validate, Enroll, ReserveDenied, ReserveGranted,
        RefreshAfterProbe, StartInventory, AttachControl, TakePendingCancel,
        ProbeCapabilities, LaunchBuild, durable
  <1>9. CASE Teardown(t)
    BY <1>4, <1>5, <1>6, <1>7, <1>9
    DEF Teardown, Settle, FinishBuild, PersistRetry, RemoveOwner,
        ClearActiveBuild, ClearBuildLock, TakeRuntimeBuild, ClearPendingCancel,
        durable
  <1>10. CASE EndLoop(t) \/ BuildPanics(t) \/ ClientGone(t) \/ CommitDue(t)
    BY <1>7, <1>10
    DEF EndLoop, InventoryCompleted, InventoryFailed, StreamEnded, LeaveLoop,
        BuildPanics, ClientGone, CommitDue, durable
  <1> QED
    BY <1>7, <1>8, <1>9, <1>10
    DEF TaskStep, Refresh, RefreshIfDue, ReceiveEntry, durable

(* Operator controls, deletion, time and cleanup: only the transaction of a *)
(* deletion, made under the delete lock, touches an active row.             *)
LEMMA ActiveServer ==
  ASSUME SafeInv, NEW s \in Servers, ServerStep(s)
  PROVE  ActiveStep
  <1>0. TypeOK
    BY DEF SafeInv
  <1>1. CASE DeleteRows(s)
    <2>1. MayTake(s)
      BY <1>1 DEF DeleteRows, DeleteStep, SafeInv, ExclInv, DeletionHoldsLock,
                  OwnInv, MayTake
    <2>2. gens' = gens \/ gens' = [gens EXCEPT ![s] = PerGen("absent")]
      BY <1>1 DEF DeleteRows, durable
    <2> QED BY <1>0, <2>1, <2>2, ActiveKept, ActiveErased
  <1>2. ASSUME NEW g \in Gens, Cleanup(s, g)
        PROVE  ActiveStep
    BY <1>0, <1>2, ActiveOneRow DEF Cleanup, Obsolete
  <1>3. CASE gens' = gens
    BY <1>3, ActiveKept
  <1> QED
    BY <1>1, <1>2, <1>3
    DEF ServerStep, DeletionStep, Cancel, ApplyCancel, SetAutoRefresh,
        DeleteIndex, DeleteCancel, DeleteWait, DeleteLock, DeleteRuntime,
        DeleteUnpend, DeleteDone, DeadlinesPass, durable

(* Every step of the system. *)
LEMMA ActiveNext == SafeInv /\ GenInv /\ [Next]_vars => ActiveStep
  <1> SUFFICES ASSUME SafeInv, GenInv, [Next]_vars PROVE ActiveStep
    OBVIOUS
  <1>1. ASSUME NEW t \in Tasks, TaskStep(t) PROVE ActiveStep
    BY <1>1, ActiveTask
  <1>2. ASSUME NEW s \in Servers, ServerStep(s) PROVE ActiveStep
    BY <1>2, ActiveServer
  <1>3. CASE RequestShutdown \/ CancelBuilds \/ BecomeIdle \/ UNCHANGED vars
    BY <1>3, ActiveKept
    DEF RequestShutdown, CancelBuilds, BecomeIdle, vars, durable
  <1>4. CASE Restart
    BY <1>4 DEF Restart, RecoveredGens, ActiveStep, SameActive
  <1> QED BY <1>1, <1>2, <1>3, <1>4 DEF Next

(* The invariant behind the two theorems below. *)
LEMMA GenInvariant == Spec => []GenInv
  <1>1. Init => GenInv
    BY DEF Init, FreshProcess, GenInv, PerTask, BuildingStep
  <1> QED BY <1>1, GenNext, Typing, PTL DEF Spec

(* A server never has two active generations: status and search find one    *)
(* answer, whatever builds, deletions, failures and restarts did before.    *)
THEOREM SingleActive == Spec => []OneActive
  <1>1. Init => OneActive
    BY DEF Init, EmptyStore, OneActive, PerServer, PerGen
  <1>2. OneActive /\ ActiveStep => OneActive'
    BY DEF OneActive, ActiveStep, SameActive, NewActive, TakenAway
  <1>3. OneActive /\ SafeInv /\ GenInv /\ [Next]_vars => OneActive'
    BY <1>2, ActiveNext
  <1> QED BY <1>1, <1>3, SafeInvariant, GenInvariant, PTL DEF Spec

(* No failed, cancelled, interrupted or restarted build and no cleanup ever *)
(* leaves a server without the index it had.                                *)
THEOREM IndexSurvives == Spec => ActiveSurvives
  <1>1. ActiveStep =>
          \A s \in Servers : HasActive(s) /\ ~HasActive(s)' => MayTake(s)
    BY DEF ActiveStep, SameActive, NewActive, TakenAway, HasActive
  <1>2. SafeInv /\ GenInv /\ [Next]_vars =>
          [\A s \in Servers : HasActive(s) /\ ~HasActive(s)' =>
             \/ lock[s] = "delete" /\ s \in deleting
             \/ \E t \in Tasks : pc[t] = "invalidate" /\ srv[t] = s
                                 /\ owners[s] = t]_vars
    BY <1>1, ActiveNext DEF MayTake
  <1> QED
    BY <1>2, SafeInvariant, GenInvariant, PTL DEF Spec, ActiveSurvives
-----------------------------------------------------------------------------
(* Release: what the registries hold, a task will give back.  The converse  *)
(* of ownership needs two facts more: clear_active_build comes before       *)
(* clear_build_lock, and a published control is the build's own or gone, so *)
(* that build_completion_is_current never turns the owner away.             *)
AttachedStep ==
  {"attached", "probe", "startgen", "launch", "loop", "settle", "promote",
   "fail", "abandon"}

Attached(t) == pc[t] \in AttachedStep \/ (pc[t] = "finish" /\ withCtl[t])

ControlIsOurs ==
  \A t \in Tasks : Attached(t) => srv[t] \notin build \/ ctl[srv[t]] = t

ActiveHasTask ==
  \A s \in Servers : s \in active =>
    \/ owners[s] = Orphan
    \/ \E t \in Tasks : Reserved(t, s) /\ pc[t] # "unlock"

LockHasTask ==
  \A s \in Servers : lock[s] = "build" =>
    owners[s] = Orphan \/ \E t \in Tasks : Reserved(t, s)

OwnerHasTask ==
  \A s \in Servers : owners[s] \in Tasks =>
    pc[owners[s]] \in OwnedStep /\ srv[owners[s]] = s

ReleaseInv == ControlIsOurs /\ ActiveHasTask /\ LockHasTask /\ OwnerHasTask

(* Steps that leave registries and controls alone: no reserved task turns   *)
(* away from its release, none becomes attached.                            *)
LEMMA ReleaseMove ==
  ASSUME ReleaseInv, UNCHANGED <<owners, active, lock, build, ctl>>,
         \A u \in Tasks :
           /\ pc[u] \in ReservedStep =>
                /\ srv'[u] = srv[u] /\ pc'[u] \in ReservedStep
                /\ pc'[u] = "unlock" => pc[u] = "unlock"
           /\ pc[u] \in OwnedStep => pc'[u] \in OwnedStep
           /\ Attached(u)' => Attached(u) /\ srv'[u] = srv[u]
  PROVE  ReleaseInv'
  <1>0. OwnedStep \subseteq ReservedStep
    BY DEF OwnedStep
  <1>1. ControlIsOurs'
    BY DEF ReleaseInv, ControlIsOurs
  <1>2. ActiveHasTask' /\ LockHasTask'
    BY DEF ReleaseInv, ActiveHasTask, LockHasTask, Reserved
  <1>3. OwnerHasTask'
    BY <1>0 DEF ReleaseInv, OwnerHasTask
  <1> QED BY <1>1, <1>2, <1>3 DEF ReleaseInv

(* The same for a step of one task. *)
LEMMA ReleaseGoOn ==
  ASSUME TypeOK, ReleaseInv, NEW t \in Tasks, NEW x,
         pc' = [pc EXCEPT ![t] = x], srv' = srv,
         \A u \in Tasks \ {t} : withCtl'[u] = withCtl[u],
         pc[t] \in ReservedStep => pc[t] \in OwnedStep /\ x \in OwnedStep,
         x \in AttachedStep \/ (x = "finish" /\ withCtl'[t]) => Attached(t),
         UNCHANGED <<owners, active, lock, build, ctl>>
  PROVE  ReleaseInv'
  <1>1. \A u \in Tasks : pc'[u] = IF u = t THEN x ELSE pc[u]
    BY DEF TypeOK, TasksOK
  <1>2. ASSUME NEW u \in Tasks PROVE Attached(u)' => Attached(u)
    BY <1>1 DEF Attached
  <1>3. ASSUME NEW u \in Tasks, pc[u] \in ReservedStep
        PROVE  /\ pc'[u] \in ReservedStep /\ (pc'[u] = "unlock" => pc[u] = "unlock")
               /\ pc[u] \in OwnedStep => pc'[u] \in OwnedStep
    BY <1>1, <1>3 DEF OwnedStep
  <1>4. OwnedStep \subseteq ReservedStep
    BY DEF OwnedStep
  <1> QED BY <1>2, <1>3, <1>4, ReleaseMove

(* A call that holds no reservation returns. *)
LEMMA ReleaseReturn ==
  ASSUME TypeOK, ReleaseInv, NEW t \in Tasks, Return(t), pc[t] \notin ReservedStep,
         UNCHANGED <<owners, active, lock, build, ctl>>
  PROVE  ReleaseInv'
  <1>1. \A u \in Tasks : u # t => /\ pc'[u] = pc[u] /\ srv'[u] = srv[u]
                                  /\ withCtl'[u] = withCtl[u]
    BY DEF Return, TypeOK, TasksOK
  <1>2. ~Attached(t)'
    BY DEF Return, Attached, AttachedStep, TypeOK, TasksOK
  <1>3. OwnedStep \subseteq ReservedStep
    BY DEF OwnedStep
  <1> QED BY <1>1, <1>2, <1>3, ReleaseMove DEF Attached

(* A task that is attached holds a reservation. *)
LEMMA AttachedIsReserved ==
  ASSUME NEW t \in Tasks, Attached(t)
  PROVE  pc[t] \in ReservedStep
  BY DEF Attached, AttachedStep, ReservedStep

(* Nobody moves, and registries and controls stay. *)
LEMMA ReleaseQuiet ==
  ASSUME ReleaseInv,
         UNCHANGED <<pc, srv, withCtl, owners, active, lock, build, ctl>>
  PROVE  ReleaseInv'
  BY ReleaseMove DEF Attached

(* Startup: the reservation that is granted found the registries free. *)
LEMMA ReleaseGranted ==
  ASSUME SafeInv, ReleaseInv, NEW t \in Tasks, ReserveGranted(t)
  PROVE  ReleaseInv'
  <1>0. /\ TypeOK /\ srv[t] \in Servers /\ pc[t] = "reserve"
        /\ \A u \in Tasks : pc[u] \in ReservedStep => srv[u] # srv[t]
    BY DEF SafeInv, TypeOK, TasksOK, ExclInv, BuildHoldsLock, ReserveGranted, Busy,
           Step
  <1>1. /\ owners' = [owners EXCEPT ![srv[t]] = t] /\ active' = active \cup {srv[t]}
        /\ lock' = [lock EXCEPT ![srv[t]] = "build"] /\ build' = build \cup {srv[t]}
        /\ ctl' = [ctl EXCEPT ![srv[t]] = NoTask]
        /\ srv' = srv /\ withCtl' = withCtl
    BY DEF ReserveGranted, locals, outcome
  <1>2. /\ pc'[t] \in {"invalidate", "starting"}
        /\ \A u \in Tasks : u # t => pc'[u] = pc[u]
    BY <1>0 DEF ReserveGranted, Step, TypeOK, TasksOK
  <1>3. /\ owners \in [Servers -> Owner] /\ lock \in [Servers -> {"free", "build", "delete"}]
        /\ ctl \in [Servers -> Owner] /\ srv \in [Tasks -> Servers]
    BY <1>0 DEF TypeOK, MemoryOK, TasksOK
  <1>4. Reserved(t, srv[t])' /\ pc'[t] # "unlock" /\ pc'[t] \in OwnedStep /\ ~Attached(t)'
    BY <1>1, <1>2 DEF Reserved, ReservedStep, OwnedStep, Attached, AttachedStep
  <1>5. ControlIsOurs'
    <2> SUFFICES ASSUME NEW u \in Tasks, Attached(u)'
                 PROVE  srv[u] \notin build' \/ ctl'[srv[u]] = u
      BY <1>1 DEF ControlIsOurs
    <2>1. u # t /\ Attached(u)
      BY <1>1, <1>2, <1>4 DEF Attached
    <2>2. srv[u] # srv[t]
      BY <1>0, <2>1, AttachedIsReserved
    <2> QED BY <1>1, <1>3, <2>1, <2>2 DEF ReleaseInv, ControlIsOurs
  <1>6. \A s \in Servers : s # srv[t] =>
          /\ owners'[s] = owners[s] /\ lock'[s] = lock[s] /\ (s \in active' <=> s \in active)
          /\ owners[s] # t /\ \A u \in Tasks : Reserved(u, s) => u # t /\ Reserved(u, s)'
    BY <1>0, <1>1, <1>2, <1>3 DEF Reserved, ReleaseInv, OwnerHasTask
  <1>7. ActiveHasTask' /\ LockHasTask'
    <2>1. ASSUME NEW s \in Servers, s \in active'
          PROVE  owners'[s] = Orphan \/ \E u \in Tasks : Reserved(u, s)' /\ pc'[u] # "unlock"
      <3>1. CASE s = srv[t]
        BY <1>1, <1>4, <3>1 DEF Reserved
      <3>2. CASE s # srv[t]
        BY <1>2, <1>6, <2>1, <3>2 DEF ReleaseInv, ActiveHasTask
      <3> QED BY <3>1, <3>2
    <2>2. ASSUME NEW s \in Servers, lock'[s] = "build"
          PROVE  owners'[s] = Orphan \/ \E u \in Tasks : Reserved(u, s)'
      <3>1. CASE s = srv[t]
        BY <1>1, <1>4, <3>1 DEF Reserved
      <3>2. CASE s # srv[t]
        BY <1>6, <2>2, <3>2 DEF ReleaseInv, LockHasTask
      <3> QED BY <3>1, <3>2
    <2> QED BY <2>1, <2>2 DEF ActiveHasTask, LockHasTask
  <1>8. OwnerHasTask'
    BY <1>1, <1>2, <1>3, <1>4, <1>6 DEF ReleaseInv, OwnerHasTask
  <1> QED BY <1>5, <1>7, <1>8 DEF ReleaseInv

(* attach_refresh_control publishes the control of the only build there is. *)
LEMMA ReleaseAttach ==
  ASSUME SafeInv, ReleaseInv, NEW t \in Tasks, AttachControl(t)
  PROVE  ReleaseInv'
  <1>0. TypeOK /\ srv[t] \in Servers /\ pc[t] = "attach" /\ pc[t] \in ReservedStep
    BY DEF SafeInv, TypeOK, TasksOK, AttachControl, ReservedStep
  <1> USE <1>0 DEF OwnedStep, ReservedStep, AttachedStep
  <1>1. CASE pc' = [pc EXCEPT ![t] = "attached"] /\ ctl' = [ctl EXCEPT ![srv[t]] = t]
             /\ UNCHANGED outcome
    <2>1. UNCHANGED <<owners, active, lock, build, srv, withCtl>>
      BY <1>1 DEF AttachControl, registry, locals, outcome
    <2>2. \A u \in Tasks : pc'[u] = IF u = t THEN "attached" ELSE pc[u]
      BY <1>1 DEF TypeOK, TasksOK
    <2>3. ActiveHasTask' /\ LockHasTask' /\ OwnerHasTask'
      BY <2>1, <2>2
      DEF ReleaseInv, ActiveHasTask, LockHasTask, OwnerHasTask, Reserved
    <2>4. ASSUME NEW u \in Tasks, Attached(u)'
          PROVE  srv[u] \notin build \/ ctl'[srv[u]] = u
      <3>1. CASE u = t
        BY <1>1, <3>1 DEF TypeOK, MemoryOK
      <3>2. CASE u # t
        <4>1. Attached(u)
          BY <2>1, <2>2, <2>4, <3>2 DEF Attached
        <4>2. srv[u] # srv[t]
          BY <3>2, <4>1, AttachedIsReserved DEF SafeInv, ExclInv, OneBuildPerServer
        <4> QED BY <1>1, <4>1, <4>2 DEF ReleaseInv, ControlIsOurs, TypeOK, MemoryOK
      <3> QED BY <3>1, <3>2
    <2> QED BY <2>1, <2>3, <2>4 DEF ReleaseInv, ControlIsOurs
  <1>2. CASE Outcome(t, "finish", "none", FALSE) /\ UNCHANGED ctl
    BY <1>2, ReleaseGoOn DEF AttachControl, registry, locals, Outcome, TypeOK, TasksOK
  <1>3. CASE Outcome(t, "finish", "error", FALSE) /\ UNCHANGED ctl
    BY <1>3, ReleaseGoOn DEF AttachControl, registry, locals, Outcome, TypeOK, TasksOK
  <1>4. CASE pc' = [pc EXCEPT ![t] = "startfail"] /\ UNCHANGED <<ctl, outcome>>
    BY <1>4, ReleaseGoOn DEF AttachControl, registry, locals, outcome
  <1> QED BY <1>1, <1>2, <1>3, <1>4 DEF AttachControl

(* The other steps of startup. *)
LEMMA ReleaseStartup ==
  ASSUME SafeInv, ReleaseInv, NEW t \in Tasks, Startup(t)
  PROVE  ReleaseInv'
  <1>0. TypeOK /\ withCtl \in [Tasks -> BOOLEAN]
    BY DEF SafeInv, TypeOK, TasksOK
  <1> USE <1>0 DEF OwnedStep, ReservedStep, AttachedStep, registry, runtime, locals,
                   outcome, Step, Outcome
  <1>1. CASE Validate(t)
    BY <1>1, ReleaseGoOn, ReleaseReturn DEF Validate
  <1>2. CASE Enroll(t)
    BY <1>2, ReleaseGoOn DEF Enroll
  <1>3. CASE ReserveDenied(t)
    BY <1>3, ReleaseReturn DEF ReserveDenied
  <1>4. CASE ReserveGranted(t)
    BY <1>4, ReleaseGranted
  <1>5. CASE RefreshAfterProbe(t)
    BY <1>5, ReleaseGoOn, ReleaseReturn DEF RefreshAfterProbe
  <1>6. CASE InvalidateProfile(t)
    BY <1>6, ReleaseGoOn DEF InvalidateProfile
  <1>7. CASE StartInventory(t)
    BY <1>7, ReleaseGoOn DEF StartInventory
  <1>8. CASE RecordStartFailure(t)
    BY <1>8, ReleaseGoOn DEF RecordStartFailure
  <1>9. CASE AttachControl(t)
    BY <1>9, ReleaseAttach
  <1>10. CASE TakePendingCancel(t)
    <2>0. pc[t] = "attached"
      BY <1>10 DEF TakePendingCancel
    <2>1. Attached(t) /\ pc[t] \in OwnedStep
      BY <2>0 DEF Attached
    <2>2. \E x \in OwnedStep : pc' = [pc EXCEPT ![t] = x]
      BY <1>10 DEF TakePendingCancel
    <2>3. \A u \in Tasks \ {t} : withCtl'[u] = withCtl[u]
      BY <1>10 DEF TakePendingCancel
    <2> QED BY <1>10, <2>1, <2>2, <2>3, ReleaseGoOn DEF TakePendingCancel
  <1>11. CASE ProbeCapabilities(t)
    <2>0. pc[t] = "probe"
      BY <1>11 DEF ProbeCapabilities
    <2>1. Attached(t) /\ pc[t] \in OwnedStep
      BY <2>0 DEF Attached
    <2>2. \E x \in OwnedStep : pc' = [pc EXCEPT ![t] = x]
      BY <1>11 DEF ProbeCapabilities, StartGenerationFailed
    <2>3. \A u \in Tasks \ {t} : withCtl'[u] = withCtl[u]
      BY <1>11 DEF ProbeCapabilities, StartGenerationFailed
    <2> QED BY <1>11, <2>1, <2>2, <2>3, ReleaseGoOn DEF ProbeCapabilities
  <1>12. CASE StartGeneration(t)
    <2>0. pc[t] = "startgen"
      BY <1>12 DEF StartGeneration
    <2>1. Attached(t) /\ pc[t] \in OwnedStep
      BY <2>0 DEF Attached
    <2>2. \E x \in OwnedStep : pc' = [pc EXCEPT ![t] = x]
      BY <1>12 DEF StartGeneration, StartGenerationFailed
    <2>3. \A u \in Tasks \ {t} : withCtl'[u] = withCtl[u]
      BY <1>12 DEF StartGeneration, StartGenerationFailed
    <2> QED BY <1>12, <2>1, <2>2, <2>3, ReleaseGoOn DEF StartGeneration
  <1>13. CASE LaunchBuild(t)
    <2>0. pc[t] = "launch"
      BY <1>13 DEF LaunchBuild
    <2>1. Attached(t) /\ pc[t] \in OwnedStep
      BY <2>0 DEF Attached
    <2>2. \E x \in OwnedStep : pc' = [pc EXCEPT ![t] = x]
      BY <1>13 DEF LaunchBuild
    <2>3. \A u \in Tasks \ {t} : withCtl'[u] = withCtl[u]
      BY <1>13 DEF LaunchBuild
    <2> QED BY <1>13, <2>1, <2>2, <2>3, ReleaseGoOn DEF LaunchBuild
  <1> QED
    BY <1>1, <1>2, <1>3, <1>4, <1>5, <1>6, <1>7, <1>8, <1>9, <1>10, <1>11,
       <1>12, <1>13 DEF Startup

(* remove_build_owner, clear_active_build and clear_build_lock: the one      *)
(* build of the server gives back its entries in this order.                 *)
LEMMA ReleaseRegistry ==
  ASSUME SafeInv, ReleaseInv, NEW t \in Tasks,
         RemoveOwner(t) \/ ClearActiveBuild(t) \/ ClearBuildLock(t)
  PROVE  ReleaseInv'
  <1>0. /\ TypeOK /\ srv[t] \in Servers /\ pc[t] \in ReservedStep
        /\ pc[t] \in {"disown", "deactivate", "unlock"}
        /\ UNCHANGED <<srv, build, ctl, withCtl>>
        /\ \A u \in Tasks : pc[u] \in ReservedStep /\ srv[u] = srv[t] => u = t
    BY DEF SafeInv, TypeOK, TasksOK, ExclInv, OneBuildPerServer, ReservedStep, Step,
           RemoveOwner, ClearActiveBuild, ClearBuildLock, runtime, locals, outcome
  <1>1. /\ owners \in [Servers -> Owner] /\ lock \in [Servers -> {"free", "build", "delete"}]
        /\ pc \in [Tasks -> PcSet]
    BY <1>0 DEF TypeOK, MemoryOK, TasksOK
  <1>2. ControlIsOurs'
    <2>1. \A u \in Tasks : Attached(u)' => Attached(u)
      BY <1>0, <1>1
      DEF Attached, AttachedStep, Step, RemoveOwner, ClearActiveBuild, ClearBuildLock
    <2> QED BY <1>0, <2>1 DEF ReleaseInv, ControlIsOurs
  <1>3. OwnedStep \subseteq ReservedStep
    BY DEF OwnedStep
  <1>4. CASE RemoveOwner(t)
    <2>1. /\ pc[t] = "disown" /\ pc' = [pc EXCEPT ![t] = "deactivate"]
          /\ owners' = IF owners[srv[t]] = t
                       THEN [owners EXCEPT ![srv[t]] = NoTask] ELSE owners
          /\ active' = active /\ lock' = lock
      BY <1>4 DEF RemoveOwner, Step
    <2>2. \A s \in Servers, u \in Tasks : Reserved(u, s) => Reserved(u, s)'
      BY <1>0, <1>1, <2>1 DEF Reserved, ReservedStep
    <2>3. \A s \in Servers : owners[s] = Orphan => owners'[s] = Orphan
      BY <1>1, <2>1, BuildAssumption
    <2>4. \A u \in Tasks : pc'[u] = "unlock" => pc[u] = "unlock"
      BY <1>1, <2>1
    <2>5. ActiveHasTask' /\ LockHasTask'
      BY <2>1, <2>2, <2>3, <2>4 DEF ReleaseInv, ActiveHasTask, LockHasTask
    <2>6. ASSUME NEW s \in Servers, owners'[s] \in Tasks
          PROVE  pc'[owners'[s]] \in OwnedStep /\ srv[owners'[s]] = s
      <3>1. owners'[s] = owners[s]
        BY <1>1, <2>1, <2>6, BuildAssumption
      <3>2. pc[owners[s]] \in OwnedStep /\ srv[owners[s]] = s
        BY <2>6, <3>1 DEF ReleaseInv, OwnerHasTask
      <3>3. owners[s] # t
        BY <1>0, <1>1, <2>1, <2>6, <3>1, <3>2, BuildAssumption
      <3> QED BY <1>1, <2>1, <2>6, <3>1, <3>2, <3>3
    <2> QED BY <1>0, <1>2, <2>5, <2>6 DEF ReleaseInv, OwnerHasTask
  <1>5. CASE ClearActiveBuild(t)
    <2>1. /\ pc[t] = "deactivate" /\ pc' = [pc EXCEPT ![t] = "unlock"]
          /\ active' = active \ {srv[t]} /\ owners' = owners /\ lock' = lock
      BY <1>5 DEF ClearActiveBuild, Step
    <2>2. \A s \in Servers, u \in Tasks : Reserved(u, s) => Reserved(u, s)'
      BY <1>0, <1>1, <2>1 DEF Reserved, ReservedStep
    <2>3. \A s \in Servers, u \in Tasks :
            s # srv[t] /\ Reserved(u, s) => pc'[u] = pc[u]
      BY <1>1, <2>1 DEF Reserved
    <2>4. ActiveHasTask' /\ LockHasTask'
      BY <2>1, <2>2, <2>3 DEF ReleaseInv, ActiveHasTask, LockHasTask
    <2>5. t \notin {u \in Tasks : pc[u] \in OwnedStep}
      BY <2>1 DEF OwnedStep
    <2>6. OwnerHasTask'
      BY <1>0, <1>1, <2>1, <2>5 DEF ReleaseInv, OwnerHasTask
    <2> QED BY <1>2, <2>4, <2>6 DEF ReleaseInv
  <1>6. CASE ClearBuildLock(t)
    <2>1. /\ pc[t] = "unlock" /\ pc' = [pc EXCEPT ![t] = "take"]
          /\ lock' = [lock EXCEPT ![srv[t]] = "free"]
          /\ active' = active /\ owners' = owners
      BY <1>6 DEF ClearBuildLock, Step
    <2>2. \A s \in Servers, u \in Tasks :
            u # t /\ Reserved(u, s) => Reserved(u, s)' /\ pc'[u] = pc[u]
      BY <1>0, <1>1, <2>1 DEF Reserved
    <2>3. ActiveHasTask'
      BY <2>1, <2>2 DEF ReleaseInv, ActiveHasTask
    <2>4. ASSUME NEW s \in Servers, lock'[s] = "build"
          PROVE  owners[s] = Orphan \/ \E u \in Tasks : Reserved(u, s)'
      <3>1. s # srv[t] /\ lock[s] = "build"
        BY <1>1, <2>1, <2>4
      <3> QED BY <2>2, <3>1 DEF ReleaseInv, LockHasTask, Reserved
    <2>5. t \notin {u \in Tasks : pc[u] \in OwnedStep}
      BY <2>1 DEF OwnedStep
    <2>6. OwnerHasTask'
      BY <1>0, <1>1, <2>1, <2>5 DEF ReleaseInv, OwnerHasTask
    <2> QED BY <1>2, <2>1, <2>3, <2>4, <2>6 DEF ReleaseInv, LockHasTask
  <1> QED BY <1>4, <1>5, <1>6

(* take_runtime_build, possibly after the next build has been reserved: the  *)
(* entry it removes may be the next build's, whose control is then gone.     *)
LEMMA ReleaseTake ==
  ASSUME TypeOK, ReleaseInv, NEW t \in Tasks, TakeRuntimeBuild(t)
  PROVE  ReleaseInv'
  <1>1. /\ pc[t] = "take" /\ pc' = [pc EXCEPT ![t] = "unpend"]
        /\ build' = build \ {srv[t]} /\ ctl' = [ctl EXCEPT ![srv[t]] = NoTask]
        /\ UNCHANGED <<srv, withCtl, owners, active, lock>>
    BY DEF TakeRuntimeBuild, Step, registry, locals, outcome
  <1>2. /\ pc \in [Tasks -> PcSet] /\ ctl \in [Servers -> Owner]
        /\ srv \in [Tasks -> Servers] /\ owners \in [Servers -> Owner]
    BY DEF TypeOK, MemoryOK, TasksOK
  <1>3. \A u \in Tasks : pc[u] \in ReservedStep => u # t /\ pc'[u] = pc[u]
    BY <1>1, <1>2 DEF ReservedStep
  <1>4. \A u \in Tasks : Attached(u)' => Attached(u)
    BY <1>1, <1>2 DEF Attached, AttachedStep
  <1>5. ControlIsOurs'
    BY <1>1, <1>2, <1>4 DEF ReleaseInv, ControlIsOurs
  <1>6. ActiveHasTask' /\ LockHasTask'
    BY <1>1, <1>3 DEF ReleaseInv, ActiveHasTask, LockHasTask, Reserved
  <1>7. OwnerHasTask'
    BY <1>1, <1>3 DEF ReleaseInv, OwnerHasTask, OwnedStep
  <1> QED BY <1>5, <1>6, <1>7 DEF ReleaseInv

(* Teardown: the owner's completion is always current. *)
LEMMA ReleaseTeardown ==
  ASSUME SafeInv, ReleaseInv, NEW t \in Tasks, Teardown(t)
  PROVE  ReleaseInv'
  <1>0. TypeOK /\ withCtl \in [Tasks -> BOOLEAN]
    BY DEF SafeInv, TypeOK, TasksOK
  <1> USE <1>0 DEF OwnedStep, ReservedStep, AttachedStep, registry, runtime, locals,
                   outcome, Step, Outcome
  <1>1. CASE Settle(t)
    <2>0. pc[t] = "settle"
      BY <1>1 DEF Settle
    <2>1. Attached(t) /\ pc[t] \in OwnedStep
      BY <2>0 DEF Attached
    <2>2. \E x \in OwnedStep : pc' = [pc EXCEPT ![t] = x]
      BY <1>1 DEF Settle, Finalize, FinishFailedBuild, FinishInterruptedBuild,
          FinishCompletedBuild, FinishCancelledBuild
    <2>3. \A u \in Tasks \ {t} : withCtl'[u] = withCtl[u]
      BY <1>1 DEF Settle, Finalize, FinishFailedBuild, FinishInterruptedBuild,
          FinishCompletedBuild, FinishCancelledBuild
    <2> QED BY <1>1, <2>1, <2>2, <2>3, ReleaseGoOn DEF Settle
  <1>2. CASE Promote(t)
    <2>0. pc[t] = "promote"
      BY <1>2 DEF Promote
    <2>1. Attached(t) /\ pc[t] \in OwnedStep
      BY <2>0 DEF Attached
    <2>2. \E x \in OwnedStep : pc' = [pc EXCEPT ![t] = x]
      BY <1>2 DEF Promote, FinishPromotedBuild, FinishPromotionFailure
    <2>3. \A u \in Tasks \ {t} : withCtl'[u] = withCtl[u]
      BY <1>2 DEF Promote, FinishPromotedBuild, FinishPromotionFailure
    <2> QED BY <1>2, <2>1, <2>2, <2>3, ReleaseGoOn DEF Promote
  <1>3. CASE FailGeneration(t) \/ AbandonGeneration(t)
    <2>0. pc[t] \in {"fail", "abandon"} /\ pc' = [pc EXCEPT ![t] = "finish"]
      BY <1>3 DEF FailGeneration, AbandonGeneration
    <2>1. Attached(t) /\ pc[t] \in OwnedStep
      BY <2>0 DEF Attached
    <2> QED BY <1>3, <2>0, <2>1, ReleaseGoOn DEF FailGeneration, AbandonGeneration
  <1>4. CASE FinishBuild(t)
    <2>0. pc[t] = "finish" /\ pc[t] \in OwnedStep
      BY <1>4 DEF FinishBuild
    <2>1. BuildCompletionIsCurrent(t)
      BY <2>0 DEF BuildCompletionIsCurrent, SafeInv, OwnInv, ReleaseInv, ControlIsOurs,
                  Attached
    <2> QED BY <1>4, <2>0, <2>1, ReleaseGoOn DEF FinishBuild
  <1>5. CASE PersistRetry(t)
    BY <1>5, ReleaseGoOn DEF PersistRetry
  <1>6. CASE RemoveOwner(t) \/ ClearActiveBuild(t) \/ ClearBuildLock(t)
    BY <1>6, ReleaseRegistry
  <1>7. CASE TakeRuntimeBuild(t)
    BY <1>7, ReleaseTake
  <1>8. CASE ClearPendingCancel(t)
    BY <1>8, ReleaseReturn DEF ClearPendingCancel
  <1> QED
    BY <1>1, <1>2, <1>3, <1>4, <1>5, <1>6, <1>7, <1>8 DEF Teardown

(* A client that leaves takes its reservation out of every task's reach: it  *)
(* is marked as orphaned.                                                    *)
LEMMA ReleaseClientGone ==
  ASSUME SafeInv, ReleaseInv, NEW t \in Tasks, ClientGone(t)
  PROVE  ReleaseInv'
  <1>0. /\ TypeOK /\ srv[t] \in Servers /\ Return(t)
        /\ pc[t] \in {"validate", "starting", "probe"}
        /\ UNCHANGED <<build, active, lock>>
    BY DEF SafeInv, TypeOK, TasksOK, ClientGone
  <1>1. CASE pc[t] = "validate"
    BY <1>0, <1>1, ReleaseReturn DEF ClientGone, ReservedStep
  <1>2. CASE pc[t] # "validate"
    <2>1. /\ owners' = [owners EXCEPT ![srv[t]] = Orphan]
          /\ ctl' = IF ctl[srv[t]] = t THEN [ctl EXCEPT ![srv[t]] = Orphan] ELSE ctl
          /\ pc[t] \in ReservedStep
      BY <1>0, <1>2 DEF ClientGone, ReservedStep
    <2>2. /\ owners \in [Servers -> Owner] /\ ctl \in [Servers -> Owner]
          /\ srv \in [Tasks -> Servers]
      BY <1>0 DEF TypeOK, MemoryOK, TasksOK
    <2>3. \A u \in Tasks : u # t => /\ pc'[u] = pc[u] /\ srv'[u] = srv[u]
                                    /\ withCtl'[u] = withCtl[u]
      BY <1>0 DEF Return, TypeOK, TasksOK
    <2>4. \A u \in Tasks : u # t /\ pc[u] \in ReservedStep => srv[u] # srv[t]
      BY <2>1 DEF SafeInv, ExclInv, OneBuildPerServer
    <2>5. pc'[t] \notin ReservedStep
      BY <1>0 DEF Return, TypeOK, TasksOK, ReservedStep
    <2>6. ControlIsOurs'
      <3> SUFFICES ASSUME NEW u \in Tasks, Attached(u)'
                   PROVE  srv'[u] \notin build \/ ctl'[srv'[u]] = u
        BY <1>0 DEF ControlIsOurs
      <3>1. u # t
        BY <2>5 DEF Attached, AttachedStep, ReservedStep
      <3>2. Attached(u)
        BY <2>3, <3>1 DEF Attached
      <3>3. srv[u] # srv[t]
        BY <2>4, <3>1, <3>2, AttachedIsReserved
      <3> QED BY <2>1, <2>2, <2>3, <3>1, <3>2, <3>3 DEF ReleaseInv, ControlIsOurs
    <2>7. \A s \in Servers : s # srv[t] =>
            \A u \in Tasks : Reserved(u, s) => Reserved(u, s)' /\ pc'[u] = pc[u]
      BY <2>3 DEF Reserved
    <2>8. ActiveHasTask' /\ LockHasTask'
      BY <1>0, <2>1, <2>2, <2>7 DEF ReleaseInv, ActiveHasTask, LockHasTask
    <2>9. ASSUME NEW s \in Servers, owners'[s] \in Tasks
          PROVE  pc'[owners'[s]] \in OwnedStep /\ srv'[owners'[s]] = s
      <3>1. s # srv[t] /\ owners'[s] = owners[s]
        BY <2>1, <2>2, <2>9, BuildAssumption
      <3>2. pc[owners[s]] \in OwnedStep /\ srv[owners[s]] = s
        BY <2>9, <3>1 DEF ReleaseInv, OwnerHasTask
      <3> QED BY <2>3, <2>9, <3>1, <3>2
    <2> QED BY <2>6, <2>8, <2>9 DEF ReleaseInv, OwnerHasTask
  <1> QED BY <1>1, <1>2

(* Every step of a call or of its build task. *)
LEMMA ReleaseTask ==
  ASSUME SafeInv, ReleaseInv, NEW t \in Tasks, TaskStep(t)
  PROVE  ReleaseInv'
  <1>0. TypeOK /\ withCtl \in [Tasks -> BOOLEAN] /\ pc \in [Tasks -> PcSet]
    BY DEF SafeInv, TypeOK, TasksOK
  <1> USE <1>0 DEF OwnedStep, ReservedStep, AttachedStep, registry, runtime, locals,
                   outcome, Step, Outcome
  <1>1. ASSUME NEW s \in Servers,
               RefreshIfDue(t, s) \/ \E k \in {"manual", "forced"} : Refresh(t, s, k)
        PROVE  ReleaseInv'
    <2>1. /\ pc[t] = "idle" /\ pc'[t] \in {"reserve", "validate", "probing"}
          /\ srv' = [srv EXCEPT ![t] = s] /\ withCtl' = withCtl
          /\ \A u \in Tasks : u # t => pc'[u] = pc[u]
          /\ UNCHANGED <<owners, active, lock, build, ctl>>
      BY <1>1 DEF Refresh, RefreshIfDue
    <2>2. \A u \in Tasks : u # t => srv'[u] = srv[u]
      BY <2>1 DEF TypeOK, TasksOK
    <2>3. ~Attached(t)'
      BY <2>1 DEF Attached
    <2>4. \A u \in Tasks : u # t => (Attached(u)' <=> Attached(u))
      BY <2>1 DEF Attached
    <2> QED BY <2>1, <2>2, <2>3, <2>4, ReleaseMove
  <1>2. CASE (\E i \in Items : ReceiveEntry(t, i)) \/ CommitDue(t)
    BY <1>2, ReleaseQuiet DEF ReceiveEntry, CommitDue
  <1>3. CASE EndLoop(t) \/ BuildPanics(t)
    <2>1. \E x \in OwnedStep : pc' = [pc EXCEPT ![t] = x]
      BY <1>3 DEF EndLoop, InventoryCompleted, InventoryFailed, StreamEnded,
                  LeaveLoop, BuildPanics
    <2>2. /\ pc[t] \in {"loop", "settle"}
          /\ \A u \in Tasks \ {t} : withCtl'[u] = withCtl[u]
          /\ UNCHANGED <<srv, owners, active, lock, build, ctl>>
      BY <1>3 DEF EndLoop, InventoryCompleted, InventoryFailed, StreamEnded,
                  LeaveLoop, BuildPanics
    <2>3. Attached(t) /\ pc[t] \in OwnedStep
      BY <2>2 DEF Attached
    <2> QED BY <2>1, <2>2, <2>3, ReleaseGoOn
  <1>4. CASE ClientGone(t)
    BY <1>4, ReleaseClientGone
  <1> QED
    BY <1>1, <1>2, <1>3, <1>4, ReleaseStartup, ReleaseTeardown DEF TaskStep

(* Deletions take and give back the lock only in its "delete" state. *)
LEMMA ReleaseServer ==
  ASSUME SafeInv, ReleaseInv, NEW s \in Servers, ServerStep(s)
  PROVE  ReleaseInv'
  <1>0. TypeOK /\ lock \in [Servers -> {"free", "build", "delete"}]
    BY DEF SafeInv, TypeOK, MemoryOK
  <1> USE <1>0 DEF registry, runtime, locals, outcome
  <1>1. CASE DeleteLock(s) \/ DeleteRows(s) \/ DeleteUnpend(s)
    <2>1. /\ UNCHANGED <<pc, srv, withCtl, owners, active, build, ctl>>
          /\ \E x \in {"free", "delete"} : lock' \in {lock, [lock EXCEPT ![s] = x]}
      BY <1>1 DEF DeleteLock, DeleteRows, DeleteUnpend
    <2>2. \A r \in Servers : lock'[r] = "build" => lock[r] = "build"
      BY <2>1
    <2>3. ControlIsOurs' /\ ActiveHasTask' /\ OwnerHasTask'
      BY <2>1 DEF ReleaseInv, ControlIsOurs, Attached, ActiveHasTask, OwnerHasTask,
                  Reserved
    <2>4. LockHasTask'
      BY <2>1, <2>2 DEF ReleaseInv, LockHasTask, Reserved
    <2> QED BY <2>3, <2>4 DEF ReleaseInv
  <1>2. CASE DeleteRuntime(s)
    <2>1. /\ UNCHANGED <<pc, srv, withCtl, owners, active, lock>>
          /\ build' = build \ {s} /\ ctl' = [ctl EXCEPT ![s] = NoTask]
      BY <1>2 DEF DeleteRuntime
    <2>2. ControlIsOurs'
      BY <2>1 DEF ReleaseInv, ControlIsOurs, Attached, TypeOK, MemoryOK
    <2>3. ActiveHasTask' /\ LockHasTask' /\ OwnerHasTask'
      BY <2>1 DEF ReleaseInv, ActiveHasTask, LockHasTask, OwnerHasTask, Reserved
    <2> QED BY <2>2, <2>3 DEF ReleaseInv
  <1>3. CASE UNCHANGED <<pc, srv, withCtl, owners, active, lock, build, ctl>>
    BY <1>3, ReleaseQuiet
  <1> QED
    BY <1>1, <1>2, <1>3
    DEF ServerStep, DeletionStep, Cancel, ApplyCancel, SetAutoRefresh, DeleteIndex,
        DeleteCancel, DeleteWait, DeleteDone, DeadlinesPass, Cleanup

(* The release invariant is kept by every step of the system. *)
LEMMA ReleaseNext == SafeInv /\ ReleaseInv /\ [Next]_vars => ReleaseInv'
  <1> SUFFICES ASSUME SafeInv, ReleaseInv, [Next]_vars PROVE ReleaseInv'
    OBVIOUS
  <1>1. ASSUME NEW t \in Tasks, TaskStep(t) PROVE ReleaseInv'
    BY <1>1, ReleaseTask
  <1>2. ASSUME NEW s \in Servers, ServerStep(s) PROVE ReleaseInv'
    BY <1>2, ReleaseServer
  <1>3. CASE RequestShutdown \/ CancelBuilds \/ BecomeIdle \/ UNCHANGED vars
    BY <1>3, ReleaseQuiet
    DEF RequestShutdown, CancelBuilds, BecomeIdle, vars, registry, runtime, locals,
        outcome
  <1>4. CASE Restart
    BY <1>4, BuildAssumption
    DEF Restart, ReleaseInv, ControlIsOurs, ActiveHasTask, LockHasTask, OwnerHasTask,
        Attached, AttachedStep, PerServer, PerTask
  <1> QED BY <1>1, <1>2, <1>3, <1>4 DEF Next

(* No reservation leaks: whatever fails, is cancelled, interrupted, deleted *)
(* or overtaken by the next build, an entry of active_builds, build_owners  *)
(* or a build lock has a task that will release it, or a client that left.  *)
THEOREM ReservationsAreReleased == Spec => []NoLeakedReservation
  <1>1. Init => ReleaseInv
    BY BuildAssumption
    DEF Init, FreshProcess, ReleaseInv, ControlIsOurs, ActiveHasTask, LockHasTask,
        OwnerHasTask, Attached, AttachedStep, PerServer, PerTask
  <1>2. ReleaseInv => NoLeakedReservation
    BY DEF ReleaseInv, ActiveHasTask, LockHasTask, OwnerHasTask,
           NoLeakedReservation, Reserved, OwnedStep
  <1> QED BY <1>1, <1>2, ReleaseNext, SafeInvariant, PTL DEF Spec

-----------------------------------------------------------------------------
(* reserve_refresh_build adds a build when there is room for one. *)
GrowsByOne ==
  /\ Cardinality(active) < Concurrency
  /\ \E s \in Servers : active' = active \cup {s}

(* Only reserve_refresh_build adds a build, and it has counted the builds   *)
(* of all servers under the coordination lock.                              *)
LEMMA ActiveBuilds == TypeOK /\ [Next]_vars => active' \subseteq active \/ GrowsByOne
  <1> SUFFICES ASSUME TypeOK, [Next]_vars PROVE active' \subseteq active \/ GrowsByOne
    OBVIOUS
  <1> USE DEF registry
  <1>0. Cardinality(active) \in Nat
    BY BuildAssumption, FS_Subset, FS_CardinalityType DEF TypeOK, MemoryOK
  <1>1. ASSUME NEW t \in Tasks, ReserveGranted(t) PROVE GrowsByOne
    <2>1. Cardinality(active) < Concurrency
      BY <1>0, <1>1, BuildAssumption DEF ReserveGranted, Busy
    <2>2. active' = active \cup {srv[t]} /\ srv[t] \in Servers
      BY <1>1 DEF ReserveGranted, TypeOK, TasksOK
    <2> QED BY <2>1, <2>2 DEF GrowsByOne
  <1>2. ASSUME NEW t \in Tasks, ClearActiveBuild(t) PROVE active' \subseteq active
    BY <1>2 DEF ClearActiveBuild
  <1>3. ASSUME NEW t \in Tasks, Startup(t) PROVE active' = active \/ GrowsByOne
    BY <1>1, <1>3
    DEF Startup, Validate, Enroll, ReserveDenied, RefreshAfterProbe,
        InvalidateProfile, StartInventory, RecordStartFailure, AttachControl,
        TakePendingCancel, ProbeCapabilities, StartGeneration, LaunchBuild
  <1>4. ASSUME NEW t \in Tasks, Teardown(t) PROVE active' \subseteq active
    BY <1>2, <1>4
    DEF Teardown, Settle, Promote, FailGeneration, AbandonGeneration, FinishBuild,
        PersistRetry, RemoveOwner, ClearBuildLock, TakeRuntimeBuild,
        ClearPendingCancel
  <1>5. ASSUME NEW t \in Tasks, TaskStep(t), ~Startup(t), ~Teardown(t)
        PROVE  active' = active
    BY <1>5
    DEF TaskStep, Refresh, RefreshIfDue, ReceiveEntry, CommitDue, EndLoop,
        InventoryCompleted, InventoryFailed, StreamEnded, LeaveLoop, BuildPanics,
        ClientGone
  <1>6. ASSUME NEW s \in Servers, ServerStep(s) PROVE active' = active
    BY <1>6
    DEF ServerStep, DeletionStep, Cancel, ApplyCancel, SetAutoRefresh, DeleteIndex,
        DeleteCancel, DeleteWait, DeleteLock, DeleteRows, DeleteRuntime,
        DeleteUnpend, DeleteDone, DeadlinesPass, Cleanup
  <1>7. CASE RequestShutdown \/ CancelBuilds \/ BecomeIdle \/ UNCHANGED vars
    BY <1>7 DEF RequestShutdown, CancelBuilds, BecomeIdle, vars
  <1>8. CASE Restart
    BY <1>8 DEF Restart
  <1> QED BY <1>3, <1>4, <1>5, <1>6, <1>7, <1>8 DEF Next

(* settings.concurrency bounds the builds of all servers together, for any   *)
(* number of servers, calls and abandoned reservations.                      *)
THEOREM ConcurrencyIsBounded == Spec => []ConcurrencyBound
  <1>1. Init => ConcurrencyBound
    BY FS_EmptySet, BuildAssumption DEF Init, FreshProcess, ConcurrencyBound
  <1>2. TypeOK /\ ConcurrencyBound /\ [Next]_vars => ConcurrencyBound'
    <2> SUFFICES ASSUME TypeOK, ConcurrencyBound, [Next]_vars PROVE ConcurrencyBound'
      OBVIOUS
    <2>1. IsFiniteSet(active)
      BY BuildAssumption, FS_Subset DEF TypeOK, MemoryOK
    <2>2. Cardinality(active) \in Nat
      BY <2>1, FS_CardinalityType
    <2>3. CASE active' \subseteq active
      <3>1. Cardinality(active') \in Nat /\ Cardinality(active') <= Cardinality(active)
        BY <2>1, <2>3, FS_Subset, FS_CardinalityType
      <3> QED BY <2>2, <3>1, BuildAssumption DEF ConcurrencyBound
    <2>4. CASE GrowsByOne
      <3>1. PICK s \in Servers : active' = active \cup {s}
        BY <2>4 DEF GrowsByOne
      <3>2. Cardinality(active') \in {Cardinality(active), Cardinality(active) + 1}
        BY <2>1, <3>1, FS_AddElement
      <3> QED BY <2>2, <2>4, <3>2, BuildAssumption DEF GrowsByOne, ConcurrencyBound
    <2> QED BY <2>3, <2>4, ActiveBuilds
  <1> QED BY <1>1, <1>2, Typing, PTL DEF Spec


-----------------------------------------------------------------------------
(* The rows of a generation while a build writes them.  A build that has    *)
(* inserted its generation finds it staging until it settles it; what it    *)
(* received is committed or buffered; the rows it counted are the rows      *)
(* there are; and only a complete inventory without a rest gets promoted.   *)
RunStep == {"loop", "settle", "promote", "fail", "abandon"}
WritingStep == {"launch", "loop", "settle", "promote"}

RunOK(t) ==
  /\ pc[t] \in BuildingStep => gen[t] \in Gens /\ gens[srv[t]][gen[t]] = "staging"
  /\ pc[t] \notin RunStep => sent[t] = {} /\ buffered[t] = {} /\ kept[t] = 0
  /\ pc[t] \in WritingStep =>
       /\ rows[srv[t]][gen[t]] \cup buffered[t] = sent[t]
       /\ kept[t] = Cardinality(rows[srv[t]][gen[t]])
  /\ pc[t] = "promote" => end[t] = "complete" /\ buffered[t] = {}

RunInv == \A t \in Tasks : RunOK(t)

(* No generation row, no entries: a number that is used again starts empty. *)
AbsentIsEmpty ==
  \A s \in Servers, g \in Gens : gens[s][g] = "absent" => rows[s][g] = {}

(* The deleting transaction leaves no generation behind. *)
DeletionErases ==
  \A s \in Servers, g \in Gens :
    dpc[s] \in {"forget", "unpend"} => gens[s][g] = "absent"

StoreInv == RunInv /\ AbsentIsEmpty /\ DeletionErases

SameRun(u) ==
  /\ pc'[u] = pc[u] /\ srv'[u] = srv[u] /\ gen'[u] = gen[u] /\ end'[u] = end[u]
  /\ sent'[u] = sent[u] /\ buffered'[u] = buffered[u] /\ kept'[u] = kept[u]

OthersStay(t) == \A u \in Tasks \ {t} : SameRun(u)

OnlyAt(s) ==
  \A r \in Servers \ {s} : gens'[r] = gens[r] /\ rows'[r] = rows[r]

(* What a task relies on while it does not move and its row is not touched. *)
LEMMA RunFrame ==
  ASSUME NEW u \in Tasks, RunOK(u), SameRun(u),
         pc[u] \in BuildingStep =>
           /\ gens'[srv[u]][gen[u]] = gens[srv[u]][gen[u]]
           /\ rows'[srv[u]][gen[u]] = rows[srv[u]][gen[u]]
  PROVE  RunOK(u)'
  BY DEF RunOK, SameRun, BuildingStep, WritingStep

(* A step of one task that does not write to the store. *)
LEMMA StoreMove ==
  ASSUME StoreInv, NEW t \in Tasks, OthersStay(t), RunOK(t)',
         UNCHANGED <<gens, rows, dpc>>
  PROVE  StoreInv'
  <1>1. \A u \in Tasks : RunOK(u)'
    BY RunFrame DEF StoreInv, RunInv, OthersStay
  <1> QED BY <1>1 DEF StoreInv, RunInv, AbsentIsEmpty, DeletionErases

(* A write of the one build that is reserved on a server. *)
LEMMA StoreWrite ==
  ASSUME SafeInv, StoreInv, NEW t \in Tasks, pc[t] \in ReservedStep,
         NEW s \in Servers, s = srv[t], OnlyAt(s), OthersStay(t), RunOK(t)',
         \A g \in Gens : gens'[s][g] = "absent" => rows'[s][g] = {},
         dpc' = dpc
  PROVE  StoreInv'
  <1>1. \A u \in Tasks \ {t} : pc[u] \in ReservedStep => srv[u] # s
    BY DEF SafeInv, ExclInv, OneBuildPerServer
  <1>2. BuildingStep \subseteq ReservedStep
    BY DEF BuildingStep, ReservedStep
  <1>3. \A u \in Tasks : srv[u] \in Servers
    BY DEF SafeInv, TypeOK, TasksOK
  <1>4. \A u \in Tasks \ {t} : RunOK(u)'
    BY <1>1, <1>2, <1>3, RunFrame DEF StoreInv, RunInv, OthersStay, OnlyAt
  <1>5. dpc[s] \notin {"forget", "unpend"}
    BY DEF SafeInv, ExclInv, BuildHoldsLock, DeletionHoldsLock
  <1>6. AbsentIsEmpty'
    BY DEF StoreInv, AbsentIsEmpty, OnlyAt
  <1>7. DeletionErases'
    BY <1>5 DEF StoreInv, DeletionErases, OnlyAt
  <1> QED BY <1>4, <1>6, <1>7 DEF StoreInv, RunInv

(* A task that is not building has nothing at stake. *)
LEMMA RunPlain ==
  ASSUME NEW t \in Tasks, pc'[t] \notin BuildingStep,
         sent'[t] = {}, buffered'[t] = {}, kept'[t] = 0
  PROVE  RunOK(t)'
  BY DEF RunOK, BuildingStep, WritingStep

(* A call returns. *)
LEMMA StoreReturn ==
  ASSUME TypeOK, StoreInv, NEW t \in Tasks, Return(t), UNCHANGED <<gens, rows, dpc>>
  PROVE  StoreInv'
  <1>1. OthersStay(t)
    BY DEF OthersStay, SameRun, Return, TypeOK, TasksOK
  <1>2. /\ pc'[t] \notin BuildingStep
        /\ sent'[t] = {} /\ buffered'[t] = {} /\ kept'[t] = 0
    BY DEF Return, TypeOK, TasksOK, BuildingStep
  <1> QED BY <1>1, <1>2, RunPlain, StoreMove

(* A step within startup or release: the run has not begun or is dropped. *)
LEMMA StorePlain ==
  ASSUME TypeOK, StoreInv, NEW t \in Tasks, pc[t] \notin RunStep,
         NEW x, x \notin BuildingStep, pc' = [pc EXCEPT ![t] = x],
         UNCHANGED <<gens, rows, dpc, srv, gen, end, sent, buffered, kept>>
  PROVE  StoreInv'
  <1>1. OthersStay(t) /\ pc'[t] \notin BuildingStep
    BY DEF OthersStay, SameRun, TypeOK, TasksOK
  <1>2. sent[t] = {} /\ buffered[t] = {} /\ kept[t] = 0
    BY DEF StoreInv, RunInv, RunOK
  <1> QED BY <1>1, <1>2, RunPlain, StoreMove

-----------------------------------------------------------------------------
(* clear_server_index, once the profile changed: every row goes. *)
LEMMA StoreInvalidate ==
  ASSUME SafeInv, StoreInv, NEW t \in Tasks, InvalidateProfile(t)
  PROVE  StoreInv'
  <1>0. TypeOK /\ srv[t] \in Servers /\ pc[t] = "invalidate"
    BY DEF SafeInv, TypeOK, TasksOK, InvalidateProfile
  <1>1. /\ UNCHANGED <<dpc, srv, gen, end, sent, buffered, kept>>
        /\ \E x \in {"finish", "starting", "startfail"} : pc' = [pc EXCEPT ![t] = x]
    BY DEF InvalidateProfile, Outcome, others
  <1>2. pc[t] \notin RunStep /\ pc[t] \in ReservedStep
    BY <1>0 DEF RunStep, ReservedStep
  <1>3. CASE UNCHANGED <<gens, rows>>
    BY <1>0, <1>1, <1>2, <1>3, StorePlain DEF BuildingStep
  <1>4. CASE /\ gens' = [gens EXCEPT ![srv[t]] = PerGen("absent")]
             /\ rows' = [rows EXCEPT ![srv[t]] = PerGen({})]
    <2>1. OthersStay(t) /\ pc'[t] \notin BuildingStep
      BY <1>0, <1>1 DEF OthersStay, SameRun, TypeOK, TasksOK, BuildingStep
    <2>2. sent[t] = {} /\ buffered[t] = {} /\ kept[t] = 0
      BY <1>2 DEF StoreInv, RunInv, RunOK
    <2>3. RunOK(t)'
      BY <1>1, <2>1, <2>2, RunPlain
    <2>4. OnlyAt(srv[t]) /\ \A g \in Gens : rows'[srv[t]][g] = {}
      BY <1>0, <1>4 DEF OnlyAt, TypeOK, StoreOK, PerGen
    <2> QED BY <1>0, <1>1, <1>2, <2>1, <2>3, <2>4, StoreWrite
  <1> QED BY <1>3, <1>4 DEF InvalidateProfile

(* record_failed_attempt inserts a row without entries. *)
LEMMA StoreStartFailure ==
  ASSUME SafeInv, StoreInv, NEW t \in Tasks, RecordStartFailure(t)
  PROVE  StoreInv'
  <1>0. TypeOK /\ srv[t] \in Servers /\ pc[t] = "startfail"
    BY DEF SafeInv, TypeOK, TasksOK, RecordStartFailure
  <1>1. /\ UNCHANGED <<rows, dpc, srv, gen, end, sent, buffered, kept>>
        /\ pc' = [pc EXCEPT ![t] = "finish"]
    BY DEF RecordStartFailure, Outcome, others, locals
  <1>2. pc[t] \notin RunStep /\ pc[t] \in ReservedStep /\ "finish" \notin BuildingStep
    BY <1>0 DEF RunStep, ReservedStep, BuildingStep
  <1>3. CASE gens' = gens
    BY <1>0, <1>1, <1>2, <1>3, StorePlain
  <1>4. CASE \E g \in Gens : gens' = [gens EXCEPT ![srv[t]][g] = "failed"]
    <2>1. OthersStay(t) /\ pc'[t] \notin BuildingStep
      BY <1>0, <1>1, <1>2 DEF OthersStay, SameRun, TypeOK, TasksOK
    <2>2. sent[t] = {} /\ buffered[t] = {} /\ kept[t] = 0
      BY <1>2 DEF StoreInv, RunInv, RunOK
    <2>3. RunOK(t)'
      BY <1>1, <2>1, <2>2, RunPlain
    <2>4. OnlyAt(srv[t])
      BY <1>0, <1>1, <1>4 DEF OnlyAt, TypeOK, StoreOK
    <2>5. \A g \in Gens : gens'[srv[t]][g] = "absent" => gens[srv[t]][g] = "absent"
      BY <1>0, <1>4 DEF TypeOK, StoreOK
    <2>6. \A g \in Gens : gens'[srv[t]][g] = "absent" => rows'[srv[t]][g] = {}
      BY <1>0, <1>1, <2>5 DEF StoreInv, AbsentIsEmpty
    <2> QED BY <1>0, <1>1, <1>2, <2>1, <2>3, <2>4, <2>6, StoreWrite
  <1> QED BY <1>3, <1>4 DEF RecordStartFailure

(* start_generation: a new number, and no entries under it. *)
LEMMA StoreStartGeneration ==
  ASSUME SafeInv, StoreInv, NEW t \in Tasks, StartGeneration(t)
  PROVE  StoreInv'
  <1>0. TypeOK /\ srv[t] \in Servers /\ pc[t] = "startgen"
    BY DEF SafeInv, TypeOK, TasksOK, StartGeneration
  <1>1. UNCHANGED <<rows, dpc, srv, end, sent, buffered, kept>>
    BY DEF StartGeneration, others
  <1>2. pc[t] \notin RunStep /\ pc[t] \in ReservedStep
    BY <1>0 DEF RunStep, ReservedStep
  <1>3. CASE UNCHANGED <<gens, gen>> /\ StartGenerationFailed(t)
    <2>1. \E x \in {"finish", "startfail"} : pc' = [pc EXCEPT ![t] = x]
      BY <1>3 DEF StartGenerationFailed, Outcome
    <2> QED BY <1>0, <1>1, <1>2, <1>3, <2>1, StorePlain DEF BuildingStep
  <1>4. ASSUME NEW g \in Gens, IsNextGen(srv[t], g), pc' = [pc EXCEPT ![t] = "launch"],
               gens' = [gens EXCEPT ![srv[t]][g] = "staging"],
               gen' = [gen EXCEPT ![t] = g]
        PROVE  StoreInv'
    <2>1. OthersStay(t) /\ pc'[t] = "launch" /\ gen'[t] = g
      BY <1>0, <1>1, <1>4 DEF OthersStay, SameRun, TypeOK, TasksOK
    <2>2. sent[t] = {} /\ buffered[t] = {} /\ kept[t] = 0
      BY <1>2 DEF StoreInv, RunInv, RunOK
    <2>3. rows[srv[t]][g] = {}
      BY <1>0, <1>4, NextGenIsNew DEF StoreInv, AbsentIsEmpty
    <2>4. gens'[srv[t]][g] = "staging" /\ OnlyAt(srv[t])
      BY <1>0, <1>1, <1>4 DEF OnlyAt, TypeOK, StoreOK
    <2>5. RunOK(t)'
      BY <1>1, <2>1, <2>2, <2>3, <2>4, FS_EmptySet DEF RunOK, RunStep
    <2>6. \A h \in Gens : gens'[srv[t]][h] = "absent" => gens[srv[t]][h] = "absent"
      BY <1>0, <1>4 DEF TypeOK, StoreOK
    <2>7. \A h \in Gens : gens'[srv[t]][h] = "absent" => rows'[srv[t]][h] = {}
      BY <1>0, <1>1, <2>6 DEF StoreInv, AbsentIsEmpty
    <2> QED BY <1>0, <1>1, <1>2, <2>1, <2>4, <2>5, <2>7, StoreWrite
  <1> QED BY <1>3, <1>4 DEF StartGeneration

(* launch_refresh_build. *)
LEMMA StoreLaunch ==
  ASSUME TypeOK, StoreInv, NEW t \in Tasks, LaunchBuild(t)
  PROVE  StoreInv'
  <1>1. /\ pc[t] = "launch"
        /\ UNCHANGED <<gens, rows, dpc, srv, gen, end, sent, buffered, kept>>
        /\ \E x \in {"abandon", "loop"} : pc' = [pc EXCEPT ![t] = x]
    BY DEF LaunchBuild, Outcome, others, locals, durable
  <1>2. OthersStay(t) /\ pc'[t] \in {"abandon", "loop"}
    BY <1>1 DEF OthersStay, SameRun, TypeOK, TasksOK
  <1>3. RunOK(t)
    BY DEF StoreInv, RunInv
  <1>4. RunOK(t)'
    BY <1>1, <1>2, <1>3 DEF RunOK, RunStep, BuildingStep, WritingStep
  <1> QED BY <1>1, <1>2, <1>4, StoreMove

(* The other steps of startup neither write rows nor begin the run. *)
LEMMA StoreStartup ==
  ASSUME SafeInv, StoreInv, NEW t \in Tasks, Startup(t)
  PROVE  StoreInv'
  <1>0. TypeOK
    BY DEF SafeInv
  <1> USE <1>0 DEF RunStep, BuildingStep, others, durable, locals, Step, Outcome
  <1>1. CASE Validate(t)
    BY <1>1, StorePlain, StoreReturn DEF Validate
  <1>2. CASE Enroll(t)
    BY <1>2, StorePlain DEF Enroll
  <1>3. CASE ReserveDenied(t)
    BY <1>3, StoreReturn DEF ReserveDenied
  <1>4. CASE ReserveGranted(t)
    BY <1>4, StorePlain DEF ReserveGranted
  <1>5. CASE RefreshAfterProbe(t)
    BY <1>5, StorePlain, StoreReturn DEF RefreshAfterProbe
  <1>6. CASE StartInventory(t)
    BY <1>6, StorePlain DEF StartInventory
  <1>7. CASE AttachControl(t)
    BY <1>7, StorePlain DEF AttachControl
  <1>8. CASE TakePendingCancel(t)
    BY <1>8, StorePlain DEF TakePendingCancel
  <1>9. CASE ProbeCapabilities(t)
    BY <1>9, StorePlain DEF ProbeCapabilities, StartGenerationFailed
  <1> QED
    BY <1>1, <1>2, <1>3, <1>4, <1>5, <1>6, <1>7, <1>8, <1>9, StoreInvalidate,
       StoreStartFailure, StoreStartGeneration, StoreLaunch DEF Startup

-----------------------------------------------------------------------------
(* insert_entries: INSERT OR IGNORE counts exactly the rows that are new, so *)
(* the count stays the number of rows, whatever a batch repeats.             *)
LEMMA Inserted ==
  ASSUME TypeOK, NEW t \in Tasks, RunOK(t), pc[t] \in WritingStep,
         NEW batch \in SUBSET Items, InsertEntries(t, batch)
  PROVE  /\ rows'[srv[t]][gen[t]] = rows[srv[t]][gen[t]] \cup batch
         /\ kept'[t] = Cardinality(rows'[srv[t]][gen[t]])
         /\ buffered'[t] = {}
         /\ \A r \in Servers : r # srv[t] => rows'[r] = rows[r]
         /\ \A h \in Gens : h # gen[t] => rows'[srv[t]][h] = rows[srv[t]][h]
         /\ \A u \in Tasks : u # t => kept'[u] = kept[u] /\ buffered'[u] = buffered[u]
  <1>0. /\ srv[t] \in Servers /\ gen[t] \in Gens
        /\ kept[t] = Cardinality(rows[srv[t]][gen[t]])
        /\ rows \in [Servers -> [Gens -> SUBSET Items]]
        /\ kept \in [Tasks -> Nat] /\ buffered \in [Tasks -> SUBSET Items]
    BY DEF TypeOK, TasksOK, StoreOK, RunOK, WritingStep, BuildingStep
  <1>1. /\ rows' = [rows EXCEPT ![srv[t]][gen[t]] = @ \cup batch]
        /\ kept' = [kept EXCEPT ![t] = @ + Cardinality(batch \ rows[srv[t]][gen[t]])]
        /\ buffered' = [buffered EXCEPT ![t] = {}]
    BY DEF InsertEntries
  <1>2. rows'[srv[t]][gen[t]] = rows[srv[t]][gen[t]] \cup batch
    BY <1>0, <1>1
  <1>3. PICK old \in SUBSET Items : old = rows[srv[t]][gen[t]]
    BY <1>0
  <1>4. PICK new \in SUBSET Items : new = batch \ old
    BY <1>3
  <1>5. IsFiniteSet(old) /\ IsFiniteSet(new)
    BY BuildAssumption, FS_Subset
  <1>6. old \cup batch = old \cup new /\ old \cap new = {}
    BY <1>4
  <1>7. Cardinality(old \cup new) = Cardinality(old) + Cardinality(new)
    <2>1. Cardinality(old \cup new) =
            Cardinality(old) + Cardinality(new) - Cardinality(old \cap new)
      BY <1>5, FS_Union
    <2>2. Cardinality(old \cap new) = 0
      BY <1>6, FS_EmptySet
    <2>3. Cardinality(old) \in Nat /\ Cardinality(new) \in Nat
      BY <1>5, FS_CardinalityType
    <2> QED BY <2>1, <2>2, <2>3
  <1>8. kept'[t] = Cardinality(old) + Cardinality(new)
    BY <1>0, <1>1, <1>3, <1>4
  <1>9. kept'[t] = Cardinality(rows'[srv[t]][gen[t]])
    BY <1>2, <1>3, <1>6, <1>7, <1>8
  <1> QED BY <1>0, <1>1, <1>2, <1>9

(* A batch is committed while the build goes on at step x. *)
LEMMA StoreInsert ==
  ASSUME SafeInv, StoreInv, NEW t \in Tasks, pc[t] \in {"loop", "settle"},
         NEW batch \in SUBSET Items, InsertEntries(t, batch), buffered[t] \subseteq batch,
         sent' = [sent EXCEPT ![t] = @ \cup batch],
         NEW x, x \in BuildingStep \ {"launch"}, pc' = [pc EXCEPT ![t] = x],
         x = "promote" => end[t] = "complete",
         UNCHANGED <<gens, srv, gen, end, dpc>>
  PROVE  StoreInv'
  <1>0. TypeOK /\ srv[t] \in Servers /\ RunOK(t)
    BY DEF SafeInv, TypeOK, TasksOK, StoreInv, RunInv
  <1>1. pc[t] \in ReservedStep /\ pc[t] \in WritingStep /\ pc[t] \in BuildingStep
    BY DEF ReservedStep, WritingStep, BuildingStep
  <1>2. /\ rows'[srv[t]][gen[t]] = rows[srv[t]][gen[t]] \cup batch
        /\ kept'[t] = Cardinality(rows'[srv[t]][gen[t]])
        /\ buffered'[t] = {}
        /\ \A r \in Servers : r # srv[t] => rows'[r] = rows[r]
        /\ \A h \in Gens : h # gen[t] => rows'[srv[t]][h] = rows[srv[t]][h]
        /\ \A u \in Tasks : u # t => kept'[u] = kept[u] /\ buffered'[u] = buffered[u]
    BY <1>0, <1>1, Inserted
  <1>3. pc'[t] = x /\ sent'[t] = sent[t] \cup batch /\ OthersStay(t)
    BY <1>0, <1>2 DEF OthersStay, SameRun, TypeOK, TasksOK
  <1>4. OnlyAt(srv[t])
    BY <1>2 DEF OnlyAt
  <1>5. /\ gen[t] \in Gens /\ gens[srv[t]][gen[t]] = "staging"
        /\ rows[srv[t]][gen[t]] \cup buffered[t] = sent[t]
    BY <1>0, <1>1 DEF RunOK
  <1>6. rows'[srv[t]][gen[t]] \cup {} = sent'[t]
    BY <1>2, <1>3, <1>5
  <1>7. x \in RunStep
    BY DEF RunStep, BuildingStep
  <1>8. RunOK(t)'
    BY <1>2, <1>3, <1>5, <1>6, <1>7 DEF RunOK
  <1>9. \A g \in Gens : gens'[srv[t]][g] = "absent" => rows'[srv[t]][g] = {}
    BY <1>0, <1>2, <1>5 DEF StoreInv, AbsentIsEmpty
  <1> QED BY <1>0, <1>1, <1>3, <1>4, <1>8, <1>9, StoreWrite

(* The loop of run_build and the end it comes to. *)
LEMMA StoreLoop ==
  ASSUME SafeInv, StoreInv, NEW t \in Tasks,
         \/ \E i \in Items : ReceiveEntry(t, i)
         \/ CommitDue(t) \/ EndLoop(t) \/ BuildPanics(t)
  PROVE  StoreInv'
  <1>0. /\ TypeOK /\ RunOK(t) /\ buffered \in [Tasks -> SUBSET Items]
        /\ sent \in [Tasks -> SUBSET Items] /\ pc \in [Tasks -> PcSet]
    BY DEF SafeInv, TypeOK, TasksOK, StoreInv, RunInv
  <1> USE <1>0 DEF others, durable, locals, Step, Outcome
  <1>1. ASSUME NEW i \in Items, ReceiveEntry(t, i), InsertEntries(t, buffered[t] \cup {i})
        PROVE  StoreInv'
    <2>1. /\ pc[t] = "loop" /\ pc' = [pc EXCEPT ![t] = "loop"]
          /\ UNCHANGED <<gens, srv, gen, end, dpc>>
      BY <1>1 DEF ReceiveEntry
    <2>2. sent' = [sent EXCEPT ![t] = @ \cup (buffered[t] \cup {i})]
      <3>1. buffered[t] \subseteq sent[t]
        BY <2>1 DEF RunOK, WritingStep
      <3>2. sent[t] \cup {i} = sent[t] \cup (buffered[t] \cup {i})
        BY <3>1
      <3> QED BY <1>1, <3>2 DEF ReceiveEntry
    <2>3. "loop" \in BuildingStep \ {"launch"}
      BY DEF BuildingStep
    <2> QED BY <1>1, <2>1, <2>2, <2>3, StoreInsert
  <1>2. ASSUME NEW i \in Items, ReceiveEntry(t, i),
               buffered' = [buffered EXCEPT ![t] = @ \cup {i}], UNCHANGED <<rows, kept>>
        PROVE  StoreInv'
    <2>1. /\ pc[t] = "loop" /\ UNCHANGED <<pc, gens, srv, gen, end, dpc>>
          /\ sent'[t] = sent[t] \cup {i} /\ buffered'[t] = buffered[t] \cup {i}
      BY <1>2 DEF ReceiveEntry
    <2>2. OthersStay(t)
      BY <1>2, <2>1 DEF OthersStay, SameRun, ReceiveEntry
    <2>3. RunOK(t)'
      BY <1>2, <2>1 DEF RunOK, RunStep, WritingStep, BuildingStep
    <2> QED BY <1>2, <2>1, <2>2, <2>3, StoreMove
  <1>3. CASE CommitDue(t)
    <2>1. /\ pc[t] = "loop" /\ pc' = [pc EXCEPT ![t] = "loop"]
          /\ UNCHANGED <<gens, srv, gen, end, dpc>> /\ InsertEntries(t, buffered[t])
      BY <1>3 DEF CommitDue
    <2>2. sent' = [sent EXCEPT ![t] = @ \cup buffered[t]]
      <3>1. sent[t] \cup buffered[t] = sent[t]
        BY <2>1 DEF RunOK, WritingStep
      <3> QED BY <1>3, <3>1 DEF CommitDue
    <2>3. "loop" \in BuildingStep \ {"launch"}
      BY DEF BuildingStep
    <2> QED BY <2>1, <2>2, <2>3, StoreInsert
  <1>4. CASE EndLoop(t) \/ BuildPanics(t)
    <2>1. /\ pc[t] \in {"loop", "settle"}
          /\ \E x \in {"settle", "fail"} : \E e : /\ pc' = [pc EXCEPT ![t] = x]
                                                 /\ end' = [end EXCEPT ![t] = e]
          /\ UNCHANGED <<gens, rows, dpc, srv, gen, sent, buffered, kept>>
      BY <1>4 DEF EndLoop, InventoryCompleted, InventoryFailed, StreamEnded, LeaveLoop,
                  BuildPanics
    <2>2. OthersStay(t) /\ pc'[t] \in {"settle", "fail"}
      BY <2>1 DEF OthersStay, SameRun, TypeOK, TasksOK
    <2>3. RunOK(t)'
      BY <2>1, <2>2 DEF RunOK, RunStep, WritingStep, BuildingStep
    <2> QED BY <2>1, <2>2, <2>3, StoreMove
  <1> QED BY <1>1, <1>2, <1>3, <1>4 DEF ReceiveEntry

-----------------------------------------------------------------------------
(* finalize_build promotes a complete inventory only. *)
LEMMA FinalizeTarget ==
  ASSUME NEW t \in Tasks, NEW e, Finalize(t, e)
  PROVE  \E x \in {"promote", "fail", "abandon"} :
           pc' = [pc EXCEPT ![t] = x] /\ (x = "promote" => e = "complete")
  BY DEF Finalize, Outcome, FinishFailedBuild, FinishInterruptedBuild,
         FinishCompletedBuild, FinishCancelledBuild

(* The last commit comes before the promotion. *)
LEMMA StoreSettle ==
  ASSUME SafeInv, StoreInv, NEW t \in Tasks, Settle(t)
  PROVE  StoreInv'
  <1>0. /\ TypeOK /\ RunOK(t) /\ buffered \in [Tasks -> SUBSET Items]
        /\ sent \in [Tasks -> SUBSET Items] /\ pc[t] = "settle"
    BY DEF SafeInv, TypeOK, TasksOK, StoreInv, RunInv, Settle
  <1>1. UNCHANGED <<gens, srv, gen, end, dpc, sent>>
    BY DEF Settle, others
  <1>2. CASE InsertEntries(t, buffered[t]) /\ Finalize(t, end[t])
    <2>1. PICK x \in {"promote", "fail", "abandon"} :
            pc' = [pc EXCEPT ![t] = x] /\ (x = "promote" => end[t] = "complete")
      BY <1>2, FinalizeTarget
    <2>2. x \in BuildingStep \ {"launch"}
      BY DEF BuildingStep
    <2>3. sent' = [sent EXCEPT ![t] = @ \cup buffered[t]]
      <3>1. sent[t] \cup buffered[t] = sent[t]
        BY <1>0 DEF RunOK, WritingStep
      <3> QED BY <1>0, <1>1, <3>1
    <2>4. buffered[t] \in SUBSET Items
      BY <1>0
    <2> QED BY <1>0, <1>1, <1>2, <2>1, <2>2, <2>3, <2>4, StoreInsert
  <1>3. ASSUME NEW e, Finalize(t, e), UNCHANGED <<rows, kept, buffered>>,
               e = "complete" => end[t] = "complete" /\ buffered[t] = {}
        PROVE  StoreInv'
    <2>1. PICK x \in {"promote", "fail", "abandon"} :
            pc' = [pc EXCEPT ![t] = x] /\ (x = "promote" => e = "complete")
      BY <1>3, FinalizeTarget
    <2>2. OthersStay(t) /\ pc'[t] = x
      BY <1>0, <1>1, <1>3, <2>1 DEF OthersStay, SameRun, TypeOK, TasksOK
    <2>3. RunOK(t)'
      BY <1>0, <1>1, <1>3, <2>1, <2>2 DEF RunOK, RunStep, WritingStep, BuildingStep
    <2> QED BY <1>1, <1>3, <2>2, <2>3, StoreMove
  <1>4. CASE /\ ~(end[t] \in {"complete", "incomplete"} /\ buffered[t] # {})
             /\ UNCHANGED <<rows, kept, buffered>> /\ Finalize(t, end[t])
    BY <1>3, <1>4
  <1>5. CASE Finalize(t, "failed") /\ UNCHANGED <<rows, kept, buffered>>
    BY <1>3, <1>5
  <1> QED BY <1>2, <1>4, <1>5 DEF Settle

(* promote_with_profile, fail_generation and abandon_generation settle the   *)
(* row; the run is over.                                                     *)
LEMMA StoreSettled ==
  ASSUME SafeInv, StoreInv, NEW t \in Tasks,
         Promote(t) \/ FailGeneration(t) \/ AbandonGeneration(t)
  PROVE  StoreInv'
  <1>0. TypeOK /\ srv[t] \in Servers /\ RunOK(t)
    BY DEF SafeInv, TypeOK, TasksOK, StoreInv, RunInv
  <1>1. /\ pc[t] \in {"promote", "fail", "abandon"} /\ DropRun(t)
        /\ \E x \in {"finish", "fail"} : pc' = [pc EXCEPT ![t] = x]
        /\ UNCHANGED <<rows, dpc, srv, gen, end>>
    BY DEF Promote, FailGeneration, AbandonGeneration, FinishPromotedBuild,
           FinishPromotionFailure, Outcome, Step, others
  <1>2. /\ pc[t] \in ReservedStep /\ gen[t] \in Gens
        /\ gens[srv[t]][gen[t]] = "staging"
    BY <1>0, <1>1 DEF RunOK, ReservedStep, BuildingStep
  <1>3. /\ OthersStay(t) /\ pc'[t] \in {"finish", "fail"}
        /\ sent'[t] = {} /\ buffered'[t] = {} /\ kept'[t] = 0
    BY <1>0, <1>1 DEF OthersStay, SameRun, DropRun, TypeOK, TasksOK
  <1>4. pc'[t] = "fail" => gens' = gens
    BY <1>0, <1>3 DEF Promote, FailGeneration, AbandonGeneration, FinishPromotedBuild,
           FinishPromotionFailure, Outcome, Step, TypeOK, TasksOK
  <1>5. RunOK(t)'
    BY <1>1, <1>2, <1>3, <1>4 DEF RunOK, RunStep, BuildingStep, WritingStep
  <1>6. /\ OnlyAt(srv[t])
        /\ \A g \in Gens : gens'[srv[t]][g] = "absent" =>
             gens[srv[t]][g] = "absent" \/ rows[srv[t]][g] = {}
    <2>1. CASE gens' = gens
      BY <1>0, <1>1, <2>1 DEF OnlyAt, StoreInv, AbsentIsEmpty
    <2>2. CASE Promote(t) /\ gens' # gens
      <3>1. gens' = [gens EXCEPT ![srv[t]] = [h \in Gens |->
                       IF h = gen[t] THEN "active"
                       ELSE IF @[h] = "active" THEN "superseded" ELSE @[h]]]
        BY <2>2 DEF Promote
      <3>2. \A h \in Gens : gens'[srv[t]][h] = "absent" => gens[srv[t]][h] = "absent"
        BY <1>0, <3>1 DEF TypeOK, StoreOK
      <3>3. OnlyAt(srv[t])
        BY <1>0, <1>1, <3>1 DEF OnlyAt, TypeOK, StoreOK
      <3> QED BY <3>2, <3>3
    <2>3. CASE FailGeneration(t) /\ gens' # gens
      BY <1>0, <1>1, <1>2, <2>3, SMTT(30) DEF OnlyAt, FailGeneration, TypeOK, StoreOK
    <2>4. CASE AbandonGeneration(t) /\ gens' # gens
      BY <1>0, <1>1, <1>2, <2>4, SMTT(30) DEF OnlyAt, AbandonGeneration, TypeOK, StoreOK
    <2> QED BY <2>1, <2>2, <2>3, <2>4
  <1>7. \A g \in Gens : gens'[srv[t]][g] = "absent" => rows'[srv[t]][g] = {}
    BY <1>0, <1>1, <1>6 DEF StoreInv, AbsentIsEmpty
  <1> QED BY <1>0, <1>1, <1>2, <1>3, <1>5, <1>6, <1>7, StoreWrite

(* Every step of a call or of its build task. *)
LEMMA StoreTask ==
  ASSUME SafeInv, StoreInv, NEW t \in Tasks, TaskStep(t)
  PROVE  StoreInv'
  <1>0. TypeOK
    BY DEF SafeInv
  <1> USE <1>0 DEF RunStep, BuildingStep, others, durable, locals, Step, Outcome
  <1>1. CASE \E s \in Servers :
               RefreshIfDue(t, s) \/ \E k \in {"manual", "forced"} : Refresh(t, s, k)
    <2>1. /\ pc[t] = "idle"
          /\ \E x \in {"reserve", "validate", "probing"} : pc' = [pc EXCEPT ![t] = x]
          /\ \E s \in Servers : srv' = [srv EXCEPT ![t] = s]
          /\ UNCHANGED <<gens, rows, dpc, gen, end, sent, buffered, kept>>
      BY <1>1 DEF Refresh, RefreshIfDue
    <2>2. OthersStay(t) /\ pc'[t] \notin BuildingStep
      BY <2>1 DEF OthersStay, SameRun, TypeOK, TasksOK
    <2>3. sent[t] = {} /\ buffered[t] = {} /\ kept[t] = 0
      BY <2>1 DEF StoreInv, RunInv, RunOK
    <2> QED BY <2>1, <2>2, <2>3, RunPlain, StoreMove
  <1>2. CASE Teardown(t)
    <2>1. CASE FinishBuild(t)
      BY <2>1, StorePlain, StoreReturn DEF FinishBuild
    <2>2. CASE PersistRetry(t) \/ RemoveOwner(t) \/ ClearActiveBuild(t)
               \/ ClearBuildLock(t) \/ TakeRuntimeBuild(t)
      BY <2>2, StorePlain
      DEF PersistRetry, RemoveOwner, ClearActiveBuild, ClearBuildLock, TakeRuntimeBuild
    <2>3. CASE ClearPendingCancel(t)
      BY <2>3, StoreReturn DEF ClearPendingCancel
    <2> QED BY <1>2, <2>1, <2>2, <2>3, StoreSettle, StoreSettled DEF Teardown
  <1>3. CASE ClientGone(t)
    BY <1>3, StoreReturn DEF ClientGone
  <1> QED BY <1>1, <1>2, <1>3, StoreStartup, StoreLoop DEF TaskStep

(* Deletion, cleanup and the rest: a deletion works where no build is, and   *)
(* cleanup takes no generation that a build is writing.                      *)
LEMMA StoreServer ==
  ASSUME SafeInv, StoreInv, NEW s \in Servers, ServerStep(s)
  PROVE  StoreInv'
  <1>0. /\ TypeOK /\ dpc \in [Servers -> DeleteSteps]
        /\ gens \in [Servers -> [Gens -> GenState]]
        /\ rows \in [Servers -> [Gens -> SUBSET Items]]
        /\ \A u \in Tasks : srv[u] \in Servers
    BY DEF SafeInv, TypeOK, StoreOK, MemoryOK, TasksOK
  <1>1. \A u \in Tasks : SameRun(u)
    BY DEF ServerStep, DeletionStep, Cancel, ApplyCancel, SetAutoRefresh,
        DeleteIndex, DeleteCancel, DeleteWait, DeleteLock, DeleteRows,
        DeleteRuntime, DeleteUnpend, DeleteDone, DeadlinesPass, Cleanup, locals,
        SameRun
  <1>2. CASE /\ DeleteStep(s, "db", "forget")
             /\ gens' = [gens EXCEPT ![s] = PerGen("absent")]
             /\ rows' = [rows EXCEPT ![s] = PerGen({})]
    <2>1. OnlyAt(s) /\ \A g \in Gens : gens'[s][g] = "absent" /\ rows'[s][g] = {}
      BY <1>0, <1>2 DEF OnlyAt, PerGen
    <2>2. \A u \in Tasks : pc[u] \in BuildingStep => srv[u] # s
      BY <1>2 DEF DeleteStep, SafeInv, ExclInv, BuildHoldsLock, DeletionHoldsLock,
                  BuildingStep, ReservedStep
    <2>3. RunInv'
      BY <1>0, <1>1, <2>1, <2>2, RunFrame DEF StoreInv, RunInv, OnlyAt
    <2>4. AbsentIsEmpty'
      BY <2>1 DEF StoreInv, AbsentIsEmpty, OnlyAt
    <2>5. DeletionErases'
      BY <1>0, <1>2, <2>1 DEF StoreInv, DeletionErases, OnlyAt, DeleteStep
    <2> QED BY <2>3, <2>4, <2>5 DEF StoreInv
  <1>3. ASSUME NEW g \in Gens, Cleanup(s, g) PROVE StoreInv'
    <2>1. /\ gens' = [gens EXCEPT ![s][g] = "absent"] /\ rows' = [rows EXCEPT ![s][g] = {}]
          /\ dpc' = dpc /\ gens[s][g] # "staging"
      BY <1>3 DEF Cleanup, Obsolete, others
    <2>2. \A r \in Servers, h \in Gens :
            /\ gens'[r][h] = IF r = s /\ h = g THEN "absent" ELSE gens[r][h]
            /\ rows'[r][h] = IF r = s /\ h = g THEN {} ELSE rows[r][h]
      BY <1>0, <2>1
    <2>3. RunInv'
      <3> SUFFICES ASSUME NEW u \in Tasks PROVE RunOK(u)'
        BY DEF RunInv
      <3>1. RunOK(u) /\ SameRun(u)
        BY <1>1 DEF StoreInv, RunInv
      <3>2. pc[u] \in BuildingStep =>
              /\ gens'[srv[u]][gen[u]] = gens[srv[u]][gen[u]]
              /\ rows'[srv[u]][gen[u]] = rows[srv[u]][gen[u]]
        BY <1>0, <2>1, <2>2, <3>1 DEF RunOK
      <3> QED BY <3>1, <3>2, RunFrame
    <2>4. AbsentIsEmpty' /\ DeletionErases'
      BY <2>1, <2>2 DEF StoreInv, AbsentIsEmpty, DeletionErases
    <2> QED BY <2>3, <2>4 DEF StoreInv
  <1>4. CASE UNCHANGED <<gens, rows>> /\
             \A r \in Servers : dpc'[r] \in {"forget", "unpend"} =>
                                dpc[r] \in {"forget", "unpend"}
    <2>1. RunInv'
      BY <1>1, <1>4, RunFrame DEF StoreInv, RunInv
    <2> QED BY <1>4, <2>1 DEF StoreInv, AbsentIsEmpty, DeletionErases
  <1>5. CASE DeleteRows(s)
    BY <1>0, <1>2, <1>4, <1>5 DEF DeleteRows, DeleteStep, durable
  <1>6. CASE DeleteIndex(s) \/ DeleteCancel(s) \/ DeleteWait(s) \/ DeleteLock(s)
             \/ DeleteRuntime(s) \/ DeleteUnpend(s) \/ DeleteDone(s)
    BY <1>0, <1>4, <1>6
    DEF DeleteIndex, DeleteCancel, DeleteWait, DeleteLock, DeleteRuntime, DeleteUnpend,
        DeleteDone, DeleteStep, durable
  <1>7. CASE Cancel(s) \/ ApplyCancel(s) \/ DeadlinesPass(s)
             \/ \E e \in BOOLEAN : SetAutoRefresh(s, e)
    BY <1>4, <1>7
    DEF Cancel, ApplyCancel, DeadlinesPass, SetAutoRefresh, durable, others
  <1> QED BY <1>3, <1>5, <1>6, <1>7 DEF ServerStep, DeletionStep

(* The invariant of the store is kept by every step of the system. *)
LEMMA StoreNext == SafeInv /\ StoreInv /\ [Next]_vars => StoreInv'
  <1> SUFFICES ASSUME SafeInv, StoreInv, [Next]_vars PROVE StoreInv'
    OBVIOUS
  <1>1. ASSUME NEW t \in Tasks, TaskStep(t) PROVE StoreInv'
    BY <1>1, StoreTask
  <1>2. ASSUME NEW s \in Servers, ServerStep(s) PROVE StoreInv'
    BY <1>2, StoreServer
  <1>3. CASE RequestShutdown \/ CancelBuilds \/ BecomeIdle \/ UNCHANGED vars
    <2>1. UNCHANGED <<gens, rows, dpc>> /\ \A u \in Tasks : SameRun(u)
      BY <1>3 DEF RequestShutdown, CancelBuilds, BecomeIdle, vars, durable, locals,
                  others, SameRun
    <2>2. RunInv'
      BY <2>1, RunFrame DEF StoreInv, RunInv
    <2> QED BY <2>1, <2>2 DEF StoreInv, AbsentIsEmpty, DeletionErases
  <1>4. CASE Restart
    <2>1. RunInv'
      BY <1>4, RunPlain DEF Restart, RunInv, PerTask, BuildingStep
    <2>2. AbsentIsEmpty'
      BY <1>4 DEF Restart, RecoveredGens, StoreInv, AbsentIsEmpty
    <2>3. DeletionErases'
      BY <1>4 DEF Restart, DeletionErases, PerServer
    <2> QED BY <2>1, <2>2, <2>3 DEF StoreInv
  <1> QED BY <1>1, <1>2, <1>3, <1>4 DEF Next

(* It holds from the start. *)
LEMMA StoreInvariant == Spec => []StoreInv
  <1>1. Init => StoreInv
    BY DEF Init, EmptyStore, FreshProcess, StoreInv, RunInv, RunOK, RunStep,
           BuildingStep, WritingStep, AbsentIsEmpty, DeletionErases, PerServer,
           PerTask, PerGen
  <1> QED BY <1>1, StoreNext, SafeInvariant, PTL DEF Spec

(* What a deletion has erased stays erased until the deletion is over: no    *)
(* build that winds down, starts or commits late brings a row back.          *)
THEOREM DeletionIsFinal == Spec => []DeletedStaysDeleted
  <1>1. StoreInv => DeletedStaysDeleted
    BY DEF StoreInv, AbsentIsEmpty, DeletionErases, DeletedStaysDeleted
  <1> QED BY <1>1, StoreInvariant, PTL

-----------------------------------------------------------------------------
(* A step of one task leaves what the other builds have received alone. *)
LEMMA OthersStartup ==
  ASSUME TypeOK, NEW t \in Tasks, Startup(t)
  PROVE  OthersStay(t) /\ pc[t] \notin {"settle", "promote"}
                       /\ pc'[t] \notin {"settle", "promote"}
  <1>0. /\ pc \in [Tasks -> PcSet] /\ srv \in [Tasks -> Servers]
        /\ gen \in [Tasks -> 0..MaxGen] /\ end \in [Tasks -> EndState]
        /\ sent \in [Tasks -> SUBSET Items] /\ buffered \in [Tasks -> SUBSET Items]
        /\ kept \in [Tasks -> Nat]
    BY DEF TypeOK, TasksOK
  <1> USE <1>0 DEF OthersStay, SameRun, locals, Step, Outcome
  <1>1. CASE Validate(t) \/ ReserveDenied(t) \/ RefreshAfterProbe(t)
    BY <1>1 DEF Validate, ReserveDenied, RefreshAfterProbe, Return
  <1>2. CASE Enroll(t) \/ ReserveGranted(t) \/ StartInventory(t)
    BY <1>2 DEF Enroll, ReserveGranted, StartInventory
  <1>3. CASE InvalidateProfile(t) \/ RecordStartFailure(t)
    BY <1>3 DEF InvalidateProfile, RecordStartFailure
  <1>4. CASE AttachControl(t) \/ TakePendingCancel(t)
    BY <1>4 DEF AttachControl, TakePendingCancel
  <1>5. CASE ProbeCapabilities(t) \/ StartGeneration(t)
    BY <1>5 DEF ProbeCapabilities, StartGeneration, StartGenerationFailed
  <1>6. CASE LaunchBuild(t)
    BY <1>6 DEF LaunchBuild
  <1> QED BY <1>1, <1>2, <1>3, <1>4, <1>5, <1>6 DEF Startup

(* The release of a build, and the steps that settle its generation. *)
LEMMA OthersRelease ==
  ASSUME TypeOK, NEW t \in Tasks,
         \/ FailGeneration(t) \/ AbandonGeneration(t) \/ FinishBuild(t)
         \/ PersistRetry(t) \/ RemoveOwner(t) \/ ClearActiveBuild(t)
         \/ ClearBuildLock(t) \/ TakeRuntimeBuild(t) \/ ClearPendingCancel(t)
         \/ ClientGone(t)
  PROVE  OthersStay(t) /\ pc[t] \notin {"settle", "promote"}
                       /\ pc'[t] \notin {"settle", "promote"}
  <1>0. /\ pc \in [Tasks -> PcSet] /\ srv \in [Tasks -> Servers]
        /\ gen \in [Tasks -> 0..MaxGen] /\ end \in [Tasks -> EndState]
        /\ sent \in [Tasks -> SUBSET Items] /\ buffered \in [Tasks -> SUBSET Items]
        /\ kept \in [Tasks -> Nat]
    BY DEF TypeOK, TasksOK
  <1> USE <1>0 DEF OthersStay, SameRun, locals, Step, Outcome
  <1>1. CASE FailGeneration(t) \/ AbandonGeneration(t)
    BY <1>1 DEF FailGeneration, AbandonGeneration, DropRun
  <1>2. CASE FinishBuild(t) \/ ClearPendingCancel(t) \/ ClientGone(t)
    BY <1>2 DEF FinishBuild, ClearPendingCancel, ClientGone, Return
  <1>3. CASE PersistRetry(t) \/ RemoveOwner(t) \/ ClearActiveBuild(t)
             \/ ClearBuildLock(t) \/ TakeRuntimeBuild(t)
    BY <1>3 DEF PersistRetry, RemoveOwner, ClearActiveBuild, ClearBuildLock,
                TakeRuntimeBuild
  <1> QED BY <1>1, <1>2, <1>3

(* Calls that begin, and entries that arrive. *)
LEMMA OthersReceive ==
  ASSUME TypeOK, NEW t \in Tasks,
         \/ \E s \in Servers, k \in {"manual", "forced"} : Refresh(t, s, k)
         \/ \E s \in Servers : RefreshIfDue(t, s)
         \/ \E i \in Items : ReceiveEntry(t, i)
         \/ CommitDue(t)
  PROVE  OthersStay(t) /\ pc[t] \notin {"settle", "promote"}
                       /\ pc'[t] \notin {"settle", "promote"}
  <1>0. /\ pc \in [Tasks -> PcSet] /\ srv \in [Tasks -> Servers]
        /\ gen \in [Tasks -> 0..MaxGen] /\ end \in [Tasks -> EndState]
        /\ sent \in [Tasks -> SUBSET Items] /\ buffered \in [Tasks -> SUBSET Items]
        /\ kept \in [Tasks -> Nat]
    BY DEF TypeOK, TasksOK
  <1> QED
    BY <1>0 DEF OthersStay, SameRun, Step, Refresh, RefreshIfDue, ReceiveEntry,
                CommitDue, InsertEntries

(* The end of the loop, and the dispatch to its outcome. *)
LEMMA OthersEnd ==
  ASSUME TypeOK, NEW t \in Tasks,
         EndLoop(t) \/ BuildPanics(t) \/ Settle(t) \/ Promote(t)
  PROVE  OthersStay(t) /\ srv' = srv /\ pc[t] \in {"loop", "settle", "promote"}
  <1>0. /\ pc \in [Tasks -> PcSet] /\ srv \in [Tasks -> Servers]
        /\ gen \in [Tasks -> 0..MaxGen] /\ end \in [Tasks -> EndState]
        /\ sent \in [Tasks -> SUBSET Items] /\ buffered \in [Tasks -> SUBSET Items]
        /\ kept \in [Tasks -> Nat]
    BY DEF TypeOK, TasksOK
  <1> USE <1>0 DEF OthersStay, SameRun, locals, Step, Outcome
  <1>1. CASE EndLoop(t) \/ BuildPanics(t)
    BY <1>1 DEF EndLoop, InventoryCompleted, InventoryFailed, StreamEnded, LeaveLoop,
                BuildPanics
  <1>2. CASE Settle(t)
    <2>1. \E x : pc' = [pc EXCEPT ![t] = x]
      BY <1>2, FinalizeTarget DEF Settle
    <2> QED BY <1>2, <2>1 DEF Settle, InsertEntries
  <1>3. CASE Promote(t)
    BY <1>3 DEF Promote, DropRun, FinishPromotedBuild, FinishPromotionFailure
  <1> QED BY <1>1, <1>2, <1>3

-----------------------------------------------------------------------------
(* What search sees: the rows and the count of the one active generation.    *)
KeepsActive(s) ==
  \A g \in Gens :
    /\ gens'[s][g] = "active" <=> gens[s][g] = "active"
    /\ gens[s][g] = "active" => rows'[s][g] = rows[s][g] /\ count'[s][g] = count[s][g]

(* A choice from one possibility. *)
LEMMA UniqueChoice ==
  ASSUME NEW f, NEW g \in Gens, f[g] = "active", \A h \in Gens : f[h] = "active" => h = g
  PROVE  (CHOOSE h \in Gens : f[h] = "active") = g
  OBVIOUS

(* Rows of other generations do not show. *)
LEMMA ServedKept ==
  ASSUME OneActive, NEW s \in Servers, KeepsActive(s)
  PROVE  Served(s)' = Served(s)
  <1>1. CASE HasActive(s)
    <2>1. PICK g \in Gens : gens[s][g] = "active"
      BY <1>1 DEF HasActive
    <2>2. /\ \A h \in Gens : gens[s][h] = "active" => h = g
          /\ gens'[s][g] = "active"
          /\ \A h \in Gens : gens'[s][h] = "active" => h = g
      BY <2>1 DEF OneActive, KeepsActive
    <2>3. (CHOOSE h \in Gens : gens[s][h] = "active") = g
      BY <2>1, <2>2, UniqueChoice
    <2>4. (CHOOSE h \in Gens : gens'[s][h] = "active") = g
      BY <2>1, <2>2, UniqueChoice
    <2>5. HasActive(s)'
      BY <2>2 DEF HasActive
    <2>6. Served(s) = [items |-> rows[s][g], size |-> count[s][g]]
      BY <1>1, <2>3 DEF Served
    <2>7. Served(s)' = [items |-> rows'[s][g], size |-> count'[s][g]]
      BY <2>4, <2>5 DEF Served
    <2> QED BY <2>1, <2>6, <2>7 DEF KeepsActive
  <1>2. CASE ~HasActive(s)
    <2>1. ~HasActive(s)'
      BY <1>2 DEF HasActive, KeepsActive
    <2> QED BY <1>2, <2>1 DEF Served
  <1> QED BY <1>1, <1>2

(* Nothing shows. *)
Unseen ==
  \A s \in Servers : Served(s)' = Served(s) /\ Surveys(s)' = Surveys(s)

(* Then the catalogue stutters. *)
LEMMA UnseenStutters ==
  ASSUME Unseen
  PROVE  UNCHANGED Catalog!vars
  <1>1. [s \in Servers |-> Served(s)'] = [s \in Servers |-> Served(s)]
    BY DEF Unseen
  <1>2. [s \in Servers |-> Surveys(s)'] = [s \in Servers |-> Surveys(s)]
    BY DEF Unseen
  <1> QED BY <1>1, <1>2 DEF Catalog!vars

(* A task that has not completed its inventory moves. *)
LEMMA SurveysKept ==
  ASSUME NEW t \in Tasks, OthersStay(t), ~Surveyed(t), ~Surveyed(t)'
  PROVE  \A s \in Servers : Surveys(s)' = Surveys(s)
  <1>1. \A u \in Tasks :
          /\ Surveyed(u)' <=> Surveyed(u)
          /\ Surveyed(u) => sent'[u] = sent[u] /\ srv'[u] = srv[u]
    BY DEF OthersStay, SameRun, Surveyed
  <1> QED BY <1>1 DEF Surveys

(* The complete inventory of a server is that of its one build. *)
LEMMA SurveysOfBuild ==
  ASSUME SafeInv, NEW t \in Tasks, pc[t] \in ReservedStep, OthersStay(t),
         NEW s \in Servers, srv[t] = s, srv'[t] = s
  PROVE  /\ Surveys(s) = IF Surveyed(t) THEN {sent[t]} ELSE {}
         /\ Surveys(s)' = IF Surveyed(t)' THEN {sent'[t]} ELSE {}
         /\ \A r \in Servers : r # s => Surveys(r)' = Surveys(r)
  <1>1. \A u \in Tasks : Surveyed(u) => pc[u] \in ReservedStep
    BY DEF Surveyed, ReservedStep
  <1>2. \A u \in Tasks : Surveyed(u) /\ srv[u] = s => u = t
    BY <1>1 DEF SafeInv, ExclInv, OneBuildPerServer
  <1>3. \A u \in Tasks : u # t =>
          /\ Surveyed(u)' <=> Surveyed(u)
          /\ sent'[u] = sent[u] /\ srv'[u] = srv[u]
    BY DEF OthersStay, SameRun, Surveyed
  <1>4. Surveys(s) = IF Surveyed(t) THEN {sent[t]} ELSE {}
    BY <1>2 DEF Surveys
  <1>5. Surveys(s)' = IF Surveyed(t)' THEN {sent'[t]} ELSE {}
    BY <1>2, <1>3 DEF Surveys
  <1>6. \A r \in Servers : r # s => Surveys(r)' = Surveys(r)
    BY <1>3 DEF Surveys
  <1> QED BY <1>4, <1>5, <1>6

CatalogStep == [Catalog!Next]_(Catalog!vars)

(* A build step that does not touch the active generation: the inventory is  *)
(* complete now, or is not used any more, or nothing happened to it.         *)
LEMMA CatalogSurvey ==
  ASSUME SafeInv, OneActive, TypeOK', NEW t \in Tasks, pc[t] \in ReservedStep,
         OthersStay(t), NEW s \in Servers, srv[t] = s, srv'[t] = s,
         \A r \in Servers : KeepsActive(r),
         Surveyed(t) /\ Surveyed(t)' => sent'[t] = sent[t]
  PROVE  CatalogStep
  <1>1. \A r \in Servers : Served(r)' = Served(r)
    BY ServedKept
  <1>2. [r \in Servers |-> Served(r)'] = [r \in Servers |-> Served(r)]
    BY <1>1
  <1>3. /\ Surveys(s) = IF Surveyed(t) THEN {sent[t]} ELSE {}
        /\ Surveys(s)' = IF Surveyed(t)' THEN {sent'[t]} ELSE {}
        /\ \A r \in Servers : r # s => Surveys(r)' = Surveys(r)
    BY SurveysOfBuild
  <1>4. CASE Surveyed(t) <=> Surveyed(t)'
    <2>1. Unseen
      BY <1>1, <1>3, <1>4 DEF Unseen
    <2> QED BY <2>1, UnseenStutters DEF CatalogStep
  <1>5. CASE ~Surveyed(t) /\ Surveyed(t)'
    <2>1. sent'[t] \in SUBSET Items
      BY DEF TypeOK, TasksOK
    <2>2. [r \in Servers |-> Surveys(r)'] =
            [[r \in Servers |-> Surveys(r)] EXCEPT ![s] = @ \cup {sent'[t]}]
      BY <1>3, <1>5
    <2>3. Catalog!Survey(s)
      BY <1>2, <2>1, <2>2 DEF Catalog!Survey
    <2> QED BY <2>3 DEF CatalogStep, Catalog!Next
  <1>6. CASE Surveyed(t) /\ ~Surveyed(t)'
    <2>1. sent[t] \in [r \in Servers |-> Surveys(r)][s]
      BY <1>3, <1>6
    <2>2. [r \in Servers |-> Surveys(r)'] =
            [[r \in Servers |-> Surveys(r)] EXCEPT ![s] = @ \ {sent[t]}]
      BY <1>3, <1>6
    <2>3. Catalog!Abandon(s)
      BY <1>2, <2>1, <2>2 DEF Catalog!Abandon
    <2> QED BY <2>3 DEF CatalogStep, Catalog!Next
  <1> QED BY <1>4, <1>5, <1>6

(* promote_with_profile publishes exactly what the inventory sent, with its  *)
(* number.                                                                   *)
LEMMA CatalogPublish ==
  ASSUME SafeInv, StoreInv, OneActive, NEW t \in Tasks, Promote(t),
         gens[srv[t]][gen[t]] = "staging", FinishPromotedBuild(t),
         gens' = [gens EXCEPT ![srv[t]] = [h \in Gens |->
                    IF h = gen[t] THEN "active"
                    ELSE IF @[h] = "active" THEN "superseded" ELSE @[h]]],
         count' = [count EXCEPT ![srv[t]][gen[t]] = kept[t]]
  PROVE  CatalogStep
  <1>0. /\ TypeOK /\ RunOK(t) /\ pc[t] = "promote" /\ pc[t] \in ReservedStep
        /\ rows' = rows
    BY DEF SafeInv, StoreInv, RunInv, Promote, ReservedStep
  <1>1. PICK s \in Servers : s = srv[t]
    BY <1>0 DEF TypeOK, TasksOK
  <1>2. PICK g \in Gens : g = gen[t]
    BY <1>0 DEF RunOK, BuildingStep
  <1>3. /\ rows[s][g] = sent[t] /\ kept[t] = Cardinality(sent[t])
        /\ end[t] = "complete"
    BY <1>0, <1>1, <1>2 DEF RunOK, WritingStep
  <1>4. OthersStay(t) /\ srv'[t] = s /\ pc'[t] = "finish"
    BY <1>0, <1>1, OthersEnd DEF FinishPromotedBuild, Outcome, TypeOK, TasksOK
  <1>5. /\ gens \in [Servers -> [Gens -> GenState]]
        /\ count \in [Servers -> [Gens -> Nat]]
    BY <1>0 DEF TypeOK, StoreOK
  <1>6. /\ gens'[s][g] = "active" /\ count'[s][g] = kept[t]
        /\ \A h \in Gens : gens'[s][h] = "active" => h = g
    BY <1>1, <1>2, <1>5
  <1>7. Served(s)' = [items |-> sent[t], size |-> Cardinality(sent[t])]
    <2>1. (CHOOSE h \in Gens : gens'[s][h] = "active") = g
      BY <1>6, UniqueChoice
    <2>2. HasActive(s)'
      BY <1>6 DEF HasActive
    <2> QED BY <1>0, <1>3, <1>6, <2>1, <2>2 DEF Served
  <1>8. ASSUME NEW r \in Servers, r # s PROVE Served(r)' = Served(r)
    <2>1. KeepsActive(r)
      BY <1>0, <1>1, <1>5, <1>8 DEF KeepsActive
    <2> QED BY <2>1, ServedKept
  <1>9. Surveyed(t) /\ ~Surveyed(t)'
    BY <1>0, <1>3, <1>4 DEF Surveyed
  <1>10. /\ Surveys(s) = {sent[t]} /\ Surveys(s)' = {}
         /\ \A r \in Servers : r # s => Surveys(r)' = Surveys(r)
    BY <1>0, <1>1, <1>4, <1>9, SurveysOfBuild
  <1>11. sent[t] \in [r \in Servers |-> Surveys(r)][s]
    BY <1>10
  <1>12. [r \in Servers |-> Served(r)'] =
           [[r \in Servers |-> Served(r)] EXCEPT ![s] = Catalog!Index(sent[t])]
    <2>1. Served(s)' = Catalog!Index(sent[t])
      BY <1>7 DEF Catalog!Index, Catalog!Cardinality, Cardinality
    <2> QED BY <1>8, <2>1
  <1>13. [r \in Servers |-> Surveys(r)'] =
           [[r \in Servers |-> Surveys(r)] EXCEPT ![s] = @ \ {sent[t]}]
    BY <1>10
  <1>14. Catalog!Publish(s)
    BY <1>11, <1>12, <1>13 DEF Catalog!Publish
  <1> QED BY <1>14 DEF CatalogStep, Catalog!Next

(* All generations of a server go, while no result of a build waits. *)
LEMMA CatalogWithdraw ==
  ASSUME TypeOK, OneActive, NEW s \in Servers, Surveys(s) = {},
         gens' = [gens EXCEPT ![s] = PerGen("absent")],
         rows' = [rows EXCEPT ![s] = PerGen({})],
         count' = [count EXCEPT ![s] = PerGen(0)],
         \A r \in Servers : Surveys(r)' = Surveys(r)
  PROVE  CatalogStep
  <1>1. /\ gens \in [Servers -> [Gens -> GenState]]
        /\ rows \in [Servers -> [Gens -> SUBSET Items]]
        /\ count \in [Servers -> [Gens -> Nat]]
    BY DEF TypeOK, StoreOK
  <1>2. Served(s)' = NoIndex
    BY <1>1 DEF Served, HasActive, PerGen
  <1>3. ASSUME NEW r \in Servers, r # s PROVE Served(r)' = Served(r)
    <2>1. KeepsActive(r)
      BY <1>1, <1>3 DEF KeepsActive
    <2> QED BY <2>1, ServedKept
  <1>4. [r \in Servers |-> Served(r)'] =
          [[r \in Servers |-> Served(r)] EXCEPT ![s] = NoIndex]
    BY <1>2, <1>3
  <1>5. [r \in Servers |-> Surveys(r)'] = [r \in Servers |-> Surveys(r)]
    OBVIOUS
  <1>6. [r \in Servers |-> Surveys(r)][s] = {}
    OBVIOUS
  <1>7. Catalog!Withdraw(s)
    BY <1>4, <1>5, <1>6 DEF Catalog!Withdraw
  <1> QED BY <1>7 DEF CatalogStep, Catalog!Next

(* One row is written that is not active before or after. *)
LEMMA KeepsOneRow ==
  ASSUME NEW s \in Servers, NEW g \in Gens,
         gens[s][g] # "active", gens'[s][g] # "active",
         \A r \in Servers, h \in Gens : r # s \/ h # g =>
           gens'[r][h] = gens[r][h] /\ rows'[r][h] = rows[r][h] /\ count'[r][h] = count[r][h]
  PROVE  \A r \in Servers : KeepsActive(r)
  BY DEF KeepsActive

(* The same for a change of the state of one row. *)
LEMMA KeepsOneState ==
  ASSUME TypeOK, NEW s \in Servers, NEW g \in Gens, NEW x, x # "active",
         gens[s][g] # "active", gens' = [gens EXCEPT ![s][g] = x],
         UNCHANGED <<rows, count>>
  PROVE  \A r \in Servers : KeepsActive(r)
  <1>1. \A r \in Servers, h \in Gens :
          gens'[r][h] = IF r = s /\ h = g THEN x ELSE gens[r][h]
    BY DEF TypeOK, StoreOK
  <1> QED BY <1>1, KeepsOneRow

(* A step of a task that is not done with its inventory shows nothing. *)
LEMMA CatalogQuiet ==
  ASSUME OneActive, NEW t \in Tasks, OthersStay(t), ~Surveyed(t), ~Surveyed(t)',
         \A r \in Servers : KeepsActive(r)
  PROVE  CatalogStep
  <1>1. Unseen
    BY ServedKept, SurveysKept DEF Unseen
  <1> QED BY <1>1, UnseenStutters DEF CatalogStep

(* A transaction of insert_entries writes to the staging generation. *)
LEMMA KeepsInsert ==
  ASSUME TypeOK, NEW t \in Tasks, RunOK(t), pc[t] \in WritingStep,
         NEW batch \in SUBSET Items, InsertEntries(t, batch), UNCHANGED <<gens, count>>
  PROVE  \A r \in Servers : KeepsActive(r)
  <1>1. /\ \A r \in Servers : r # srv[t] => rows'[r] = rows[r]
        /\ \A h \in Gens : h # gen[t] => rows'[srv[t]][h] = rows[srv[t]][h]
    BY Inserted
  <1>2. /\ gen[t] \in Gens /\ srv[t] \in Servers
        /\ gens[srv[t]][gen[t]] = "staging"
    BY DEF RunOK, WritingStep, BuildingStep, TypeOK, TasksOK
  <1> QED BY <1>1, <1>2, KeepsOneRow

-----------------------------------------------------------------------------
(* clear_server_index withdraws the index: the build that does it has not    *)
(* begun its inventory, and there is no other one.                           *)
LEMMA CatalogInvalidate ==
  ASSUME SafeInv, OneActive, NEW t \in Tasks, InvalidateProfile(t)
  PROVE  CatalogStep
  <1>0. /\ TypeOK /\ srv[t] \in Servers /\ pc[t] = "invalidate" /\ srv' = srv
        /\ pc[t] \in ReservedStep
    BY DEF SafeInv, TypeOK, TasksOK, InvalidateProfile, ReservedStep
  <1>1. OthersStay(t) /\ ~Surveyed(t) /\ ~Surveyed(t)'
    BY <1>0, OthersStartup DEF Startup, Surveyed
  <1>2. CASE UNCHANGED <<gens, rows, count>>
    <2>1. \A r \in Servers : KeepsActive(r)
      BY <1>2 DEF KeepsActive
    <2> QED BY <1>1, <2>1, CatalogQuiet
  <1>3. CASE /\ gens' = [gens EXCEPT ![srv[t]] = PerGen("absent")]
             /\ rows' = [rows EXCEPT ![srv[t]] = PerGen({})]
             /\ count' = [count EXCEPT ![srv[t]] = PerGen(0)]
    <2>1. Surveys(srv[t]) = {}
      BY <1>0, <1>1, SurveysOfBuild
    <2>2. \A r \in Servers : Surveys(r)' = Surveys(r)
      BY <1>1, SurveysKept
    <2> QED BY <1>0, <1>3, <2>1, <2>2, CatalogWithdraw
  <1> QED BY <1>2, <1>3 DEF InvalidateProfile

(* The other steps of startup insert at most a row that is not active. *)
LEMMA CatalogStartup ==
  ASSUME SafeInv, StoreInv, OneActive, NEW t \in Tasks, Startup(t)
  PROVE  CatalogStep
  <1>0. TypeOK /\ srv[t] \in Servers
    BY DEF SafeInv, TypeOK, TasksOK
  <1>1. OthersStay(t) /\ ~Surveyed(t) /\ ~Surveyed(t)'
    BY <1>0, OthersStartup DEF Surveyed
  <1>2. CASE InvalidateProfile(t)
    BY <1>2, CatalogInvalidate
  <1>3. CASE UNCHANGED <<gens, rows, count>>
    <2>1. \A r \in Servers : KeepsActive(r)
      BY <1>3 DEF KeepsActive
    <2> QED BY <1>1, <2>1, CatalogQuiet
  <1>4. ASSUME NEW g \in Gens, IsNextGen(srv[t], g), NEW x \in {"failed", "staging"},
               gens' = [gens EXCEPT ![srv[t]][g] = x], UNCHANGED <<rows, count>>
        PROVE  CatalogStep
    <2>1. gens[srv[t]][g] # "active"
      BY <1>0, <1>4, NextGenIsNew
    <2>2. \A r \in Servers : KeepsActive(r)
      BY <1>0, <1>4, <2>1, KeepsOneState
    <2> QED BY <1>1, <2>2, CatalogQuiet
  <1>5. CASE RecordStartFailure(t)
    BY <1>3, <1>4, <1>5 DEF RecordStartFailure
  <1>6. CASE StartGeneration(t)
    BY <1>3, <1>4, <1>6 DEF StartGeneration
  <1> QED
    BY <1>2, <1>3, <1>5, <1>6
    DEF Startup, Validate, Enroll, ReserveDenied, ReserveGranted, RefreshAfterProbe,
        StartInventory, AttachControl, TakePendingCancel, ProbeCapabilities,
        LaunchBuild, durable

(* The inventory ends: complete, or not; then it is committed and settled. *)
LEMMA CatalogEnd ==
  ASSUME SafeInv, StoreInv, OneActive, TypeOK', NEW t \in Tasks,
         EndLoop(t) \/ BuildPanics(t) \/ Settle(t) \/ Promote(t)
  PROVE  CatalogStep
  <1>0. /\ TypeOK /\ srv[t] \in Servers /\ RunOK(t) /\ buffered[t] \in SUBSET Items
    BY DEF SafeInv, TypeOK, TasksOK, StoreInv, RunInv
  <1>1. OthersStay(t) /\ srv' = srv /\ pc[t] \in {"loop", "settle", "promote"}
    BY <1>0, OthersEnd
  <1>2. pc[t] \in ReservedStep /\ pc[t] \in WritingStep
    BY <1>1 DEF ReservedStep, WritingStep
  <1>3. ASSUME \A r \in Servers : KeepsActive(r), sent' = sent PROVE CatalogStep
    BY <1>0, <1>1, <1>2, <1>3, CatalogSurvey
  <1>4. CASE EndLoop(t) \/ BuildPanics(t)
    <2>1. UNCHANGED <<gens, rows, count, sent>>
      BY <1>4 DEF EndLoop, InventoryCompleted, InventoryFailed, StreamEnded,
                  LeaveLoop, BuildPanics, durable
    <2> QED BY <1>3, <2>1 DEF KeepsActive
  <1>5. CASE Settle(t)
    <2>1. UNCHANGED <<gens, count, sent>>
      BY <1>5 DEF Settle
    <2>2. CASE rows' = rows
      BY <1>3, <2>1, <2>2 DEF KeepsActive
    <2>3. CASE InsertEntries(t, buffered[t])
      BY <1>0, <1>2, <1>3, <2>1, <2>3, KeepsInsert
    <2> QED BY <1>5, <2>2, <2>3 DEF Settle
  <1>6. CASE Promote(t)
    <2>1. CASE FinishPromotedBuild(t)
      <3>1. pc'[t] = "finish"
        BY <1>0, <2>1 DEF FinishPromotedBuild, Outcome, TypeOK, TasksOK
      <3>2. ~FinishPromotionFailure(t)
        BY <1>0, <3>1 DEF FinishPromotionFailure, Outcome, TypeOK, TasksOK
      <3> QED BY <1>6, <2>1, <3>2, CatalogPublish DEF Promote
    <2>2. CASE FinishPromotionFailure(t) /\ UNCHANGED <<gens, count>>
      <3>1. \A r \in Servers : KeepsActive(r)
        BY <1>6, <2>2 DEF Promote, KeepsActive
      <3>2. pc'[t] = "fail"
        BY <1>0, <2>2 DEF FinishPromotionFailure, Outcome, TypeOK, TasksOK
      <3>3. ~Surveyed(t)'
        BY <3>2 DEF Surveyed
      <3> QED BY <1>0, <1>1, <1>2, <3>1, <3>3, CatalogSurvey
    <2> QED BY <1>6, <2>1, <2>2 DEF Promote
  <1> QED BY <1>4, <1>5, <1>6

(* Every step of a call or of its build task. *)
LEMMA CatalogTask ==
  ASSUME SafeInv, StoreInv, OneActive, TypeOK', NEW t \in Tasks, TaskStep(t)
  PROVE  CatalogStep
  <1>0. /\ TypeOK /\ srv[t] \in Servers /\ RunOK(t) /\ buffered[t] \in SUBSET Items
    BY DEF SafeInv, TypeOK, TasksOK, StoreInv, RunInv
  <1>1. ASSUME OthersStay(t), pc[t] \notin {"settle", "promote"},
               pc'[t] \notin {"settle", "promote"}, \A r \in Servers : KeepsActive(r)
        PROVE  CatalogStep
    BY <1>1, CatalogQuiet DEF Surveyed
  <1>2. CASE \/ \E s \in Servers, k \in {"manual", "forced"} : Refresh(t, s, k)
             \/ \E s \in Servers : RefreshIfDue(t, s)
    <2>1. \A r \in Servers : KeepsActive(r)
      BY <1>2 DEF Refresh, RefreshIfDue, durable, KeepsActive
    <2> QED BY <1>0, <1>1, <1>2, <2>1, OthersReceive
  <1>3. CASE (\E i \in Items : ReceiveEntry(t, i)) \/ CommitDue(t)
    <2>1. pc[t] \in WritingStep /\ UNCHANGED <<gens, count>>
      BY <1>3 DEF ReceiveEntry, CommitDue, WritingStep
    <2>2. rows' = rows \/ \E b \in SUBSET Items : InsertEntries(t, b)
      BY <1>0, <1>3 DEF ReceiveEntry, CommitDue
    <2>3. \A r \in Servers : KeepsActive(r)
      <3>1. CASE rows' = rows
        BY <2>1, <3>1 DEF KeepsActive
      <3>2. CASE \E b \in SUBSET Items : InsertEntries(t, b)
        BY <1>0, <2>1, <3>2, KeepsInsert
      <3> QED BY <2>2, <3>1, <3>2
    <2> QED BY <1>0, <1>1, <1>3, <2>3, OthersReceive
  <1>4. CASE FailGeneration(t) \/ AbandonGeneration(t)
    <2>1. /\ gen[t] \in Gens /\ gens[srv[t]][gen[t]] = "staging"
          /\ UNCHANGED <<rows, count>>
          /\ gens' = gens \/ \E x \in {"failed", "absent"} :
                               gens' = [gens EXCEPT ![srv[t]][gen[t]] = x]
      BY <1>0, <1>4 DEF FailGeneration, AbandonGeneration, Step, RunOK, BuildingStep
    <2>2. \A r \in Servers : KeepsActive(r)
      <3>1. CASE gens' = gens
        BY <2>1, <3>1 DEF KeepsActive
      <3>2. ASSUME NEW x \in {"failed", "absent"},
                   gens' = [gens EXCEPT ![srv[t]][gen[t]] = x]
            PROVE  \A r \in Servers : KeepsActive(r)
        BY <1>0, <2>1, <3>2, KeepsOneState
      <3> QED BY <2>1, <3>1, <3>2
    <2> QED BY <1>0, <1>1, <1>4, <2>2, OthersRelease
  <1>5. CASE \/ FinishBuild(t) \/ PersistRetry(t) \/ RemoveOwner(t)
             \/ ClearActiveBuild(t) \/ ClearBuildLock(t) \/ TakeRuntimeBuild(t)
             \/ ClearPendingCancel(t) \/ ClientGone(t)
    <2>1. UNCHANGED <<gens, rows, count>>
      BY <1>5 DEF FinishBuild, PersistRetry, RemoveOwner, ClearActiveBuild,
                  ClearBuildLock, TakeRuntimeBuild, ClearPendingCancel, ClientGone,
                  durable
    <2>2. \A r \in Servers : KeepsActive(r)
      BY <2>1 DEF KeepsActive
    <2> QED BY <1>0, <1>1, <1>5, <2>2, OthersRelease
  <1> QED
    BY <1>2, <1>3, <1>4, <1>5, CatalogStartup, CatalogEnd DEF TaskStep, Teardown

(* Deletion withdraws the index where no build is; nothing else shows. *)
LEMMA CatalogServer ==
  ASSUME SafeInv, StoreInv, OneActive, NEW s \in Servers, ServerStep(s)
  PROVE  CatalogStep
  <1>0. TypeOK
    BY DEF SafeInv
  <1>1. \A u \in Tasks : SameRun(u)
    BY DEF ServerStep, DeletionStep, Cancel, ApplyCancel, SetAutoRefresh,
        DeleteIndex, DeleteCancel, DeleteWait, DeleteLock, DeleteRows,
        DeleteRuntime, DeleteUnpend, DeleteDone, DeadlinesPass, Cleanup, locals,
        SameRun
  <1>2. \A r \in Servers : Surveys(r)' = Surveys(r)
    <2>1. \A u \in Tasks : /\ Surveyed(u)' <=> Surveyed(u)
                           /\ sent'[u] = sent[u] /\ srv'[u] = srv[u]
      BY <1>1 DEF SameRun, Surveyed
    <2> QED BY <2>1 DEF Surveys
  <1>3. ASSUME \A r \in Servers : KeepsActive(r) PROVE CatalogStep
    <2>1. Unseen
      BY <1>2, <1>3, ServedKept DEF Unseen
    <2> QED BY <2>1, UnseenStutters DEF CatalogStep
  <1>4. CASE UNCHANGED <<gens, rows, count>>
    BY <1>3, <1>4 DEF KeepsActive
  <1>5. CASE DeleteRows(s)
    <2>1. \A u \in Tasks : srv[u] = s => ~Surveyed(u)
      BY <1>5 DEF DeleteRows, DeleteStep, SafeInv, ExclInv, BuildHoldsLock,
                  DeletionHoldsLock, Surveyed, ReservedStep
    <2>2. Surveys(s) = {}
      BY <2>1 DEF Surveys
    <2> QED BY <1>0, <1>2, <1>4, <1>5, <2>2, CatalogWithdraw DEF DeleteRows, durable
  <1>6. ASSUME NEW g \in Gens, Cleanup(s, g) PROVE CatalogStep
    <2>1. \A r \in Servers, h \in Gens : r # s \/ h # g =>
            /\ gens'[r][h] = gens[r][h] /\ rows'[r][h] = rows[r][h]
            /\ count'[r][h] = count[r][h]
      BY <1>0, <1>6 DEF Cleanup, TypeOK, StoreOK
    <2>2. gens[s][g] # "active" /\ gens'[s][g] # "active"
      BY <1>0, <1>6 DEF Cleanup, Obsolete, TypeOK, StoreOK
    <2> QED BY <1>3, <2>1, <2>2, KeepsOneRow
  <1> QED
    BY <1>4, <1>5, <1>6
    DEF ServerStep, DeletionStep, Cancel, ApplyCancel, SetAutoRefresh, DeleteIndex,
        DeleteCancel, DeleteWait, DeleteLock, DeleteRuntime, DeleteUnpend, DeleteDone,
        DeadlinesPass, durable

(* Every step of the system is a step of the catalogue, or stutters there. *)
LEMMA CatalogNext ==
  SafeInv /\ StoreInv /\ OneActive /\ TypeOK' /\ [Next]_vars => CatalogStep
  <1> SUFFICES ASSUME SafeInv, StoreInv, OneActive, TypeOK', [Next]_vars
               PROVE  CatalogStep
    OBVIOUS
  <1>1. ASSUME NEW t \in Tasks, TaskStep(t) PROVE CatalogStep
    BY <1>1, CatalogTask
  <1>2. ASSUME NEW s \in Servers, ServerStep(s) PROVE CatalogStep
    BY <1>2, CatalogServer
  <1>3. CASE RequestShutdown \/ CancelBuilds \/ BecomeIdle \/ UNCHANGED vars
    <2>1. UNCHANGED <<gens, rows, count, pc, srv, end, sent>>
      BY <1>3 DEF RequestShutdown, CancelBuilds, BecomeIdle, vars, durable, locals
    <2>2. Unseen
      BY <2>1 DEF Unseen, Served, HasActive, Surveys, Surveyed
    <2> QED BY <2>2, UnseenStutters DEF CatalogStep
  <1>4. CASE Restart
    <2>1. \A r \in Servers : KeepsActive(r)
      BY <1>4 DEF Restart, RecoveredGens, KeepsActive
    <2>2. [r \in Servers |-> Served(r)'] = [r \in Servers |-> Served(r)]
      BY <2>1, ServedKept
    <2>3. \A u \in Tasks : ~Surveyed(u)'
      BY <1>4 DEF Restart, PerTask, Surveyed
    <2>4. \A r \in Servers : Surveys(r)' = {}
      BY <2>3 DEF Surveys
    <2>5. Catalog!Restart
      BY <2>2, <2>4 DEF Catalog!Restart
    <2> QED BY <2>5 DEF CatalogStep, Catalog!Next
  <1> QED BY <1>1, <1>2, <1>3, <1>4 DEF Next

(* The build pipeline implements the catalogue: through tasks, transactions, *)
(* deletions, errors, abandoned calls and restarts, an index is replaced as  *)
(* a whole by a complete inventory with its exact size, or withdrawn, and    *)
(* otherwise stays as it is.                                                 *)
THEOREM BuildImplementsCatalog == Spec => ImplementsCatalog
  <1>1. Init => Catalog!Init
    <2> SUFFICES ASSUME Init PROVE Catalog!Init
      OBVIOUS
    <2>1. \A s \in Servers : Served(s) = NoIndex
      BY DEF Init, EmptyStore, PerServer, PerGen, Served, HasActive
    <2>2. \A u \in Tasks : ~Surveyed(u)
      BY DEF Init, FreshProcess, PerTask, Surveyed
    <2>3. \A s \in Servers : Surveys(s) = {}
      BY <2>2 DEF Surveys
    <2> QED BY <2>1, <2>3 DEF Catalog!Init
  <1>2. SafeInv /\ StoreInv /\ OneActive /\ TypeOK' /\ [Next]_vars =>
          [Catalog!Next]_(Catalog!vars)
    BY CatalogNext DEF CatalogStep
  <1> QED
    BY <1>1, <1>2, SafeInvariant, StoreInvariant, SingleActive, Typing, PTL
    DEF Spec, ImplementsCatalog, Catalog!Spec

=============================================================================
