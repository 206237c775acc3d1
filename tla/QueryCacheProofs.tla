-------------------------- MODULE QueryCacheProofs --------------------------
(***************************************************************************)
(* Indexed search answers from whole generations, and a status call misses *)
(* neither an index nor a failure, for any number of searches, queries,    *)
(* generations and builds and any capacity of the cache.  The answer to a   *)
(* prefix or full-text query holds the best matches, for all strings, tables *)
(* and limits.                                                              *)
(***************************************************************************)
EXTENDS QueryCache, IndexRanking, FiniteSetTheorems, SequenceTheorems, WellFoundedInduction,
        TLAPS

GenStates == {"none", "staging", "active", "superseded", "failed"}
BuildSteps == {"none", "reserved", "invalidated", "writing", "promoting", "promoted",
               "unmarked", "finished", "failed"}
SearchSteps == {"idle", "deleting", "errors", "promoting", "enrollment", "rows", "runtime",
                "status", "generation", "cache", "query", "check", "insert", "done"}
Numbers == 0..MaxGen

RowNumbers == [active : Numbers, staging : Numbers, failed : Numbers]
Views == [deletionError : BOOLEAN, promoting : BOOLEAN, readError : BOOLEAN, rows : RowNumbers]
Statuses == [state : IndexStates, active : Numbers, error : Errors]
Memories == [pc : SearchSteps, key : Keys, active : Numbers, gen : Numbers, found : Rows,
             void : BOOLEAN, cut : BOOLEAN, had : BOOLEAN, failing : BOOLEAN,
             view : Views, status : Statuses]

TableTypes ==
  /\ state \in [Gens -> GenStates] /\ rows \in [Gens -> Rows] /\ builds \in 0..MaxBuilds
  /\ enrolled \in BOOLEAN /\ build \in BuildSteps /\ lastError \in BOOLEAN
  /\ deletion \in {"none", "asked", "deleted"} /\ deletionError \in BOOLEAN

MemoryTypes == search \in [Searches -> Memories]

-----------------------------------------------------------------------------
(* A nonempty set of numbers up to N has a largest one. *)
LEMMA MaxThere ==
  ASSUME NEW N \in Nat, NEW S \in SUBSET (0..N), S # {}
  PROVE  Max(S) \in S /\ \A y \in S : Max(S) >= y
  <1> DEFINE T == {n \in Nat : \E x \in S : n = N - x}
  <1>1. T # {} /\ T \subseteq Nat
    <2>1. PICK x \in S : TRUE
      OBVIOUS
    <2>2. N - x \in T
      OBVIOUS
    <2> QED BY <2>2
  <1>2. PICK n \in T : \A m \in T : <<m, n>> \notin OpToRel(<, Nat)
    BY <1>1, NatLessThanWellFounded, WFMin, Zenon
  <1>3. PICK x \in S : n = N - x
    OBVIOUS
  <1>4. ASSUME NEW y \in S PROVE x >= y
    <2>1. N - y \in T
      OBVIOUS
    <2>2. ~(N - y < n)
      BY <1>2, <2>1 DEF OpToRel
    <2> QED BY <1>3, <2>2
  <1> QED BY <1>4 DEF Max

(* The number of a new generation is above those of the table. *)
LEMMA NextGenIsNew ==
  ASSUME TableTypes
  PROVE  NextGen \in Nat \ {0} /\ \A g \in Present : NextGen > g
  <1>1. MaxGen \in Nat /\ Present \cup {0} \in SUBSET (0..MaxGen) /\ Present \cup {0} # {}
    BY CacheAssumption DEF Present, Gens
  <1>2. Max(Present \cup {0}) \in 0..MaxGen /\ \A y \in Present : Max(Present \cup {0}) >= y
    BY <1>1, MaxThere
  <1>3. \A y \in Present : y \in Nat
    BY <1>1
  <1> QED BY <1>1, <1>2, <1>3 DEF NextGen

(* The first row of a state in status_rows. *)
LEMMA NewestIs ==
  ASSUME TableTypes, NEW st \in GenStates
  PROVE  /\ Newest(state, st) \in Numbers
         /\ Newest(state, st) # 0 => Newest(state, st) \in Gens /\ state[Newest(state, st)] = st
         /\ \A g \in Gens : state[g] = st => Newest(state, st) >= g
  <1> DEFINE S == {g \in DOMAIN state : state[g] = st} \cup {0}
  <1>1. MaxGen \in Nat /\ S \in SUBSET (0..MaxGen) /\ S # {} /\ DOMAIN state = Gens
    BY CacheAssumption DEF TableTypes, Gens
  <1>2. Max(S) \in S /\ \A y \in S : Max(S) >= y
    BY <1>1, MaxThere
  <1>3. Newest(state, st) = Max(S)
    BY DEF Newest
  <1> QED BY <1>1, <1>2, <1>3 DEF Numbers

(* A status made from a row names the active generation. *)
LEMMA StatusFromRowIs ==
  ASSUME NEW r \in RowNumbers, NEW st \in IndexStates
  PROVE  /\ StatusFromRow(r, st) \in Statuses /\ StatusFromRow(r, st).active = r.active
         /\ StatusFromRow(r, st).state = st
  BY DEF StatusFromRow, Statuses, RowNumbers, Errors

(* An empty status names none. *)
LEMMA EmptyStatusIs ==
  ASSUME NEW st \in IndexStates
  PROVE  EmptyStatus(st) \in Statuses /\ EmptyStatus(st).active = 0
         /\ EmptyStatus(st).state = st
  BY CacheAssumption DEF EmptyStatus, Statuses, Errors, Numbers

(* In every state the status names the active generation of the rows it was  *)
(* made from.                                                                *)
LEMMA BaseStatusIs ==
  ASSUME NEW r \in RowNumbers, NEW building \in BOOLEAN, NEW promoting \in BOOLEAN,
         NEW stale \in BOOLEAN
  PROVE  /\ BaseStatus(r, building, promoting, stale) \in Statuses
         /\ BaseStatus(r, building, promoting, stale).active = r.active
         /\ BaseStatus(r, building, promoting, stale).state # "deleting"
  <1>0. r.active \in Nat /\ r.staging \in Nat /\ r.failed \in Nat
    BY CacheAssumption DEF RowNumbers, Numbers
  <1>1. ShownRow(r) # "active" => r.active = 0
    BY <1>0 DEF ShownRow
  <1> DEFINE Usual == {"notIndexed", "partial", "ready", "stale", "refreshing", "promoting",
                       "failed"}
  <1>4. Usual \subseteq IndexStates /\ "deleting" \notin Usual
    BY DEF IndexStates
  <1>2. \A st \in Usual : /\ StatusFromRow(r, st) \in Statuses
                          /\ StatusFromRow(r, st).active = r.active
                          /\ StatusFromRow(r, st).state # "deleting"
    BY <1>4, StatusFromRowIs
  <1>3. \A st \in Usual : /\ EmptyStatus(st) \in Statuses /\ EmptyStatus(st).active = 0
                          /\ EmptyStatus(st).state # "deleting"
    BY <1>4, EmptyStatusIs
  <1>5. CASE building
    <2>1. CASE ShownRow(r) = "none"
      <3>1. BaseStatus(r, building, promoting, stale)
              \in {EmptyStatus("promoting"), EmptyStatus("partial")}
        BY <1>5, <2>1 DEF BaseStatus, StatusDuringBuild, StatusFromRuntimeBuild
      <3> QED BY <1>1, <1>3, <1>4, <2>1, <3>1
    <2>2. CASE ShownRow(r) # "none"
      <3>1. ShownRow(r) \in {"active", "staging", "failed"}
        BY <2>2 DEF ShownRow
      <3>2. \E st \in Usual : BaseStatus(r, building, promoting, stale) = StatusFromRow(r, st)
        BY <1>5, <2>2, <3>1 DEF BaseStatus, StatusDuringBuild
      <3> QED BY <1>2, <3>2
    <2> QED BY <2>1, <2>2
  <1>6. CASE ~building
    <2>1. CASE ShownRow(r) = "active" /\ FailedAfterActive(r)
      <3>1. PICK x \in Statuses :
              x = StatusFromRow(r, "failed") /\ x.active = r.active /\ x.state # "deleting"
        BY <1>2
      <3>2. /\ [x EXCEPT !.error = "generation"] \in Statuses
            /\ [x EXCEPT !.error = "generation"].active = r.active
            /\ [x EXCEPT !.error = "generation"].state # "deleting"
        BY <3>1 DEF Statuses, Errors
      <3> QED BY <1>6, <2>1, <3>1, <3>2 DEF BaseStatus, StatusWithoutBuild, StatusFromActiveRow
    <2>2. CASE ShownRow(r) = "active" /\ ~FailedAfterActive(r)
      <3>1. BaseStatus(r, building, promoting, stale)
              \in {StatusFromRow(r, "stale"), StatusFromRow(r, "ready")}
        BY <1>6, <2>2 DEF BaseStatus, StatusWithoutBuild, StatusFromActiveRow
      <3> QED BY <1>2, <1>4, <3>1
    <2>3. CASE ShownRow(r) # "active"
      <3>1. BaseStatus(r, building, promoting, stale)
              \in {StatusFromRow(r, "partial"), StatusFromRow(r, "failed"),
                   EmptyStatus("notIndexed")}
        BY <1>6, <2>3 DEF BaseStatus, StatusWithoutBuild
      <3> QED BY <1>1, <1>2, <1>3, <1>4, <2>3, <3>1
    <2> QED BY <2>1, <2>2, <2>3
  <1> QED BY <1>5, <1>6

(* The errors leave the active generation alone. *)
LEMMA ErrorsApplied ==
  ASSUME NEW x \in Statuses, NEW building \in BOOLEAN, NEW buildError \in BOOLEAN,
         NEW readError \in BOOLEAN, NEW deletionError1 \in BOOLEAN
  PROVE  LET y == ApplyDeletionError(
                    ApplyStatusErrors(x, building, buildError, readError), deletionError1) IN
         /\ y \in Statuses /\ y.active = x.active /\ y.state \in {x.state, "failed"}
         /\ ~building /\ buildError => y.state = "failed"
  <1> DEFINE z == ApplyStatusErrors(x, building, buildError, readError)
  <1>1. /\ z \in Statuses /\ z.active = x.active /\ z.state \in {x.state, "failed"}
        /\ ~building /\ buildError => z.state = "failed"
    <2>1. PICK st \in IndexStates : /\ st = IF ~building /\ buildError THEN "failed" ELSE x.state
      BY DEF Statuses, IndexStates
    <2>2. PICK er \in Errors : er = CASE readError -> "read"
                                      [] ~readError /\ (~building /\ buildError) -> "build"
                                      [] OTHER -> x.error
      BY DEF Statuses, Errors
    <2>3. z = [x EXCEPT !.state = st, !.error = er]
      BY <2>1, <2>2 DEF ApplyStatusErrors
    <2> QED BY <2>1, <2>3 DEF Statuses
  <1> HIDE DEF z
  <1>2. PICK w \in Statuses : w = z
    BY <1>1
  <1>3. "failed" \in IndexStates /\ "deletion" \in Errors
    BY DEF IndexStates, Errors
  <1>4. LET u == ApplyDeletionError(w, deletionError1) IN
        /\ u \in Statuses /\ u.active = w.active /\ u.state \in {w.state, "failed"}
        /\ w.state = "failed" => u.state = "failed"
    BY <1>3 DEF ApplyDeletionError, Statuses
  <1> QED BY <1>1, <1>2, <1>4 DEF z

-----------------------------------------------------------------------------
(* The tables, the build and the deletion *)

BuildAction ==
  \/ Enroll \/ ReserveBuild \/ StartGeneration \/ StartFails \/ ClearPromoting
  \/ FinishPromoted \/ FinishBuild
  \/ \E g \in Gens : MarkPromoting(g) \/ Promote(g) \/ GiveUp(g) \/ Reclaim(g)
  \/ \E g \in Gens, part \in {"some", "all"} : InsertEntries(g, part)
  \/ InvalidateCache \/ DeleteIndex \/ DeleteCached \/ DeleteFails

(* A search reads the tables. *)
LEMMA SearchReads ==
  ASSUME NEW s \in Searches, SearchStep(s)
  PROVE  UNCHANGED <<db, runtime, deleting>>
  BY DEF SearchStep, SearchIndex, StatusDeleting, StatusDeletionError, StatusPromoting,
         StatusEnrollment, LoadStatusRows, StatusRuntime, ChooseGeneration, SearchGeneration,
         Lookup, Query, CheckDeleting, Insert, SearchFails, Answered

(* Every step is one of a search, of a build or one that empties the tables. *)
LEMMA Steps ==
  ASSUME [Next]_vars
  PROVE  \/ UNCHANGED vars \/ (\E s \in Searches : SearchStep(s))
         \/ BuildAction \/ ProfileChange \/ DeleteRows
  BY DEF Next, BuildAction

(* The types of the tables. *)
LEMMA TablesNext ==
  ASSUME TableTypes, [Next]_vars
  PROVE  TableTypes'
  <1>0. /\ MaxGen \in Nat \ {0} /\ MaxBuilds \in Nat /\ NoRows \in Rows
        /\ NextGen \in Nat \ {0}
    BY CacheAssumption, NextGenIsNew DEF NoRows, Rows, Parts
  <1>1. CASE UNCHANGED vars
    BY <1>1 DEF vars, db, runtime, deleting, TableTypes
  <1>2. CASE \E s \in Searches : SearchStep(s)
    BY <1>2, SearchReads DEF db, runtime, deleting, TableTypes
  <1>3. CASE ProfileChange \/ DeleteRows
    <2>1. state' \in [Gens -> GenStates] /\ rows' \in [Gens -> Rows]
      BY <1>0, <1>3 DEF ProfileChange, DeleteRows, Emptied, GenStates
    <2>2. CASE ProfileChange
      BY <2>1, <2>2 DEF ProfileChange, Emptied, deleting, TableTypes, BuildSteps
    <2>3. CASE DeleteRows
      BY <2>1, <2>3 DEF DeleteRows, Emptied, runtime, TableTypes
    <2> QED BY <1>3, <2>2, <2>3
  <1>4. CASE Enroll \/ ReserveBuild \/ ClearPromoting \/ FinishPromoted \/ FinishBuild
             \/ InvalidateCache \/ DeleteIndex \/ DeleteCached \/ DeleteFails
    BY <1>4 DEF Enroll, ReserveBuild, ClearPromoting, FinishPromoted, FinishBuild,
                InvalidateCache, DeleteIndex, DeleteCached, DeleteFails, ErrorForgotten,
                db, runtime, deleting, TableTypes, BuildSteps
  <1>5. CASE StartGeneration
    <2>0. builds + 1 \in 0..MaxBuilds /\ "none" \in Parts
      BY <1>0, <1>5 DEF StartGeneration, TableTypes, Parts
    <2>1. PICK x \in Rows : x = [build |-> builds + 1, part |-> "none"]
      BY <2>0 DEF Rows
    <2>2. rows' \in [Gens -> Rows]
      BY <1>5, <2>1 DEF StartGeneration, TableTypes
    <2>3. state' \in [Gens -> GenStates]
      BY <1>5 DEF StartGeneration, TableTypes, GenStates
    <2>4. builds' \in 0..MaxBuilds
      BY <1>0, <1>5 DEF StartGeneration, TableTypes
    <2> QED BY <1>5, <2>2, <2>3, <2>4 DEF StartGeneration, deleting, TableTypes, BuildSteps
  <1>6. CASE StartFails
    <2>1. state' \in [Gens -> GenStates]
      BY <1>6 DEF StartFails, TableTypes, GenStates
    <2> QED BY <1>6, <2>1 DEF StartFails, deleting, TableTypes, BuildSteps
  <1>7. ASSUME NEW g \in Gens, MarkPromoting(g) PROVE TableTypes'
    BY <1>7 DEF MarkPromoting, db, deleting, TableTypes, BuildSteps
  <1>8. ASSUME NEW g \in Gens, Promote(g) PROVE TableTypes'
    <2>1. state' \in [Gens -> GenStates]
      BY <1>8 DEF Promote, TableTypes, GenStates
    <2> QED BY <1>8, <2>1 DEF Promote, deleting, TableTypes, BuildSteps
  <1>9. ASSUME NEW g \in Gens, GiveUp(g) PROVE TableTypes'
    <2>1. state' \in [Gens -> GenStates]
      BY <1>9 DEF GiveUp, TableTypes, GenStates
    <2>2. rows' \in [Gens -> Rows]
      BY <1>0, <1>9 DEF GiveUp, TableTypes
    <2> QED BY <1>9, <2>1, <2>2 DEF GiveUp, deleting, TableTypes, BuildSteps
  <1>10. \A g \in Gens, part \in Parts : [rows EXCEPT ![g].part = part] \in [Gens -> Rows]
    <2>1. \A g \in Gens, part \in Parts : [rows[g] EXCEPT !.part = part] \in Rows
      BY DEF TableTypes, Rows
    <2> QED BY <2>1 DEF TableTypes
  <1>11. ASSUME NEW g \in Gens, Reclaim(g) PROVE TableTypes'
    <2>1. state' \in [Gens -> GenStates]
      BY <1>11 DEF Reclaim, TableTypes, GenStates
    <2>2. rows' \in [Gens -> Rows]
      <3>1. [rows EXCEPT ![g] = NoRows] \in [Gens -> Rows]
        BY <1>0 DEF TableTypes
      <3>2. "some" \in Parts /\ "none" \in Parts
        BY DEF Parts
      <3> QED BY <1>10, <1>11, <3>1, <3>2 DEF Reclaim
    <2> QED BY <1>11, <2>1, <2>2 DEF Reclaim, runtime, deleting, TableTypes
  <1>12. ASSUME NEW g \in Gens, NEW part \in {"some", "all"}, InsertEntries(g, part)
         PROVE  TableTypes'
    <2>1. rows' \in [Gens -> Rows]
      BY <1>10, <1>12 DEF InsertEntries, Parts
    <2> QED BY <1>12, <2>1 DEF InsertEntries, runtime, deleting, TableTypes
  <1> QED BY <1>1, <1>2, <1>3, <1>4, <1>5, <1>6, <1>7, <1>8, <1>9, <1>11, <1>12, Steps
          DEF BuildAction

(* One generation is built at a time, above the active one, and its entries  *)
(* are all stored when the promotion is announced; the tables are empty from *)
(* the moment somebody empties them until the cache is empty too; and who    *)
(* has an index, a build or an error of one is enrolled.                     *)
Cleared == build = "invalidated" \/ deletion = "deleted"

TableInv ==
  /\ Staging # {} => build \in {"writing", "promoting"}
  /\ \A g, h \in Staging : g = h
  /\ build = "promoting" => \A g \in Staging : rows[g].part = "all"
  /\ \A g \in Active : rows[g].part = "all"
  /\ \A g \in Staging, h \in Active : g > h
  /\ Cleared => Present = {}
  /\ deletion = "deleted" => build = "none"
  /\ build # "none" \/ Active # {} => enrolled
  /\ lastError => enrolled \/ deletion = "deleted"

(* A step that changes neither the rows nor the state of a generation. *)
LEMMA TableKept ==
  ASSUME TableInv, state' = state, rows' = rows, (Cleared => Cleared'), Cleared' => Cleared,
         Staging # {} => build' \in {"writing", "promoting"},
         build' = "promoting" => \A g \in Staging : rows[g].part = "all",
         deletion' = "deleted" => build' = "none",
         build' # "none" \/ Active # {} => enrolled',
         lastError' => enrolled' \/ deletion' = "deleted"
  PROVE  TableInv'
  BY DEF TableInv, Staging, Active, Present

(* The new generation of a build. *)
LEMMA TableByStart ==
  ASSUME TableTypes, TableInv, StartGeneration
  PROVE  TableInv' /\ Active' = Active /\ \A g \in Active : rows'[g] = rows[g]
  <1>1. NextGen \in Gens /\ \A g \in Present : NextGen > g
    BY CacheAssumption, NextGenIsNew DEF StartGeneration, Gens
  <1>2. PICK n \in Gens : n = NextGen
    BY <1>1
  <1>3. n \notin Present /\ \A g \in Present : n > g
    BY <1>1, <1>2, CacheAssumption DEF Present, Gens
  <1>4. state[n] = "none"
    BY <1>3 DEF Present
  <1>5. state' = [state EXCEPT ![n] = "staging"] /\ \A g \in Gens \ {n} : rows'[g] = rows[g]
    BY <1>2 DEF StartGeneration, TableTypes
  <1>6. Active' = Active /\ Staging' = Staging \cup {n}
    BY <1>4, <1>5 DEF Active, Staging, TableTypes
  <1>7. /\ build = "reserved" /\ build' = "writing" /\ Staging = {} /\ enrolled
        /\ enrolled' = enrolled /\ deletion' = deletion /\ deletion # "deleted"
        /\ lastError' = lastError
    BY DEF StartGeneration, TableInv, deleting
  <1>8. \A g \in Active : g \in Present /\ g # n /\ rows'[g] = rows[g] /\ n > g
    BY <1>3, <1>4, <1>5 DEF Active, Present
  <1> QED BY <1>6, <1>7, <1>8 DEF TableInv, Cleared

(* The promotion: the active generation is now the one that was built. *)
LEMMA TableByPromote ==
  ASSUME TableTypes, TableInv, NEW g \in Gens, Promote(g)
  PROVE  TableInv' /\ g \in Staging /\ Active' = {g} /\ rows' = rows
  <1>1. /\ build = "promoting" /\ build' = "promoted" /\ g \in Staging /\ rows' = rows
        /\ enrolled' = enrolled /\ deletion' = deletion /\ lastError' = lastError
    BY DEF Promote, deleting
  <1>2. g \notin Active /\ state[g] = "staging"
    BY <1>1 DEF Staging, Active
  <1>3. /\ state'[g] = "active" /\ \A h \in Active : state'[h] = "superseded"
        /\ \A h \in Gens \ (Active \cup {g}) : state'[h] = state[h]
    BY <1>2 DEF Promote, TableTypes, Active
  <1>4. Active' = {g}
    BY <1>3 DEF Active
  <1>5. Staging' = {}
    BY <1>1, <1>2, <1>3 DEF Staging, TableInv, Active
  <1>6. deletion # "deleted" /\ enrolled
    BY <1>1 DEF TableInv
  <1> QED BY <1>1, <1>4, <1>5, <1>6 DEF TableInv, Cleared

(* A generation that is given up, reclaimed or noted as a failed start. *)
LEMMA TableByDrop ==
  ASSUME TableTypes, TableInv, NEW g \in Gens,
         \/ GiveUp(g) \/ Reclaim(g)
         \/ StartFails /\ (state' = state \/ (g = NextGen /\ state' = [state EXCEPT ![g] = "failed"]))
  PROVE  TableInv' /\ Active' = Active /\ \A h \in Active : rows'[h] = rows[h]
  <1>1. /\ enrolled' = enrolled /\ deletion' = deletion /\ lastError' = lastError
        /\ build' \in {"none", "failed", "finished"} /\ (build = "none" => build' = "none")
        /\ build # "invalidated" /\ (build = "none" \/ build \in {"writing", "promoting", "reserved"})
    BY DEF GiveUp, Reclaim, StartFails, runtime, deleting
  <1>2. CASE GiveUp(g)
    <2>1. g \in Staging /\ \A h \in Gens \ {g} : state'[h] = state[h] /\ rows'[h] = rows[h]
      BY <1>2 DEF GiveUp, TableTypes
    <2>2. state'[g] \in {"none", "failed"}
      BY <1>2 DEF GiveUp, TableTypes
    <2>3. Active' = Active /\ Staging' = {}
      BY <2>1, <2>2 DEF Active, Staging, TableInv
    <2>4. \A h \in Active : h # g /\ h \in Gens
      BY <2>1 DEF Active, Staging
    <2>5. build \in {"writing", "promoting"} /\ deletion # "deleted"
      BY <1>2 DEF GiveUp, TableInv
    <2> QED BY <1>1, <2>1, <2>3, <2>4, <2>5 DEF TableInv, Cleared
  <1>3. CASE Reclaim(g)
    <2>1. /\ state[g] \in {"superseded", "failed"} /\ build = "none" /\ build' = build
          /\ \A h \in Gens \ {g} : state'[h] = state[h] /\ rows'[h] = rows[h]
      BY <1>3 DEF Reclaim, TableTypes, runtime
    <2>2. state'[g] \in {"superseded", "failed", "none"}
      BY <1>3, <2>1 DEF Reclaim, TableTypes
    <2>3. Active' = Active /\ Staging' = Staging /\ g \notin Active /\ g \in Present
      BY <2>1, <2>2 DEF Active, Staging, Present
    <2>4. Staging = {} /\ ~Cleared /\ ~Cleared'
      BY <1>1, <2>1, <2>3 DEF TableInv, Cleared
    <2>5. \A h \in Active : rows'[h] = rows[h]
      BY <2>1, <2>3 DEF Active
    <2> QED BY <1>1, <2>1, <2>3, <2>4, <2>5 DEF TableInv
  <1>4. CASE StartFails
    <2>1. build = "reserved" /\ Staging = {} /\ deletion # "deleted" /\ enrolled /\ rows' = rows
      BY <1>4 DEF StartFails, TableInv
    <2>2. CASE state' = state
      <3>1. Active' = Active /\ Staging' = Staging
        BY <2>2 DEF Active, Staging
      <3> QED BY <1>1, <2>1, <3>1 DEF TableInv, Cleared
    <2>3. CASE g = NextGen /\ state' = [state EXCEPT ![g] = "failed"]
      <3>1. \A h \in Present : h # g
        BY <2>3, NextGenIsNew, CacheAssumption DEF Present, Gens
      <3>2. state[g] = "none"
        BY <3>1 DEF Present
      <3>3. Active' = Active /\ Staging' = Staging
        BY <2>3, <3>2 DEF Active, Staging, TableTypes
      <3> QED BY <1>1, <2>1, <3>3 DEF TableInv, Cleared
    <2>4. state' = state \/ (g = NextGen /\ state' = [state EXCEPT ![g] = "failed"])
      BY <1>2, <1>3, <1>4 DEF GiveUp, Reclaim, StartFails
    <2> QED BY <2>2, <2>3, <2>4
  <1> QED BY <1>2, <1>3, <1>4

(* A build never touches the active generation except to replace it by the   *)
(* one above it.                                                             *)
LEMMA BuildChange ==
  ASSUME TableTypes, TableInv, BuildAction
  PROVE  /\ TableInv'
         /\ \/ Active' = Active /\ \A g \in Active : rows'[g] = rows[g]
            \/ \E g \in Staging : Active' = {g} /\ rows' = rows
  <1>1. CASE StartGeneration
    BY <1>1, TableByStart
  <1>2. ASSUME NEW g \in Gens, Promote(g)
        PROVE  TableInv' /\ \E h \in Staging : Active' = {h} /\ rows' = rows
    BY <1>2, TableByPromote
  <1>3. ASSUME NEW g \in Gens, GiveUp(g) \/ Reclaim(g)
        PROVE  TableInv' /\ Active' = Active /\ \A h \in Active : rows'[h] = rows[h]
    BY <1>3, TableByDrop
  <1>4. CASE StartFails
    <2>1. 1 \in Gens /\ (NextGen <= MaxGen => NextGen \in Gens)
      BY CacheAssumption, NextGenIsNew DEF Gens
    <2>2. \E g \in Gens : state' = state \/ (g = NextGen /\ state' = [state EXCEPT ![g] = "failed"])
      BY <1>4, <2>1 DEF StartFails
    <2> QED BY <1>4, <2>2, TableByDrop
  <1>5. ASSUME NEW g \in Gens, NEW part \in {"some", "all"}, InsertEntries(g, part)
        PROVE  TableInv' /\ Active' = Active /\ \A h \in Active : rows'[h] = rows[h]
    <2>1. /\ build = "writing" /\ build' = build /\ g \in Staging /\ state' = state
          /\ enrolled' = enrolled /\ deletion' = deletion /\ lastError' = lastError
          /\ \A h \in Gens \ {g} : rows'[h] = rows[h]
      BY <1>5 DEF InsertEntries, runtime, deleting, TableTypes
    <2>2. Active' = Active /\ Staging' = Staging /\ Present' = Present /\ g \notin Active
      BY <2>1 DEF Active, Staging, Present
    <2>3. \A h \in Active : rows'[h] = rows[h]
      BY <2>1, <2>2 DEF Active
    <2> QED BY <2>1, <2>2, <2>3 DEF TableInv, Cleared
  <1>6. CASE \/ Enroll \/ ReserveBuild \/ ClearPromoting \/ FinishPromoted \/ FinishBuild
             \/ InvalidateCache \/ DeleteIndex \/ DeleteCached \/ DeleteFails
             \/ \E g \in Gens : MarkPromoting(g)
    <2>1. state' = state /\ rows' = rows
      BY <1>6 DEF Enroll, ReserveBuild, ClearPromoting, FinishPromoted, FinishBuild,
                  InvalidateCache, DeleteIndex, DeleteCached, DeleteFails, MarkPromoting, db
    <2>2. Active' = Active /\ Staging' = Staging /\ Present' = Present
      BY <2>1 DEF Active, Staging, Present
    <2>3. TableInv'
      <3>1. CASE \E g \in Gens : MarkPromoting(g)
        BY <2>1, <2>2, <3>1 DEF MarkPromoting, db, deleting, TableInv, Cleared
      <3>2. CASE Enroll \/ ReserveBuild \/ ClearPromoting \/ FinishPromoted
        BY <2>1, <2>2, <3>2 DEF Enroll, ReserveBuild, ClearPromoting, FinishPromoted,
                                ErrorForgotten, db, runtime, deleting, TableInv, Cleared
      <3>3. CASE FinishBuild \/ InvalidateCache
        BY <2>1, <2>2, <3>3 DEF FinishBuild, InvalidateCache, db, deleting, TableInv, Cleared
      <3>4. CASE DeleteIndex \/ DeleteCached \/ DeleteFails
        BY <2>1, <2>2, <3>4 DEF DeleteIndex, DeleteCached, DeleteFails, ErrorForgotten,
                                db, runtime, TableInv, Cleared
      <3> QED BY <1>6, <3>1, <3>2, <3>3, <3>4
    <2> QED BY <2>1, <2>2, <2>3
  <1> QED BY <1>1, <1>2, <1>3, <1>4, <1>5, <1>6 DEF BuildAction

(* Emptied tables. *)
LEMMA EmptiedChange ==
  ASSUME TableTypes, TableInv, ProfileChange \/ DeleteRows
  PROVE  TableInv' /\ Active' = {} /\ Emptied
  <1>1. Emptied /\ \A g \in Gens : state'[g] = "none"
    BY DEF ProfileChange, DeleteRows, Emptied
  <1>2. Active' = {} /\ Staging' = {} /\ Present' = {}
    BY <1>1 DEF Active, Staging, Present
  <1>3. CASE ProfileChange
    BY <1>1, <1>2, <1>3 DEF ProfileChange, deleting, TableInv, Cleared
  <1>4. CASE DeleteRows
    BY <1>1, <1>2, <1>4 DEF DeleteRows, runtime, TableInv, Cleared
  <1> QED BY <1>1, <1>2, <1>3, <1>4

-----------------------------------------------------------------------------
(* What was once read as the active generation is that or lies below it.  So *)
(* its number names the rows it named then as long as it is active, because  *)
(* a number is only used again above the active one.                         *)
Known(a) == a = 0 \/ a \in Active \/ \E b \in Active : b > a

(* A build changes nothing about that. *)
LEMMA KnownKept ==
  ASSUME TableTypes, TableInv, BuildAction
  PROVE  /\ \A a \in Numbers : Known(a) => Known(a)'
         /\ \A a \in Numbers : Known(a) /\ a \in Active' => a \in Active /\ rows'[a] = rows[a]
         /\ Active # {} => Active' # {}
  <1>1. CASE Active' = Active /\ \A g \in Active : rows'[g] = rows[g]
    <2>1. 0 \notin Active
      BY DEF Active, Gens
    <2> QED BY <1>1, <2>1 DEF Known
  <1>2. CASE \E g \in Staging : Active' = {g} /\ rows' = rows
    <2>1. PICK g \in Staging : Active' = {g} /\ rows' = rows
      BY <1>2
    <2>2. g \in Nat \ {0} /\ g \notin Active /\ \A h \in Active : g > h /\ h \in Nat
      BY <2>1, CacheAssumption DEF TableInv, Staging, Active, Gens
    <2>3. \A a \in Numbers : a \in Nat
      BY CacheAssumption DEF Numbers
    <2>4. ASSUME NEW a \in Numbers, Known(a) PROVE Known(a)'
      <3>1. a = 0 \/ a < g
        BY <2>2, <2>3, <2>4 DEF Known
      <3> QED BY <2>1, <2>2, <2>3, <3>1 DEF Known
    <2>5. ASSUME NEW a \in Numbers, Known(a), a \in Active' PROVE FALSE
      BY <2>1, <2>2, <2>3, <2>5 DEF Known
    <2> QED BY <2>1, <2>4, <2>5
  <1> QED BY <1>1, <1>2, BuildChange

-----------------------------------------------------------------------------
(* What a search remembers of the generation it searches, of the rows it     *)
(* found and of what its status call has read so far.                        *)
Chosen == {"cache", "query", "check", "insert"}

MemOK(m) ==
  /\ ~m.cut => Known(m.active) /\ Known(m.status.active) /\ Known(m.view.rows.active)
  /\ m.pc = "idle" => /\ m.active = 0 /\ m.status.active = 0 /\ m.view.rows.active = 0
                      /\ ~m.void
  /\ m.void => m.cut
  /\ m.status.state = "deleting" => m.status.active = 0
  /\ m.pc \in Chosen => m.gen \in Gens /\ (m.active = 0 \/ m.gen = m.active)
  /\ m.pc = "cache" => m.active > 0
  /\ m.pc = "generation" => m.active = 0
  /\ m.pc \in {"check", "insert", "done"} /\ m.active \in Active /\ ~m.cut
     => m.found = rows[m.active]
  /\ m.had => Active # {}
  /\ m.failing => lastError /\ build = "none" /\ enrolled
  /\ m.pc = "deleting" => ~m.had /\ ~m.failing
  /\ m.pc = "runtime" /\ m.had /\ ~m.view.readError => m.view.rows.active > 0
  /\ m.pc = "status" /\ m.had /\ ~m.view.readError => m.status.active > 0
  /\ m.pc = "status" /\ m.failing => m.status.state = "failed"

SearchInv == \A s \in Searches : MemOK(search[s])

(* What is remembered of an active generation is what this generation holds. *)
EntryInv ==
  /\ values \in SUBSET Entries
  /\ \A e \in values : \/ e.cut \/ Cleared
                       \/ Known(e.gen) /\ (e.gen \in Active => e.rows = rows[e.gen])

(* The memory of a search that has not begun. *)
LEMMA IdleIs ==
  /\ Idle \in Memories /\ NoView \in Views /\ EmptyStatus("notIndexed") \in Statuses
  /\ Idle.pc = "idle" /\ Idle.active = 0 /\ Idle.gen = 0 /\ Idle.status.active = 0
  /\ Idle.view.rows.active = 0 /\ ~Idle.had /\ ~Idle.failing /\ Idle.cut = FALSE
  /\ Idle.void = FALSE
  /\ NoView.rows.active = 0 /\ NoView.readError = FALSE
  <1>1. (CHOOSE k \in Keys : TRUE) \in Keys /\ 0 \in Numbers
    BY CacheAssumption DEF Numbers
  <1>2. NoStatusRows \in RowNumbers /\ NoStatusRows.active = 0
    BY <1>1 DEF NoStatusRows, RowNumbers
  <1>3. NoView \in Views /\ NoView.rows = NoStatusRows /\ NoView.readError = FALSE
    BY <1>2 DEF NoView, Views
  <1>4. EmptyStatus("notIndexed") \in Statuses /\ EmptyStatus("notIndexed").active = 0
    BY EmptyStatusIs DEF IndexStates
  <1>5. NoRows \in Rows
    BY CacheAssumption DEF NoRows, Rows, Parts
  <1>6. "idle" \in SearchSteps
    BY DEF SearchSteps
  <1>7. Idle \in Memories
    BY <1>1, <1>3, <1>4, <1>5, <1>6 DEF Idle, Memories
  <1> QED BY <1>2, <1>3, <1>4, <1>7 DEF Idle

(* The fields of a memory have their types. *)
LEMMA MemoryIs ==
  ASSUME NEW m \in Memories
  PROVE  /\ m.pc \in SearchSteps /\ m.key \in Keys /\ m.active \in Numbers
         /\ m.gen \in Numbers /\ m.found \in Rows /\ m.void \in BOOLEAN /\ m.cut \in BOOLEAN
         /\ m.had \in BOOLEAN /\ m.failing \in BOOLEAN /\ m.view \in Views
         /\ m.status \in Statuses
         /\ m.view.rows \in RowNumbers /\ m.view.rows.active \in Numbers
         /\ m.view.deletionError \in BOOLEAN /\ m.view.promoting \in BOOLEAN
         /\ m.view.readError \in BOOLEAN
         /\ m.status.active \in Numbers /\ m.status.state \in IndexStates
  BY DEF Memories, Views, RowNumbers, Statuses

(* A search goes on. *)
LEMMA GotoIs ==
  ASSUME MemoryTypes, NEW s \in Searches, NEW p \in SearchSteps, Goto(s, p)
  PROVE  \E n \in Memories :
           /\ search' = [search EXCEPT ![s] = n] /\ n = [search[s] EXCEPT !.pc = p]
  <1>1. [search[s] EXCEPT !.pc = p] \in Memories
    BY DEF MemoryTypes, Memories
  <1> QED BY <1>1 DEF Goto, MemoryTypes

(* A search is answered. *)
LEMMA ReplyIs ==
  ASSUME MemoryTypes, NEW s \in Searches, NEW found \in Rows, NEW cut \in BOOLEAN,
         Reply(s, found, cut)
  PROVE  \E n \in Memories :
           /\ search' = [search EXCEPT ![s] = n]
           /\ n.pc = "done" /\ n.found = found /\ n.cut = cut /\ n.active = search[s].active
           /\ n.status = search[s].status /\ n.view = search[s].view
           /\ n.had = search[s].had /\ n.failing = search[s].failing /\ n.void = search[s].void
  <1>1. "done" \in SearchSteps /\ 0 \in Numbers
    BY CacheAssumption DEF SearchSteps, Numbers
  <1>2. search[s] \in Memories
    BY DEF MemoryTypes
  <1>3. PICK n \in Memories :
          n = [search[s] EXCEPT !.pc = "done", !.gen = 0, !.found = found, !.cut = cut]
    BY <1>1, <1>2 DEF Memories
  <1>4. search' = [search EXCEPT ![s] = n]
    BY <1>3 DEF Reply, MemoryTypes
  <1> QED BY <1>2, <1>3, <1>4 DEF Memories

(* A status call, until it has read the generations. *)
LEMMA StatusReads ==
  ASSUME TableTypes, MemoryTypes, TableInv, NEW s \in Searches, MemOK(search[s]),
         \/ SearchIndex(s) \/ StatusDeleting(s) \/ StatusDeletionError(s)
         \/ StatusPromoting(s) \/ StatusEnrollment(s) \/ LoadStatusRows(s)
  PROVE  \E n \in Memories : search' = [search EXCEPT ![s] = n] /\ MemOK(n)
  <1> DEFINE m == search[s]
  <1>0. m \in Memories
    BY DEF MemoryTypes
  <1>1. {"idle", "deleting", "errors", "promoting", "enrollment", "rows", "runtime", "status"}
          \subseteq SearchSteps
    BY DEF SearchSteps
  <1>2. CASE SearchIndex(s)
    <2>1. PICK k \in Keys :
            search' = [search EXCEPT ![s] = [Idle EXCEPT !.pc = "deleting", !.key = k]]
      BY <1>2 DEF SearchIndex
    <2>2. PICK n \in Memories : n = [Idle EXCEPT !.pc = "deleting", !.key = k]
      BY <1>1, IdleIs DEF Memories
    <2>3. /\ n.pc = "deleting" /\ n.active = 0 /\ n.status.active = 0 /\ n.view.rows.active = 0
          /\ ~n.had /\ ~n.failing /\ ~n.void
      BY <2>2, IdleIs DEF Memories
    <2>4. MemOK(n)
      BY <2>3 DEF MemOK, Known, Chosen
    <2> QED BY <2>1, <2>2, <2>4
  <1>3. CASE StatusDeleting(s) /\ deletion # "none"
    <2>1. EmptyStatus("deleting") \in Statuses /\ EmptyStatus("deleting").active = 0
      BY EmptyStatusIs DEF IndexStates
    <2>2. PICK n \in Memories : n = [m EXCEPT !.pc = "status", !.status = EmptyStatus("deleting")]
      BY <1>0, <1>1, <2>1 DEF Memories
    <2>3. search' = [search EXCEPT ![s] = n]
      BY <1>3, <2>2 DEF StatusDeleting, MemoryTypes
    <2>4. /\ n.pc = "status" /\ n.status.active = 0 /\ n.active = m.active /\ n.view = m.view
          /\ n.cut = m.cut /\ n.void = m.void /\ n.had = m.had /\ n.failing = m.failing
      BY <1>0, <2>1, <2>2 DEF Memories
    <2>5. m.pc = "deleting"
      BY <1>3 DEF StatusDeleting, At
    <2>6. MemOK(n)
      BY <2>4, <2>5 DEF MemOK, Known, Chosen
    <2> QED BY <2>2, <2>3, <2>6
  <1>4. CASE StatusDeleting(s) /\ deletion = "none"
    <2>1. (Active # {}) \in BOOLEAN /\ (lastError /\ build = "none") \in BOOLEAN
      OBVIOUS
    <2>2. PICK n \in Memories : n = [m EXCEPT !.pc = "errors", !.had = Active # {},
                                              !.failing = lastError /\ build = "none"]
      BY <1>0, <1>1, <2>1 DEF Memories
    <2>3. search' = [search EXCEPT ![s] = n]
      BY <1>4, <2>2 DEF StatusDeleting, MemoryTypes
    <2>4. /\ n.pc = "errors" /\ n.status = m.status /\ n.active = m.active /\ n.view = m.view
          /\ n.cut = m.cut /\ n.void = m.void /\ (n.had => Active # {})
          /\ (n.failing => lastError /\ build = "none")
      BY <1>0, <2>2 DEF Memories
    <2>5. lastError => enrolled
      BY <1>4 DEF TableInv
    <2>6. MemOK(n)
      BY <2>4, <2>5 DEF MemOK, Known, Chosen
    <2> QED BY <2>2, <2>3, <2>6
  <1>5. CASE StatusDeletionError(s)
    <2>1. PICK v \in Views : v = [m.view EXCEPT !.deletionError = deletionError]
      BY <1>0, MemoryIs DEF Views, TableTypes
    <2>2. PICK n \in Memories : n = [m EXCEPT !.pc = "promoting", !.view = v]
      BY <1>0, <1>1 DEF Memories
    <2>3. search' = [search EXCEPT ![s] = n]
      BY <1>0, <1>5, <2>1, <2>2 DEF StatusDeletionError, MemoryTypes
    <2>4. v.rows = m.view.rows
      BY <1>0, <2>1, MemoryIs DEF Views
    <2>5. /\ n.pc = "promoting" /\ n.status = m.status /\ n.active = m.active
          /\ n.view.rows = m.view.rows /\ n.cut = m.cut /\ n.void = m.void /\ n.had = m.had
          /\ n.failing = m.failing
      BY <1>0, <2>2, <2>4 DEF Memories
    <2>6. MemOK(n)
      BY <2>5 DEF MemOK, Known, Chosen
    <2> QED BY <2>2, <2>3, <2>6
  <1>6. CASE StatusPromoting(s)
    <2> DEFINE b == build \in {"promoting", "promoted"}
    <2>0. b \in BOOLEAN
      <3>1. CASE b
        <4>1. b = TRUE
          BY <3>1
        <4> QED BY <4>1
      <3>2. CASE ~b
        <4>1. b = FALSE
          BY <3>2
        <4> QED BY <4>1
      <3> QED BY <3>1, <3>2
    <2> HIDE DEF b
    <2>1. PICK v \in Views : v = [m.view EXCEPT !.promoting = b]
      BY <1>0, <2>0, MemoryIs DEF Views
    <2>2. PICK n \in Memories : n = [m EXCEPT !.pc = "enrollment", !.view = v]
      BY <1>0, <1>1 DEF Memories
    <2>3. search' = [search EXCEPT ![s] = n]
      <3>1. search' = [search EXCEPT ![s].pc = "enrollment", ![s].view.promoting = b]
        BY <1>6 DEF StatusPromoting, b
      <3> QED BY <1>0, <2>1, <2>2, <3>1 DEF MemoryTypes
    <2>4. v.rows = m.view.rows
      BY <1>0, <2>1, MemoryIs DEF Views
    <2>5. /\ n.pc = "enrollment" /\ n.status = m.status /\ n.active = m.active
          /\ n.view.rows = m.view.rows /\ n.cut = m.cut /\ n.void = m.void /\ n.had = m.had
          /\ n.failing = m.failing
      BY <1>0, <2>2, <2>4 DEF Memories
    <2>6. MemOK(n)
      BY <2>5 DEF MemOK, Known, Chosen
    <2> QED BY <2>2, <2>3, <2>6
  <1>7. CASE StatusEnrollment(s)
    <2>1. CASE enrolled /\ Goto(s, "rows")
      <3>1. PICK n \in Memories :
              search' = [search EXCEPT ![s] = n] /\ n = [m EXCEPT !.pc = "rows"]
        BY <1>1, <2>1, GotoIs
      <3>2. /\ n.pc = "rows" /\ n.status = m.status /\ n.active = m.active
            /\ n.view = m.view /\ n.cut = m.cut /\ n.void = m.void /\ n.had = m.had /\ n.failing = m.failing
        BY <1>0, <3>1 DEF Memories
      <3>3. MemOK(n)
        BY <3>2 DEF MemOK, Known, Chosen
      <3> QED BY <3>1, <3>3
    <2>2. CASE ~enrolled /\ ~(\/ enrolled /\ Goto(s, "rows")
                              \/ search' = [search EXCEPT ![s].pc = "rows",
                                                          ![s].view.readError = TRUE])
      <3>0. EmptyStatus("notIndexed") \in Statuses /\ EmptyStatus("notIndexed").active = 0
        BY EmptyStatusIs DEF IndexStates
      <3> DEFINE st == ApplyDeletionError(EmptyStatus("notIndexed"), m.view.deletionError)
      <3>1. st \in Statuses /\ st.active = 0
        <4>1. PICK x \in Statuses : x = EmptyStatus("notIndexed")
          BY <3>0
        <4>2. "failed" \in IndexStates /\ "deletion" \in Errors
          BY DEF IndexStates, Errors
        <4> QED BY <3>0, <4>1, <4>2 DEF ApplyDeletionError, Statuses
      <3> HIDE DEF st
      <3>2. PICK n \in Memories : n = [m EXCEPT !.pc = "status", !.status = st, !.view = NoView]
        BY <1>0, <1>1, <3>1, IdleIs DEF Memories
      <3>3. search' = [search EXCEPT ![s] = n]
        <4>1. search' = [search EXCEPT ![s].pc = "status", ![s].status = st, ![s].view = NoView]
          BY <1>7, <2>2 DEF StatusEnrollment, st
        <4> QED BY <1>0, <3>2, <4>1 DEF MemoryTypes
      <3>4. /\ n.pc = "status" /\ n.status.active = 0 /\ n.active = m.active
            /\ n.view = NoView /\ n.cut = m.cut /\ n.void = m.void /\ n.had = m.had /\ n.failing = m.failing
        BY <1>0, <3>1, <3>2 DEF Memories
      <3>5. ~m.had /\ ~m.failing
        BY <2>2 DEF MemOK, TableInv
      <3>6. MemOK(n)
        BY <3>4, <3>5, IdleIs DEF MemOK, Known, Chosen
      <3> QED BY <3>2, <3>3, <3>6
    <2>3. CASE search' = [search EXCEPT ![s].pc = "rows", ![s].view.readError = TRUE]
      <3>1. PICK v \in Views : v = [m.view EXCEPT !.readError = TRUE]
        BY <1>0, MemoryIs DEF Views
      <3>2. PICK n \in Memories : n = [m EXCEPT !.pc = "rows", !.view = v]
        BY <1>0, <1>1 DEF Memories
      <3>3. search' = [search EXCEPT ![s] = n]
        BY <1>0, <2>3, <3>1, <3>2 DEF MemoryTypes
      <3>4. v.rows = m.view.rows
        BY <1>0, <3>1, MemoryIs DEF Views
      <3>5. /\ n.pc = "rows" /\ n.status = m.status /\ n.active = m.active
            /\ n.view.rows = m.view.rows /\ n.cut = m.cut /\ n.void = m.void /\ n.had = m.had
            /\ n.failing = m.failing
        BY <1>0, <3>2, <3>4 DEF Memories
      <3>6. MemOK(n)
        BY <3>5 DEF MemOK, Known, Chosen
      <3> QED BY <3>2, <3>3, <3>6
    <2> QED BY <1>7, <2>1, <2>2, <2>3 DEF StatusEnrollment
  <1>8. CASE LoadStatusRows(s)
    <2>1. CASE search' = [search EXCEPT ![s].pc = "runtime", ![s].view.rows = FromRows(state)]
      <3>1. /\ \A st \in GenStates : Newest(state, st) \in Numbers
            /\ "active" \in GenStates /\ "staging" \in GenStates /\ "failed" \in GenStates
        BY NewestIs DEF GenStates
      <3>2. PICK r \in RowNumbers : r = FromRows(state) /\ r.active = Newest(state, "active")
        <4>1. FromRows(state) \in RowNumbers /\ FromRows(state).active = Newest(state, "active")
          BY <3>1 DEF FromRows, RowNumbers
        <4> QED BY <4>1
      <3>3. Known(r.active) /\ (Active # {} => r.active > 0)
        <4>1. /\ r.active # 0 => r.active \in Active
              /\ \A g \in Active : r.active >= g
          BY <3>1, <3>2, NewestIs DEF Active
        <4>2. \A g \in Active : g > 0
          BY CacheAssumption DEF Active, Gens
        <4>3. r.active \in Nat /\ \A g \in Active : g \in Nat
          BY <3>1, <3>2, CacheAssumption DEF Numbers, Active, Gens
        <4> QED BY <4>1, <4>2, <4>3 DEF Known
      <3>4. PICK v \in Views : v = [m.view EXCEPT !.rows = r] /\ v.rows = r
        <4>1. [m.view EXCEPT !.rows = r] \in Views /\ [m.view EXCEPT !.rows = r].rows = r
          BY <1>0, MemoryIs DEF Views
        <4> QED BY <4>1
      <3>5. PICK n \in Memories : n = [m EXCEPT !.pc = "runtime", !.view = v]
        BY <1>0, <1>1 DEF Memories
      <3>6. search' = [search EXCEPT ![s] = n]
        BY <1>0, <2>1, <3>2, <3>4, <3>5 DEF MemoryTypes
      <3>7. /\ n.pc = "runtime" /\ n.status = m.status /\ n.active = m.active
            /\ n.view.rows = r /\ n.cut = m.cut /\ n.void = m.void /\ n.had = m.had
            /\ n.failing = m.failing
        BY <1>0, <3>4, <3>5 DEF Memories
      <3>8. MemOK(n)
        BY <3>3, <3>7 DEF MemOK, Chosen
      <3> QED BY <3>5, <3>6, <3>8
    <2>2. CASE search' = [search EXCEPT ![s].pc = "runtime", ![s].view.readError = TRUE]
      <3>1. PICK v \in Views : v = [m.view EXCEPT !.readError = TRUE]
        BY <1>0, MemoryIs DEF Views
      <3>2. PICK n \in Memories : n = [m EXCEPT !.pc = "runtime", !.view = v]
        BY <1>0, <1>1 DEF Memories
      <3>3. search' = [search EXCEPT ![s] = n]
        BY <1>0, <2>2, <3>1, <3>2 DEF MemoryTypes
      <3>4. v.rows = m.view.rows /\ v.readError = TRUE
        BY <1>0, <3>1, MemoryIs DEF Views
      <3>5. /\ n.pc = "runtime" /\ n.status = m.status /\ n.active = m.active
            /\ n.view.rows = m.view.rows /\ n.view.readError = TRUE /\ n.cut = m.cut /\ n.void = m.void
            /\ n.had = m.had /\ n.failing = m.failing
        BY <1>0, <3>2, <3>4 DEF Memories
      <3>6. MemOK(n)
        BY <3>5 DEF MemOK, Known, Chosen
      <3> QED BY <3>2, <3>3, <3>6
    <2> QED BY <1>8, <2>1, <2>2 DEF LoadStatusRows
  <1> QED BY <1>2, <1>3, <1>4, <1>5, <1>6, <1>7, <1>8

(* A status call reads the runtime last and makes its status: it names the   *)
(* active generation of the rows that were read, and says that the build     *)
(* failed if it had failed before the call and nobody began another since.   *)
LEMMA StatusMade ==
  ASSUME TableTypes, MemoryTypes, NEW s \in Searches, MemOK(search[s]), StatusRuntime(s)
  PROVE  \E n \in Memories : search' = [search EXCEPT ![s] = n] /\ MemOK(n)
  <1> DEFINE m == search[s]
             building == build # "none"
  <1>0. m \in Memories /\ m.pc = "runtime" /\ lastError \in BOOLEAN
    BY DEF MemoryTypes, StatusRuntime, At, TableTypes
  <1>1. PICK stale \in BOOLEAN :
          search' = [search EXCEPT ![s].pc = "status",
            ![s].view = [NoView EXCEPT !.readError = m.view.readError],
            ![s].status = ApplyDeletionError(
              ApplyStatusErrors(BaseStatus(m.view.rows, building, m.view.promoting, stale),
                                building, lastError, m.view.readError), m.view.deletionError)]
    BY DEF StatusRuntime
  <1>2. building \in BOOLEAN
    <2>1. CASE build = "none"
      <3>1. building = FALSE
        BY <2>1
      <3> QED BY <3>1
    <2>2. CASE build # "none"
      <3>1. building = TRUE
        BY <2>2
      <3> QED BY <3>1
    <2> QED BY <2>1, <2>2
  <1>3. PICK base \in Statuses :
          /\ base = BaseStatus(m.view.rows, building, m.view.promoting, stale)
          /\ base.active = m.view.rows.active /\ base.state # "deleting"
    <2> HIDE DEF building
    <2>1. m.view.rows \in RowNumbers /\ m.view.promoting \in BOOLEAN
      BY <1>0, MemoryIs
    <2> QED BY <1>2, <2>1, BaseStatusIs
  <1>4. PICK st \in Statuses :
          /\ st = ApplyDeletionError(
                    ApplyStatusErrors(base, building, lastError, m.view.readError),
                    m.view.deletionError)
          /\ st.active = base.active /\ st.state # "deleting"
          /\ ~building /\ lastError => st.state = "failed"
    <2> HIDE DEF building
    <2> DEFINE y == ApplyDeletionError(
                      ApplyStatusErrors(base, building, lastError, m.view.readError),
                      m.view.deletionError)
    <2>1. PICK re \in BOOLEAN, de \in BOOLEAN :
            re = m.view.readError /\ de = m.view.deletionError
      BY <1>0, MemoryIs
    <2>3. PICK bu \in BOOLEAN, le \in BOOLEAN : bu = building /\ le = lastError
      BY <1>0, <1>2
    <2>4. /\ y = ApplyDeletionError(ApplyStatusErrors(base, bu, le, re), de)
          /\ ~building /\ lastError => ~bu /\ le
      BY <2>1, <2>3
    <2> HIDE DEF y
    <2>5. /\ y \in Statuses /\ y.active = base.active /\ y.state \in {base.state, "failed"}
          /\ ~bu /\ le => y.state = "failed"
      <3> DEFINE x == ApplyDeletionError(ApplyStatusErrors(base, bu, le, re), de)
      <3>1. /\ x \in Statuses /\ x.active = base.active /\ x.state \in {base.state, "failed"}
            /\ ~bu /\ le => x.state = "failed"
        BY ErrorsApplied
      <3>2. y = x
        BY <2>4
      <3> HIDE DEF x
      <3> QED BY <3>1, <3>2
    <2>2. /\ y \in Statuses /\ y.active = base.active /\ y.state \in {base.state, "failed"}
          /\ ~building /\ lastError => y.state = "failed"
      BY <2>4, <2>5
    <2> USE DEF y
    <2> QED BY <1>3, <2>2
  <1>5. PICK v \in Views : v = [NoView EXCEPT !.readError = m.view.readError]
    BY <1>0, IdleIs, MemoryIs DEF Views
  <1>6. v.rows.active = 0 /\ v.readError = m.view.readError
    BY <1>5, IdleIs DEF Views
  <1>7. PICK n \in Memories : n = [m EXCEPT !.pc = "status", !.view = v, !.status = st]
    <2>1. "status" \in SearchSteps
      BY DEF SearchSteps
    <2> QED BY <1>0, <2>1 DEF Memories
  <1>8. search' = [search EXCEPT ![s] = n]
    <2> HIDE DEF building
    <2>1. search' = [search EXCEPT ![s].pc = "status", ![s].view = v, ![s].status = st]
      BY <1>1, <1>3, <1>4, <1>5
    <2> QED BY <1>0, <1>7, <2>1 DEF MemoryTypes
  <1>9. /\ n.pc = "status" /\ n.status = st /\ n.view = v /\ n.active = m.active
        /\ n.cut = m.cut /\ n.void = m.void /\ n.had = m.had /\ n.failing = m.failing
    BY <1>0, <1>7 DEF Memories
  <1>10. MemOK(n)
    <2>1. /\ n.status.active = m.view.rows.active /\ n.status.state # "deleting"
          /\ ~building /\ lastError => n.status.state = "failed"
      BY <1>3, <1>4, <1>9
    <2>2. ~building <=> build = "none"
      OBVIOUS
    <2> HIDE DEF building
    <2> QED BY <1>0, <1>6, <1>9, <2>1, <2>2 DEF MemOK, Known, Chosen
  <1> QED BY <1>8, <1>10

(* The generation is chosen, and searched. *)
LEMMA GenerationChosen ==
  ASSUME TableTypes, MemoryTypes, NEW s \in Searches, MemOK(search[s]),
         ChooseGeneration(s) \/ SearchGeneration(s) \/ Query(s)
  PROVE  \E n \in Memories : search' = [search EXCEPT ![s] = n] /\ MemOK(n)
  <1> DEFINE m == search[s]
  <1>0. m \in Memories /\ 0 \in Numbers /\ \A a \in Numbers : a \in Nat
    BY CacheAssumption DEF MemoryTypes, Numbers
  <1>1. {"status", "generation", "cache", "query", "check", "done"} \subseteq SearchSteps
    BY DEF SearchSteps
  <1>2. CASE ChooseGeneration(s)
    <2> DEFINE to(p, gen) ==
          [m EXCEPT !.pc = p, !.active = m.status.active, !.gen = gen, !.view = NoView,
                    !.had = FALSE, !.failing = FALSE, !.status = EmptyStatus("notIndexed")]
    <2>0. m.status.active \in Numbers /\ m.pc = "status"
      BY <1>0, <1>2, MemoryIs DEF ChooseGeneration, At
    <2>1. PICK p \in {"done", "cache", "generation"}, gen \in Numbers :
            /\ search' = [search EXCEPT ![s] = to(p, gen)]
            /\ p = "cache" => gen = m.status.active /\ m.status.active > 0
            /\ p = "done" => m.void \/ m.status.state = "deleting" \/ ~(m.status.active > 0)
            /\ p = "generation" => ~(m.status.active > 0)
      <3>1. CASE m.void \/ m.status.state = "deleting"
        BY <1>0, <1>2, <3>1 DEF ChooseGeneration
      <3>2. CASE ~(m.void \/ m.status.state = "deleting") /\ m.status.active > 0
        BY <1>2, <2>0, <3>2 DEF ChooseGeneration
      <3>3. CASE ~(m.void \/ m.status.state = "deleting") /\ ~(m.status.active > 0)
        BY <1>0, <1>2, <3>3 DEF ChooseGeneration
      <3> QED BY <3>1, <3>2, <3>3
    <2>2. PICK n \in Memories : n = to(p, gen)
      <3>1. p \in SearchSteps
        BY <1>1
      <3>2. to(p, gen) \in Memories
        BY <1>0, <2>0, <3>1, IdleIs DEF Memories
      <3> QED BY <3>2
    <2>3. /\ n.pc = p /\ n.active = m.status.active /\ n.gen = gen /\ n.view = NoView
          /\ ~n.had /\ ~n.failing /\ n.status = EmptyStatus("notIndexed")
          /\ n.cut = m.cut /\ n.void = m.void
      BY <1>0, <2>2 DEF Memories
    <2>4. EmptyStatus("notIndexed").active = 0 /\ NoView.rows.active = 0
      BY EmptyStatusIs, IdleIs DEF IndexStates
    <2>5. n.active \in Nat /\ 0 \notin Active /\ (n.active > 0 => n.active \in Gens)
      BY <1>0, <2>0, <2>3, CacheAssumption DEF Active, Gens, Numbers
    <2>6. n.pc = "done" /\ ~n.cut => n.active = 0
      BY <1>0, <2>0, <2>1, <2>3, <2>5 DEF MemOK
    <2>7. n.pc = "cache" => n.active = n.gen /\ n.gen \in Gens
      BY <2>1, <2>3, <2>5
    <2>8. n.pc \in {"done", "cache", "generation"} /\ (n.pc = "generation" => n.active = 0)
      BY <2>1, <2>3, <2>5
    <2>9. MemOK(n)
      BY <2>1, <2>3, <2>4, <2>5, <2>6, <2>7, <2>8 DEF MemOK, Known, Chosen
    <2> QED BY <2>1, <2>2, <2>9
  <1>3. CASE SearchGeneration(s)
    <2>0. m.pc = "generation"
      BY <1>3 DEF SearchGeneration, At
    <2>1. CASE Active \cup Staging = {}
      <3>1. NoRows \in Rows /\ m.cut \in BOOLEAN /\ Reply(s, NoRows, m.cut)
        BY <1>0, <1>3, <2>1, CacheAssumption, MemoryIs DEF SearchGeneration, NoRows, Rows, Parts
      <3>2. PICK n \in Memories :
              /\ search' = [search EXCEPT ![s] = n]
              /\ n.pc = "done" /\ n.found = NoRows /\ n.cut = m.cut /\ n.active = m.active
              /\ n.status = m.status /\ n.view = m.view
              /\ n.had = m.had /\ n.failing = m.failing /\ n.void = m.void
        BY <3>1, ReplyIs
      <3>3. Active = {}
        BY <2>1
      <3>4. MemOK(n)
        BY <3>2, <3>3 DEF MemOK, Known, Chosen
      <3> QED BY <3>2, <3>4
    <2>2. CASE Active \cup Staging # {}
      <3> DEFINE S == IF Active # {} THEN Active ELSE Staging
      <3>1. MaxGen \in Nat /\ S \in SUBSET (0..MaxGen) /\ S # {} /\ S \subseteq Gens
        BY <2>2, CacheAssumption DEF Active, Staging, Gens
      <3>2. PICK g \in Gens : g = Max(S)
        BY <3>1, MaxThere
      <3>3. g \in Numbers /\ "query" \in SearchSteps
        BY <1>1, <3>1 DEF Gens, Numbers
      <3>4. PICK n \in Memories : n = [m EXCEPT !.pc = "query", !.gen = g]
        BY <1>0, <3>3 DEF Memories
      <3>5. search' = [search EXCEPT ![s] = n]
        <4>1. search' = [search EXCEPT ![s].pc = "query", ![s].gen = g]
          BY <1>3, <2>2, <3>2 DEF SearchGeneration
        <4> QED BY <1>0, <3>4, <4>1 DEF MemoryTypes
      <3>6. /\ n.pc = "query" /\ n.gen = g /\ n.cut = m.cut /\ n.active = m.active
            /\ n.status = m.status /\ n.view = m.view
            /\ n.had = m.had /\ n.failing = m.failing /\ n.void = m.void
        BY <1>0, <3>4 DEF Memories
      <3>7. MemOK(n)
        BY <2>0, <3>6 DEF MemOK, Known, Chosen
      <3> QED BY <3>5, <3>7
    <2> QED BY <2>1, <2>2
  <1>4. CASE Query(s)
    <2>0. m.pc = "query" /\ m.gen \in Gens /\ (m.active = 0 \/ m.gen = m.active)
      BY <1>4 DEF Query, At, MemOK, Chosen
    <2>1. rows[m.gen] \in Rows /\ "check" \in SearchSteps
      BY <1>1, <2>0 DEF TableTypes
    <2>2. PICK n \in Memories : n = [m EXCEPT !.pc = "check", !.found = rows[m.gen]]
      BY <1>0, <2>1 DEF Memories
    <2>3. search' = [search EXCEPT ![s] = n]
      BY <1>0, <1>4, <2>2 DEF Query, MemoryTypes
    <2>4. /\ n.pc = "check" /\ n.gen = m.gen /\ n.cut = m.cut /\ n.active = m.active
          /\ n.status = m.status /\ n.view = m.view /\ n.found = rows[m.gen]
          /\ n.had = m.had /\ n.failing = m.failing /\ n.void = m.void
      BY <1>0, <2>2 DEF Memories
    <2>5. 0 \notin Active
      BY DEF Active, Gens
    <2>6. MemOK(n)
      BY <2>0, <2>4, <2>5 DEF MemOK, Known, Chosen
    <2> QED BY <2>3, <2>6
  <1> QED BY <1>2, <1>3, <1>4

(* What is found is compared with the deletions, remembered and answered. *)
LEMMA AnswerMade ==
  ASSUME TableTypes, MemoryTypes, TableInv, EntryInv, NEW s \in Searches, MemOK(search[s]),
         Lookup(s) \/ CheckDeleting(s) \/ Insert(s) \/ SearchFails(s) \/ Answered(s)
  PROVE  \E n \in Memories : search' = [search EXCEPT ![s] = n] /\ MemOK(n)
  <1> DEFINE m == search[s]
  <1>0. m \in Memories /\ 0 \notin Active /\ m.cut \in BOOLEAN
    BY MemoryIs DEF MemoryTypes, Active, Gens
  <1>1. {"deleting", "query", "insert"} \subseteq SearchSteps
    BY DEF SearchSteps
  <1>2. MemOK(Idle) /\ Idle \in Memories
    BY IdleIs DEF MemOK, Known, Chosen
  <1>3. CASE SearchFails(s) \/ Answered(s)
    BY <1>2, <1>3 DEF SearchFails, Answered
  <1>4. CASE Lookup(s)
    <2>0. m.pc = "cache" /\ m.gen \in Gens /\ m.active = m.gen /\ m.active > 0
      BY <1>0, <1>4, MemoryIs, CacheAssumption DEF Lookup, At, MemOK, Chosen, Numbers
    <2>1. CASE Goto(s, "query")
      <3>1. PICK n \in Memories :
              search' = [search EXCEPT ![s] = n] /\ n = [m EXCEPT !.pc = "query"]
        BY <1>1, <2>1, GotoIs
      <3>2. /\ n.pc = "query" /\ n.gen = m.gen /\ n.cut = m.cut /\ n.active = m.active
            /\ n.status = m.status /\ n.view = m.view
            /\ n.had = m.had /\ n.failing = m.failing /\ n.void = m.void
        BY <1>0, <3>1 DEF Memories
      <3>3. MemOK(n)
        BY <2>0, <3>2 DEF MemOK, Known, Chosen
      <3> QED BY <3>1, <3>3
    <2>2. ASSUME NEW e \in Hits(m.gen, m.key), Reply(s, e.rows, m.cut \/ e.cut)
          PROVE  \E n \in Memories : search' = [search EXCEPT ![s] = n] /\ MemOK(n)
      <3>1. e \in values /\ e.gen = m.gen /\ e \in Entries
        BY <2>2 DEF Hits, CacheKey, EntryInv
      <3>2. e.rows \in Rows /\ e.cut \in BOOLEAN
        BY <3>1 DEF Entries
      <3>3. PICK c \in BOOLEAN : c = (m.cut \/ e.cut) /\ (~c => ~m.cut /\ ~e.cut) /\ (m.cut => c)
        <4>1. CASE m.cut \/ e.cut
          <5>1. (m.cut \/ e.cut) = TRUE
            BY <4>1
          <5> QED BY <5>1
        <4>2. CASE ~(m.cut \/ e.cut)
          <5>1. (m.cut \/ e.cut) = FALSE
            BY <4>2
          <5> QED BY <4>2, <5>1
        <4> QED BY <4>1, <4>2
      <3>4. Reply(s, e.rows, c)
        BY <2>2, <3>3
      <3>5. PICK n \in Memories :
              /\ search' = [search EXCEPT ![s] = n]
              /\ n.pc = "done" /\ n.found = e.rows /\ n.cut = c /\ n.active = m.active
              /\ n.status = m.status /\ n.view = m.view
              /\ n.had = m.had /\ n.failing = m.failing /\ n.void = m.void
        BY <3>2, <3>4, ReplyIs
      <3>6. ASSUME ~n.cut, n.active \in Active PROVE n.found = rows[n.active]
        <4>1. ~Cleared
          BY <3>6 DEF TableInv, Active, Present
        <4> QED BY <2>0, <3>1, <3>3, <3>5, <3>6, <4>1 DEF EntryInv
      <3>7. ~n.cut => ~m.cut
        BY <3>3, <3>5
      <3>8. m.cut => n.cut
        BY <3>3, <3>5
      <3>9. MemOK(n)
        BY <3>5, <3>6, <3>7, <3>8 DEF MemOK, Chosen
      <3> QED BY <3>5, <3>9
    <2> QED BY <1>4, <2>1, <2>2 DEF Lookup
  <1>5. CASE CheckDeleting(s)
    <2>1. CASE Goto(s, "insert")
      <3>1. PICK n \in Memories :
              search' = [search EXCEPT ![s] = n] /\ n = [m EXCEPT !.pc = "insert"]
        BY <1>1, <2>1, GotoIs
      <3>2. /\ n.pc = "insert" /\ n.gen = m.gen /\ n.cut = m.cut /\ n.active = m.active
            /\ n.status = m.status /\ n.view = m.view /\ n.found = m.found
            /\ n.had = m.had /\ n.failing = m.failing /\ n.void = m.void
        BY <1>0, <3>1 DEF Memories
      <3>3. m.pc = "check"
        BY <1>5 DEF CheckDeleting, At
      <3>4. MemOK(n)
        BY <3>2, <3>3 DEF MemOK, Known, Chosen
      <3> QED BY <3>1, <3>4
    <2>2. CASE search' = [search EXCEPT ![s] = [Idle EXCEPT !.pc = "deleting", !.key = m.key,
                                                            !.void = TRUE, !.cut = TRUE]]
      <3>1. m.key \in Keys
        BY <1>0, MemoryIs
      <3>2. PICK n \in Memories : n = [Idle EXCEPT !.pc = "deleting", !.key = m.key,
                                                   !.void = TRUE, !.cut = TRUE]
        BY <1>1, <3>1, IdleIs DEF Memories
      <3>3. /\ n.pc = "deleting" /\ n.active = 0 /\ n.status.active = 0 /\ n.cut
            /\ n.view.rows.active = 0 /\ ~n.had /\ ~n.failing
        BY <3>2, IdleIs DEF Memories
      <3>4. MemOK(n)
        BY <3>3 DEF MemOK, Chosen
      <3> QED BY <2>2, <3>2, <3>4
    <2> QED BY <1>5, <2>1, <2>2 DEF CheckDeleting
  <1>6. CASE Insert(s)
    <2>1. m.found \in Rows /\ Reply(s, m.found, m.cut) /\ m.pc = "insert"
      BY <1>0, <1>6, MemoryIs DEF Insert, At
    <2>2. PICK n \in Memories :
            /\ search' = [search EXCEPT ![s] = n]
            /\ n.pc = "done" /\ n.found = m.found /\ n.cut = m.cut /\ n.active = m.active
            /\ n.status = m.status /\ n.view = m.view
            /\ n.had = m.had /\ n.failing = m.failing /\ n.void = m.void
      BY <1>0, <2>1, ReplyIs
    <2>3. MemOK(n)
      BY <2>1, <2>2 DEF MemOK, Known, Chosen
    <2> QED BY <2>2, <2>3
  <1> QED BY <1>3, <1>4, <1>5, <1>6

(* Whatever a search does, what it remembers stays right. *)
LEMMA SearchBySearch ==
  ASSUME TableTypes, MemoryTypes, TableInv, EntryInv, SearchInv,
         NEW s \in Searches, SearchStep(s)
  PROVE  MemoryTypes' /\ SearchInv'
  <1>1. MemOK(search[s])
    BY DEF SearchInv
  <1>2. PICK n \in Memories : search' = [search EXCEPT ![s] = n] /\ MemOK(n)
    BY <1>1, StatusReads, StatusMade, GenerationChosen, AnswerMade DEF SearchStep
  <1>3. search' \in [Searches -> Memories] /\ search'[s] = n
        /\ \A t \in Searches \ {s} : search'[t] = search[t]
    BY <1>2 DEF MemoryTypes
  <1>4. /\ state' = state /\ rows' = rows /\ lastError' = lastError /\ build' = build
        /\ enrolled' = enrolled
    BY SearchReads DEF db, runtime
  <1>5. Active' = Active
    BY <1>4 DEF Active
  <1>6. \A t \in Searches : MemOK(search'[t])
    BY <1>2, <1>3 DEF SearchInv
  <1>7. SearchInv'
    BY <1>4, <1>5, <1>6, SMTT(30) DEF SearchInv, MemOK, Known
  <1> QED BY <1>3, <1>7 DEF MemoryTypes

(* ... and what it puts into the cache, or takes from it, is what is there. *)
LEMMA EntriesBySearch ==
  ASSUME TableTypes, MemoryTypes, TableInv, EntryInv, SearchInv,
         NEW s \in Searches, SearchStep(s)
  PROVE  EntryInv'
  <1>1. /\ state' = state /\ rows' = rows /\ build' = build /\ deletion' = deletion
    BY SearchReads DEF db, runtime, deleting
  <1>2. Active' = Active /\ (Cleared' <=> Cleared)
    BY <1>1 DEF Active, Cleared
  <1>3. CASE values' = values
    BY <1>1, <1>2, <1>3 DEF EntryInv, Known
  <1>4. CASE Insert(s) /\ search[s].active = search[s].gen
    <2> DEFINE m == search[s]
               e == [gen |-> m.gen, key |-> m.key, rows |-> m.found, cut |-> m.cut]
    <2>1. m \in Memories /\ m.pc = "insert" /\ MemOK(m) /\ m.active = m.gen
      BY <1>4 DEF MemoryTypes, SearchInv, Insert, At
    <2>2. m.gen \in Gens /\ m.key \in Keys /\ m.found \in Rows /\ m.cut \in BOOLEAN
      BY <2>1, MemoryIs DEF MemOK, Chosen
    <2>3. PICK x \in Entries : x = e
      BY <2>2 DEF Entries
    <2>4. x.gen = m.gen /\ x.rows = m.found /\ x.cut = m.cut
      BY <2>3
    <2>5. \/ x.cut
          \/ Known(x.gen) /\ (x.gen \in Active => x.rows = rows[x.gen])
      BY <2>1, <2>4 DEF MemOK
    <2>6. values' \subseteq values \cup {x}
      BY <1>4, <2>3 DEF Insert, CacheInsert
    <2>7. \A v \in values \cup {x} : /\ v \in Entries
                                     /\ \/ v.cut \/ Cleared
                                        \/ Known(v.gen) /\ (v.gen \in Active => v.rows = rows[v.gen])
      BY <2>5 DEF EntryInv
    <2> QED BY <1>1, <1>2, <2>6, <2>7 DEF EntryInv, Known
  <1> QED BY <1>3, <1>4
      DEF SearchStep, SearchIndex, StatusDeleting, StatusDeletionError, StatusPromoting,
          StatusEnrollment, LoadStatusRows, StatusRuntime, ChooseGeneration, SearchGeneration,
          Lookup, Query, CheckDeleting, Insert, SearchFails, Answered, cache

(* A build leaves alone what the searches remember; only an error that is    *)
(* forgotten is forgotten by all.                                            *)
LEMMA SearchByBuild ==
  ASSUME TableTypes, MemoryTypes, TableInv, SearchInv, BuildAction
  PROVE  MemoryTypes' /\ SearchInv'
  <1>1. /\ \A a \in Numbers : Known(a) => Known(a)'
        /\ \A a \in Numbers : Known(a) /\ a \in Active' => a \in Active /\ rows'[a] = rows[a]
        /\ Active # {} => Active' # {}
    BY KnownKept
  <1> DEFINE Kept == build = "none" /\ enrolled /\ lastError
                       => build' = "none" /\ enrolled' /\ lastError'
  <1>2. CASE search' = search /\ Kept
    <2>2. build = "none" /\ enrolled /\ lastError => build' = "none" /\ enrolled' /\ lastError'
      BY <1>2
    <2>3. ASSUME NEW s \in Searches PROVE MemOK(search[s])'
      <3> DEFINE m == search[s]
      <3>1. /\ m.active \in Numbers /\ m.status.active \in Numbers /\ m.view.rows.active \in Numbers
            /\ MemOK(m)
        BY <2>3, MemoryIs DEF MemoryTypes, SearchInv
      <3>2. ASSUME ~m.cut PROVE Known(m.active)' /\ Known(m.status.active)' /\ Known(m.view.rows.active)'
        <4>1. Known(m.active) /\ Known(m.status.active) /\ Known(m.view.rows.active)
          BY <3>1, <3>2 DEF MemOK
        <4> QED BY <1>1, <1>2, <3>1, <4>1 DEF Known
      <3>3. ASSUME ~m.cut, m.active \in Active', m.pc \in {"check", "insert", "done"}
            PROVE  m.found = rows'[m.active]
        <4>1. Known(m.active)
          BY <3>1, <3>3 DEF MemOK
        <4>2. m.active \in Active /\ rows'[m.active] = rows[m.active]
          BY <1>1, <3>1, <3>3, <4>1
        <4> QED BY <3>1, <3>3, <4>2 DEF MemOK
      <3> QED BY <1>1, <1>2, <2>2, <3>1, <3>2, <3>3 DEF MemOK
    <2> QED BY <1>2, <2>3 DEF SearchInv, MemoryTypes
  <1>3. CASE ErrorForgotten /\ state' = state /\ rows' = rows
    <2>1. \A s \in Searches : search'[s] = [search[s] EXCEPT !.failing = FALSE]
      BY <1>3 DEF ErrorForgotten
    <2>2. Active' = Active
      BY <1>3 DEF Active
    <2>3. ASSUME NEW s \in Searches PROVE search'[s] \in Memories /\ MemOK(search[s])'
      <3>1. search[s] \in Memories /\ MemOK(search[s])
        BY <2>3 DEF MemoryTypes, SearchInv
      <3>2. PICK n \in Memories : n = [search[s] EXCEPT !.failing = FALSE]
        BY <3>1 DEF Memories
      <3>3. /\ n.pc = search[s].pc /\ n.active = search[s].active /\ n.gen = search[s].gen
            /\ n.found = search[s].found /\ n.void = search[s].void /\ n.cut = search[s].cut
            /\ n.had = search[s].had /\ ~n.failing /\ n.view = search[s].view
            /\ n.status = search[s].status
        BY <3>1, <3>2 DEF Memories
      <3>4. search'[s] = n
        BY <2>1, <3>2
      <3> QED BY <1>3, <2>2, <3>1, <3>3, <3>4 DEF MemOK, Known
    <2>4. search' \in [Searches -> Memories]
      BY <1>3, <2>3 DEF ErrorForgotten
    <2> QED BY <2>3, <2>4 DEF SearchInv, MemoryTypes
  <1>4. CASE ReserveBuild \/ DeleteCached
    BY <1>3, <1>4 DEF ReserveBuild, DeleteCached, db
  <1>5. CASE Enroll
    BY <1>2, <1>5 DEF Enroll
  <1>6. CASE \/ StartGeneration \/ StartFails \/ ClearPromoting \/ FinishPromoted \/ FinishBuild
             \/ InvalidateCache
             \/ \E g \in Gens : MarkPromoting(g) \/ Promote(g) \/ GiveUp(g)
             \/ \E g \in Gens, part \in {"some", "all"} : InsertEntries(g, part)
    <2>1. search' = search /\ build # "none"
      BY <1>6 DEF StartGeneration, StartFails, ClearPromoting, FinishPromoted, FinishBuild,
                  MarkPromoting, Promote, GiveUp, InsertEntries, InvalidateCache
    <2> QED BY <1>2, <2>1
  <1>7. CASE DeleteIndex \/ DeleteFails \/ \E g \in Gens : Reclaim(g)
    <2>1. search' = search /\ build' = build /\ enrolled' = enrolled /\ lastError' = lastError
      BY <1>7 DEF DeleteIndex, DeleteFails, Reclaim, db, runtime
    <2> QED BY <1>2, <2>1
  <1> QED BY <1>4, <1>5, <1>6, <1>7 DEF BuildAction

(* The cache holds on to what it has, or holds nothing. *)
LEMMA EntriesByBuild ==
  ASSUME TableTypes, TableInv, EntryInv, BuildAction
  PROVE  EntryInv'
  <1>1. CASE values' = {}
    BY <1>1 DEF EntryInv
  <1>2. CASE values' = values /\ (Cleared => Cleared')
    <2>1. /\ \A a \in Numbers : Known(a) => Known(a)'
          /\ \A a \in Numbers : Known(a) /\ a \in Active' => a \in Active /\ rows'[a] = rows[a]
      BY KnownKept
    <2>2. \A e \in values : e.gen \in Numbers
      BY CacheAssumption DEF EntryInv, Entries, Gens, Numbers
    <2>3. ASSUME NEW e \in values, ~e.cut, ~Cleared'
          PROVE  Known(e.gen)' /\ (e.gen \in Active' => e.rows = rows'[e.gen])
      <3>1. Known(e.gen) /\ (e.gen \in Active => e.rows = rows[e.gen])
        BY <1>2, <2>3 DEF EntryInv
      <3>2. Known(e.gen)'
        BY <2>1, <2>2, <3>1
      <3>3. e.gen \in Active' => e.gen \in Active /\ rows'[e.gen] = rows[e.gen]
        BY <2>1, <2>2, <3>1
      <3> QED BY <3>1, <3>2, <3>3
    <2> QED BY <1>2, <2>3 DEF EntryInv
  <1>3. \/ values' = {}
        \/ /\ values' = values
           /\ (build = "invalidated" => build' = "invalidated")
           /\ (deletion = "deleted" => deletion' = "deleted")
    BY DEF BuildAction, Enroll, ReserveBuild, StartGeneration, StartFails, ClearPromoting,
           FinishPromoted, FinishBuild, MarkPromoting, Promote, GiveUp, Reclaim, InsertEntries,
           InvalidateCache, DeleteIndex, DeleteCached, DeleteFails, ClearCache, cache,
           runtime, deleting
  <1> QED BY <1>1, <1>2, <1>3 DEF Cleared

(* Where the tables are emptied, every search under way is told apart. *)
LEMMA SearchByEmptied ==
  ASSUME TableTypes, MemoryTypes, TableInv, SearchInv, EntryInv, ProfileChange \/ DeleteRows
  PROVE  MemoryTypes' /\ SearchInv' /\ EntryInv'
  <1>1. Active' = {} /\ Emptied
    BY EmptiedChange
  <1>2. ASSUME NEW s \in Searches PROVE search'[s] \in Memories /\ MemOK(search[s])'
    <2> DEFINE c == search[s].pc # "idle"
    <2>1. search[s] \in Memories /\ MemOK(search[s])
      BY <1>2 DEF MemoryTypes, SearchInv
    <2>2. c \in BOOLEAN
      <3>1. CASE search[s].pc = "idle"
        <4>1. c = FALSE
          BY <3>1
        <4> QED BY <4>1
      <3>2. CASE search[s].pc # "idle"
        <4>1. c = TRUE
          BY <3>2
        <4> QED BY <4>1
      <3> QED BY <3>1, <3>2
    <2>3. search'[s] = [search[s] EXCEPT !.cut = c, !.had = FALSE, !.failing = FALSE]
      BY <1>1, <1>2 DEF Emptied
    <2>4. c <=> search[s].pc # "idle"
      OBVIOUS
    <2> HIDE DEF c
    <2>5. PICK n \in Memories : n = [search[s] EXCEPT !.cut = c, !.had = FALSE, !.failing = FALSE]
      BY <2>1, <2>2 DEF Memories
    <2>6. /\ n.pc = search[s].pc /\ n.active = search[s].active /\ n.gen = search[s].gen
          /\ n.found = search[s].found /\ n.void = search[s].void /\ n.cut = c
          /\ ~n.had /\ ~n.failing /\ n.view = search[s].view /\ n.status = search[s].status
      BY <2>1, <2>5 DEF Memories
    <2>7. search'[s] = n
      BY <2>3, <2>5
    <2> QED BY <1>1, <2>1, <2>4, <2>6, <2>7 DEF MemOK, Known
  <1>3. search' \in [Searches -> Memories]
    BY <1>1, <1>2 DEF Emptied
  <1>4. values' = values /\ Cleared'
    BY DEF ProfileChange, DeleteRows, Cleared, cache
  <1>5. EntryInv'
    BY <1>4 DEF EntryInv
  <1> QED BY <1>2, <1>3, <1>5 DEF SearchInv, MemoryTypes

-----------------------------------------------------------------------------
(* The whole. *)
CacheInv == TableTypes /\ MemoryTypes /\ TableInv /\ SearchInv /\ EntryInv

(* At the start there is no index, no search and nothing remembered. *)
LEMMA CacheInvInit == Init => CacheInv
  <1> SUFFICES ASSUME Init PROVE CacheInv
    OBVIOUS
  <1>1. NoRows \in Rows /\ MaxBuilds \in Nat
    BY CacheAssumption DEF NoRows, Rows, Parts
  <1>2. TableTypes
    <2>1. state \in [Gens -> GenStates] /\ rows \in [Gens -> Rows]
      BY <1>1 DEF Init, GenStates
    <2>2. builds \in 0..MaxBuilds /\ build \in BuildSteps /\ deletion \in {"none", "asked", "deleted"}
      BY <1>1 DEF Init, BuildSteps
    <2>3. enrolled \in BOOLEAN /\ lastError \in BOOLEAN /\ deletionError \in BOOLEAN
      BY Zenon DEF Init
    <2> QED BY <2>1, <2>2, <2>3 DEF TableTypes
  <1>3. MemoryTypes
    BY IdleIs DEF Init, MemoryTypes
  <1>4. Active = {} /\ Staging = {} /\ Present = {}
    BY DEF Init, Active, Staging, Present
  <1>5. TableInv
    BY <1>4 DEF Init, TableInv, Cleared
  <1>6. SearchInv
    BY IdleIs DEF Init, SearchInv, MemOK, Known, Chosen
  <1>7. EntryInv
    BY DEF Init, EntryInv
  <1> QED BY <1>2, <1>3, <1>5, <1>6, <1>7 DEF CacheInv

(* Every step keeps it. *)
LEMMA CacheInvNext == CacheInv /\ [Next]_vars => CacheInv'
  <1> SUFFICES ASSUME CacheInv, [Next]_vars PROVE CacheInv'
    OBVIOUS
  <1>0. TableTypes /\ MemoryTypes /\ TableInv /\ SearchInv /\ EntryInv /\ TableTypes'
    BY TablesNext DEF CacheInv
  <1>1. CASE UNCHANGED vars
    <2>1. /\ state' = state /\ rows' = rows /\ enrolled' = enrolled /\ build' = build
          /\ lastError' = lastError /\ deletion' = deletion /\ values' = values
          /\ search' = search
      BY <1>1 DEF vars, db, runtime, deleting, cache
    <2>2. Active' = Active /\ Staging' = Staging /\ Present' = Present
      BY <2>1 DEF Active, Staging, Present
    <2>3. MemoryTypes' /\ TableInv'
      BY <1>0, <2>1, <2>2 DEF MemoryTypes, TableInv, Cleared
    <2>4. SearchInv'
      BY <1>0, <2>1, <2>2 DEF SearchInv, MemOK, Known
    <2>5. EntryInv'
      BY <1>0, <2>1, <2>2 DEF EntryInv, Known, Cleared
    <2> QED BY <1>0, <2>3, <2>4, <2>5 DEF CacheInv
  <1>2. ASSUME NEW s \in Searches, SearchStep(s) PROVE CacheInv'
    <2>1. /\ state' = state /\ rows' = rows /\ enrolled' = enrolled /\ build' = build
          /\ lastError' = lastError /\ deletion' = deletion
      BY <1>2, SearchReads DEF db, runtime, deleting
    <2>2. Active' = Active /\ Staging' = Staging /\ Present' = Present
      BY <2>1 DEF Active, Staging, Present
    <2>3. TableInv'
      BY <1>0, <2>1, <2>2 DEF TableInv, Cleared
    <2> QED BY <1>0, <1>2, <2>3, SearchBySearch, EntriesBySearch DEF CacheInv
  <1>3. CASE BuildAction
    BY <1>0, <1>3, BuildChange, SearchByBuild, EntriesByBuild DEF CacheInv
  <1>4. CASE ProfileChange \/ DeleteRows
    BY <1>0, <1>4, EmptiedChange, SearchByEmptied DEF CacheInv
  <1> QED BY <1>1, <1>2, <1>3, <1>4, Steps

(* The answer to a search that no deletion and no profile change disturbed   *)
(* holds all rows of the generation its status names, as long as this one is *)
(* active, whether it was read or remembered.                                *)
THEOREM UndisturbedAnswersAreWhole == Spec => []UndisturbedAnswerIsWhole
  <1>1. CacheInv => UndisturbedAnswerIsWhole
    BY DEF CacheInv, SearchInv, MemOK, TableInv, UndisturbedAnswerIsWhole, At
  <1> QED BY <1>1, CacheInvInit, CacheInvNext, PTL DEF Spec

(* A status call does not overlook an index that is there all the time. *)
THEOREM IndexesAreAcknowledged == Spec => []IndexIsAcknowledged
  <1>1. CacheInv => IndexIsAcknowledged
    BY DEF CacheInv, SearchInv, MemOK, IndexIsAcknowledged, At
  <1> QED BY <1>1, CacheInvInit, CacheInvNext, PTL DEF Spec

(* ... nor the failure of the last build. *)
THEOREM FailuresAreReported == Spec => []FailureIsReported
  <1>1. CacheInv => FailureIsReported
    BY DEF CacheInv, SearchInv, MemOK, FailureIsReported, At
  <1> QED BY <1>1, CacheInvInit, CacheInvNext, PTL DEF Spec

-----------------------------------------------------------------------------
(* Which matches are answered: strings and their order *)

Texts == Seq(Chars)
EntrySet == [id : Nat, name : Texts, item : Texts]

(* Two strings begin with the same n characters. *)
Same(s, t, n) == \A j \in 1..n : s[j] = t[j]

(* Prefixes are the same if their characters are. *)
LEMMA SameSub ==
  ASSUME NEW s \in Texts, NEW t \in Texts, NEW n \in Nat, n <= Len(s), n <= Len(t)
  PROVE  SubSeq(s, 1, n) = SubSeq(t, 1, n) <=> Same(s, t, n)
  <1>1. /\ SubSeq(s, 1, n) = [j \in 1..n |-> s[j]]
        /\ SubSeq(t, 1, n) = [j \in 1..n |-> t[j]]
    OBVIOUS
  <1> QED BY <1>1 DEF Same

(* The characters are ordered. *)
LEMMA CharsAreNumbers ==
  ASSUME NEW s \in Texts
  PROVE  Len(s) \in Nat /\ \A j \in 1..Len(s) : s[j] \in Chars /\ s[j] \in Nat /\ s[j] <= LastChar
  <1>1. \A c \in Chars : c \in Nat /\ c <= LastChar BY RankingAssumption DEF Chars
  <1> QED BY <1>1 DEF Texts

(* After n equal characters s comes first. *)
Ahead(s, t, n) ==
  n < Len(t) /\ Same(s, t, n) /\ (n < Len(s) => s[n + 1] < t[n + 1])

(* Less, character by character. *)
LEMMA LessAhead ==
  ASSUME NEW s \in Texts, NEW t \in Texts
  PROVE  Less(s, t) <=> \E n \in 0..Len(s) : Ahead(s, t, n)
  <1>1. Len(s) \in Nat /\ Len(t) \in Nat BY CharsAreNumbers
  <1>2. ASSUME NEW n \in 0..Len(s), n < Len(t)
        PROVE  SubSeq(s, 1, n) = SubSeq(t, 1, n) <=> Same(s, t, n)
    BY <1>1, <1>2, SameSub
  <1> QED BY <1>2 DEF Less, Ahead

(* A set of numbers has a least element. *)
LEMMA LeastOf ==
  ASSUME NEW S \in SUBSET Nat, S # {}
  PROVE  \E n \in S : \A m \in S : n <= m
  <1> DEFINE R == OpToRel(<, Nat)
  <1>1. IsWellFoundedOn(R, Nat) BY NatLessThanWellFounded
  <1>2. \A x, y \in Nat : x < y => <<x, y>> \in R BY DEF OpToRel
  <1> HIDE DEF R
  <1>3. PICK n \in S : \A m \in S : ~(<<m, n>> \in R) BY <1>1, WFMin
  <1>4. ASSUME NEW m \in S PROVE n <= m
    <2>1. n \in Nat /\ m \in Nat OBVIOUS
    <2>2. ~(m < n) BY <1>2, <1>3, <2>1
    <2> QED BY <2>1, <2>2
  <1> QED BY <1>4

(* A set of numbers below a bound has a greatest. *)
LEMMA GreatestOf ==
  ASSUME NEW n \in Nat, NEW S \in SUBSET (0..n), S # {}
  PROVE  \E x \in S : \A y \in S : y <= x
  <1> DEFINE B == {b \in Nat : \E x \in S : b = n - x}
  <1>1. \A x \in S : x \in Nat /\ n - x \in Nat /\ n - x \in B OBVIOUS
  <1>2. B \in SUBSET Nat /\ B # {} BY <1>1
  <1>3. \A b \in B : \E x \in S : b = n - x OBVIOUS
  <1> HIDE DEF B
  <1>4. PICK b \in B : \A m \in B : b <= m BY <1>2, LeastOf
  <1>5. PICK x \in S : b = n - x BY <1>3
  <1>6. ASSUME NEW y \in S PROVE y <= x
    <2>1. b <= n - y BY <1>1, <1>4
    <2> QED BY <1>1, <1>5, <2>1
  <1> QED BY <1>6

(* Two strings of which neither begins with the other differ at a first      *)
(* place.                                                                    *)
LEMMA FirstDifference ==
  ASSUME NEW s \in Texts, NEW t \in Texts, ~(Len(t) <= Len(s) /\ Same(s, t, Len(t)))
  PROVE  \E n \in 0..Len(s) :
           n < Len(t) /\ Same(s, t, n) /\ (n < Len(s) => s[n + 1] # t[n + 1])
  <1>1. Len(s) \in Nat /\ Len(t) \in Nat BY CharsAreNumbers
  <1> DEFINE S == {m \in Nat : m < Len(t) /\ (m < Len(s) => s[m + 1] # t[m + 1])}
  <1>2. S # {}
    <2>1. CASE Len(s) < Len(t)
      <3>1. Len(s) \in S BY <1>1, <2>1
      <3> QED BY <3>1
    <2>2. CASE ~(Len(s) < Len(t))
      <3>1. PICK j \in 1..Len(t) : s[j] # t[j] BY <1>1, <2>2 DEF Same
      <3>2. j - 1 \in Nat /\ j - 1 < Len(t) /\ (j - 1) + 1 = j BY <1>1, <3>1
      <3>3. j - 1 \in S BY <3>1, <3>2
      <3> QED BY <3>3
    <2> QED BY <2>1, <2>2
  <1>3. S \in SUBSET Nat OBVIOUS
  <1>4. PICK n \in S : \A m \in S : n <= m BY <1>2, <1>3, LeastOf
  <1>5. n \in Nat /\ n < Len(t) /\ (n < Len(s) => s[n + 1] # t[n + 1]) OBVIOUS
  <1>6. ASSUME NEW m \in Nat, m < n PROVE m < Len(s) /\ s[m + 1] = t[m + 1]
    <2>1. m \notin S BY <1>3, <1>4, <1>6
    <2>2. m < Len(t) BY <1>1, <1>5, <1>6
    <2> QED BY <2>1, <2>2
  <1> HIDE DEF S
  <1>7. Same(s, t, n)
    <2> SUFFICES ASSUME NEW j \in 1..n PROVE s[j] = t[j]
      BY DEF Same
    <2>1. j - 1 \in Nat /\ j - 1 < n /\ (j - 1) + 1 = j BY <1>5
    <2> QED BY <1>6, <2>1
  <1>8. n <= Len(s)
    <2> SUFFICES ASSUME Len(s) < n PROVE FALSE
      BY <1>1, <1>5
    <2> QED BY <1>1, <1>6
  <1> QED BY <1>1, <1>5, <1>7, <1>8

(* Strings are strictly ordered. *)
LEMMA LessIsOrder ==
  /\ \A s \in Texts : ~Less(s, s)
  /\ \A s, t, u \in Texts : Less(s, t) /\ Less(t, u) => Less(s, u)
  /\ \A s, t \in Texts : s = t \/ Less(s, t) \/ Less(t, s)
  <1>1. ASSUME NEW s \in Texts PROVE ~Less(s, s)
    <2>1. Len(s) \in Nat /\ \A j \in 1..Len(s) : s[j] \in Nat BY CharsAreNumbers
    <2>2. ASSUME NEW n \in 0..Len(s), Ahead(s, s, n) PROVE FALSE
      <3>1. n < Len(s) /\ n + 1 \in 1..Len(s) BY <2>1, <2>2 DEF Ahead
      <3> QED BY <2>1, <2>2, <3>1 DEF Ahead
    <2> QED BY <2>2, LessAhead
  <1>2. ASSUME NEW s \in Texts, NEW t \in Texts, NEW u \in Texts, Less(s, t), Less(t, u)
        PROVE  Less(s, u)
    <2>1. /\ Len(s) \in Nat /\ \A j \in 1..Len(s) : s[j] \in Nat
          /\ Len(t) \in Nat /\ \A j \in 1..Len(t) : t[j] \in Nat
          /\ Len(u) \in Nat /\ \A j \in 1..Len(u) : u[j] \in Nat
      BY CharsAreNumbers
    <2>2. PICK m \in 0..Len(s) : Ahead(s, t, m) BY <1>2, LessAhead
    <2>3. PICK n \in 0..Len(t) : Ahead(t, u, n) BY <1>2, LessAhead
    <2>4. m \in Nat /\ n \in Nat BY <2>1
    <2>5. CASE m <= n
      <3>1. m < Len(u) BY <2>1, <2>3, <2>4, <2>5 DEF Ahead
      <3>2. Same(s, u, m)
        <4> SUFFICES ASSUME NEW j \in 1..m PROVE s[j] = u[j]
          BY DEF Same
        <4>1. s[j] = t[j] BY <2>2 DEF Ahead, Same
        <4>2. j \in 1..n BY <2>4, <2>5
        <4>3. t[j] = u[j] BY <2>3, <4>2 DEF Ahead, Same
        <4> QED BY <4>1, <4>3
      <3>3. ASSUME m < Len(s) PROVE s[m + 1] < u[m + 1]
        <4>1. m < Len(t) /\ s[m + 1] < t[m + 1] BY <2>2, <3>3 DEF Ahead
        <4>2. m + 1 \in 1..Len(s) /\ m + 1 \in 1..Len(t) /\ m + 1 \in 1..Len(u)
          BY <2>1, <2>4, <3>1, <3>3, <4>1
        <4>3. t[m + 1] <= u[m + 1]
          <5>1. CASE m = n
            <6>1. t[m + 1] < u[m + 1] BY <2>3, <4>1, <5>1 DEF Ahead
            <6> QED BY <2>1, <4>2, <6>1
          <5>2. CASE m # n
            <6>1. m + 1 \in 1..n BY <2>4, <2>5, <5>2
            <6>2. t[m + 1] = u[m + 1] BY <2>3, <6>1 DEF Ahead, Same
            <6> QED BY <2>1, <4>2, <6>2
          <5> QED BY <5>1, <5>2
        <4>4. s[m + 1] \in Nat /\ t[m + 1] \in Nat /\ u[m + 1] \in Nat BY <2>1, <4>2
        <4> QED BY <4>1, <4>3, <4>4
      <3>4. Ahead(s, u, m) BY <3>1, <3>2, <3>3 DEF Ahead
      <3> QED BY <3>4, LessAhead
    <2>6. CASE n < m
      <3>0. n \in 0..Len(s) /\ n < Len(s) /\ n < Len(t) BY <2>1, <2>2, <2>4, <2>6 DEF Ahead
      <3>1. n < Len(u) BY <2>3 DEF Ahead
      <3>2. Same(s, u, n)
        <4> SUFFICES ASSUME NEW j \in 1..n PROVE s[j] = u[j]
          BY DEF Same
        <4>1. j \in 1..m BY <2>4, <2>6
        <4>2. s[j] = t[j] BY <2>2, <4>1 DEF Ahead, Same
        <4>3. t[j] = u[j] BY <2>3 DEF Ahead, Same
        <4> QED BY <4>2, <4>3
      <3>3. s[n + 1] < u[n + 1]
        <4>1. n + 1 \in 1..m BY <2>4, <2>6
        <4>2. s[n + 1] = t[n + 1] BY <2>2, <4>1 DEF Ahead, Same
        <4>3. t[n + 1] < u[n + 1] BY <2>3, <3>0 DEF Ahead
        <4> QED BY <4>2, <4>3
      <3>4. Ahead(s, u, n) BY <3>1, <3>2, <3>3 DEF Ahead
      <3> QED BY <3>0, <3>4, LessAhead
    <2> QED BY <2>4, <2>5, <2>6
  <1>3. ASSUME NEW s \in Texts, NEW t \in Texts, s # t PROVE Less(s, t) \/ Less(t, s)
    <2>1. /\ Len(s) \in Nat /\ \A j \in 1..Len(s) : s[j] \in Nat
          /\ Len(t) \in Nat /\ \A j \in 1..Len(t) : t[j] \in Nat
      BY CharsAreNumbers
    <2>2. ASSUME NEW a \in Texts, NEW b \in Texts, Len(a) \in Nat, Len(b) \in Nat,
                 \A j \in 1..Len(a) : a[j] \in Nat, \A j \in 1..Len(b) : b[j] \in Nat,
                 ~(Len(b) <= Len(a) /\ Same(a, b, Len(b)))
          PROVE  Less(a, b) \/ Less(b, a)
      <3>1. PICK n \in 0..Len(a) :
              n < Len(b) /\ Same(a, b, n) /\ (n < Len(a) => a[n + 1] # b[n + 1])
        BY <2>2, FirstDifference
      <3>2. CASE n < Len(a) /\ b[n + 1] < a[n + 1]
        <4>1. Same(b, a, n) BY <3>1 DEF Same
        <4>2. Ahead(b, a, n) BY <3>2, <4>1 DEF Ahead
        <4>3. n \in 0..Len(b) BY <2>2, <3>1
        <4> QED BY <4>2, <4>3, LessAhead
      <3>3. CASE ~(n < Len(a) /\ b[n + 1] < a[n + 1])
        <4>1. ASSUME n < Len(a) PROVE a[n + 1] < b[n + 1]
          <5>1. n + 1 \in 1..Len(a) /\ n + 1 \in 1..Len(b) BY <2>2, <3>1, <4>1
          <5>2. a[n + 1] \in Nat /\ b[n + 1] \in Nat BY <2>2, <5>1
          <5> QED BY <3>1, <3>3, <4>1, <5>2
        <4>2. Ahead(a, b, n) BY <3>1, <4>1 DEF Ahead
        <4> QED BY <4>2, LessAhead
      <3> QED BY <3>2, <3>3
    <2>3. CASE Len(t) <= Len(s) /\ Same(s, t, Len(t))
      <3>1. ~(Len(s) <= Len(t) /\ Same(t, s, Len(s)))
        <4> SUFFICES ASSUME Len(s) <= Len(t), Same(t, s, Len(s)) PROVE FALSE
          OBVIOUS
        <4>1. Len(s) = Len(t) BY <2>1, <2>3
        <4>2. \A j \in 1..Len(s) : s[j] = t[j] BY DEF Same
        <4>3. s = t BY <4>1, <4>2, SeqEqual DEF Texts
        <4> QED BY <1>3, <4>3
      <3> QED BY <2>1, <2>2, <3>1
    <2> QED BY <2>1, <2>2, <2>3
  <1> QED BY <1>1, <1>2, <1>3

-----------------------------------------------------------------------------
(* The range of a prefix *)

(* What begins with q does not come before q. *)
LEMMA PrefixIsNotLess ==
  ASSUME NEW q \in Texts, NEW s \in Texts, Len(q) <= Len(s), Same(s, q, Len(q))
  PROVE  ~Less(s, q)
  <1>1. Len(s) \in Nat /\ Len(q) \in Nat /\ \A j \in 1..Len(q) : q[j] \in Nat
    BY CharsAreNumbers
  <1>2. ASSUME NEW n \in 0..Len(s), Ahead(s, q, n) PROVE FALSE
    <2>1. n < Len(q) /\ n + 1 \in 1..Len(q) /\ n < Len(s) BY <1>1, <1>2 DEF Ahead
    <2>2. s[n + 1] = q[n + 1] BY <2>1 DEF Same
    <2>3. s[n + 1] < q[n + 1] BY <1>2, <2>1 DEF Ahead
    <2> QED BY <1>1, <2>1, <2>2, <2>3
  <1> QED BY <1>2, LessAhead

(* The character that follows: nothing lies between the two. *)
LEMMA NextCharIs ==
  ASSUME NEW c \in Chars, c # LastChar
  PROVE  /\ NextChar(c) \in Chars /\ c < NextChar(c)
         /\ \A d \in Chars : d < NextChar(c) => d <= c
  BY RankingAssumption DEF NextChar, Chars, Surrogates

(* prefix_upper_bound, place by place. *)
LEMMA UpperBoundIs ==
  ASSUME NEW q \in Texts
  PROVE  \/ PrefixUpperBound(q) = <<>> /\ \A j \in 1..Len(q) : q[j] = LastChar
         \/ \E i \in 1..Len(q) :
              LET u == PrefixUpperBound(q) IN
              /\ u \in Texts /\ u # <<>> /\ Len(u) = i /\ q[i] # LastChar /\ u[i] = NextChar(q[i])
              /\ \A j \in 1..(i - 1) : u[j] = q[j]
              /\ \A j \in (i + 1)..Len(q) : q[j] = LastChar
  <1>1. Len(q) \in Nat /\ \A j \in 1..Len(q) : q[j] \in Chars BY CharsAreNumbers
  <1> DEFINE R == {j \in DOMAIN q : q[j] # LastChar}
  <1>2. DOMAIN q = 1..Len(q) BY DEF Texts
  <1>3. CASE R = {} BY <1>2, <1>3 DEF PrefixUpperBound
  <1>4. CASE R # {}
    <2>1. R \in SUBSET (0..Len(q)) BY <1>1, <1>2
    <2>2. PICK i \in R : \A j \in R : j <= i BY <1>1, <1>4, <2>1, GreatestOf
    <2>3. Max(R) = i
      <3>1. \A x \in R : x \in Nat BY <1>1, <2>1
      <3>2. \E x \in R : \A y \in R : x >= y BY <2>2, <3>1
      <3>3. Max(R) \in R /\ \A y \in R : Max(R) >= y BY <3>2 DEF Max
      <3> HIDE DEF R
      <3> QED BY <2>2, <3>1, <3>3
    <2>4. i \in 1..Len(q) /\ q[i] # LastChar /\ q[i] \in Chars BY <1>1, <1>2
    <2>5. NextChar(q[i]) \in Chars BY <2>4, NextCharIs
    <2>6. PICK p : p = SubSeq(q, 1, i - 1) OBVIOUS
    <2>7. p \in Texts /\ Len(p) = i - 1 /\ \A j \in 1..(i - 1) : p[j] = q[j]
      BY <1>1, <2>4, <2>6 DEF Texts
    <2>8. PICK u : u = Append(p, NextChar(q[i])) OBVIOUS
    <2>9. /\ u \in Texts /\ Len(u) = i /\ u[i] = NextChar(q[i])
          /\ \A j \in 1..(i - 1) : u[j] = p[j]
      BY <2>4, <2>5, <2>7, <2>8 DEF Texts
    <2>10. PrefixUpperBound(q) = u BY <1>4, <2>3, <2>6, <2>8 DEF PrefixUpperBound
    <2>11. u # <<>> BY <2>4, <2>9
    <2>12. \A j \in (i + 1)..Len(q) : q[j] = LastChar
      <3> SUFFICES ASSUME NEW j \in (i + 1)..Len(q), q[j] # LastChar PROVE FALSE
        OBVIOUS
      <3>1. j \in 1..Len(q) /\ ~(j <= i) BY <1>1, <2>4
      <3> QED BY <1>2, <2>2, <3>1
    <2> QED BY <2>4, <2>7, <2>9, <2>10, <2>11, <2>12
  <1> QED BY <1>3, <1>4

(* IsPrefix, character by character. *)
LEMMA PrefixSame ==
  ASSUME NEW q \in Texts, NEW s \in Texts
  PROVE  IsPrefix(q, s) <=> Len(q) <= Len(s) /\ Same(s, q, Len(q))
  <1>1. Len(q) \in Nat /\ Len(s) \in Nat BY CharsAreNumbers
  <1>2. ASSUME Len(q) <= Len(s)
        PROVE  SubSeq(q, 1, Len(q)) = SubSeq(s, 1, Len(q)) <=> Same(s, q, Len(q))
    BY <1>1, <1>2, SameSub DEF Same
  <1> QED BY <1>1, <1>2 DEF IsPrefix

(* query.rs, prefix_upper_bound and the range scan of search_prefix: for     *)
(* strings of any length and any characters, the range from the query to its *)
(* upper bound holds exactly the strings that begin with the query.          *)
THEOREM RangeHoldsPrefixes ==
  ASSUME NEW q \in Seq(Chars), NEW s \in Seq(Chars), q # <<>>
  PROVE  InRange(q, s) <=> IsPrefix(q, s)
  <1>0. q \in Texts /\ s \in Texts BY DEF Texts
  <1>1. /\ Len(s) \in Nat /\ \A j \in 1..Len(s) : s[j] \in Chars /\ s[j] \in Nat /\ s[j] <= LastChar
        /\ Len(q) \in Nat /\ \A j \in 1..Len(q) : q[j] \in Chars /\ q[j] \in Nat
    BY <1>0, CharsAreNumbers
  <1>2. CASE PrefixUpperBound(q) = <<>>
    <2>1. SubSeq(s, 1, IF Len(q) < Len(s) THEN Len(q) ELSE Len(s)) = q
            <=> Len(q) <= Len(s) /\ Same(s, q, Len(q))
      <3>1. CASE Len(q) <= Len(s)
        <4>1. (IF Len(q) < Len(s) THEN Len(q) ELSE Len(s)) = Len(q) BY <1>1, <3>1
        <4>2. SubSeq(q, 1, Len(q)) = q OBVIOUS
        <4>3. SubSeq(s, 1, Len(q)) = SubSeq(q, 1, Len(q)) <=> Same(s, q, Len(q))
          BY <1>0, <1>1, <3>1, SameSub
        <4> QED BY <3>1, <4>1, <4>2, <4>3
      <3>2. CASE ~(Len(q) <= Len(s))
        <4>1. Len(SubSeq(s, 1, Len(s))) = Len(s) BY <1>1
        <4>2. (IF Len(q) < Len(s) THEN Len(q) ELSE Len(s)) = Len(s) BY <1>1, <3>2
        <4> QED BY <1>1, <3>2, <4>1, <4>2
      <3> QED BY <3>1, <3>2
    <2> QED BY <1>0, <1>2, <2>1, PrefixSame, PrefixIsNotLess DEF InRange
  <1>3. ASSUME PrefixUpperBound(q) # <<>>, IsPrefix(q, s)
        PROVE  InRange(q, s)
    <2>1. Len(q) <= Len(s) /\ Same(s, q, Len(q)) BY <1>0, <1>3, PrefixSame
    <2>2. ~Less(s, q) BY <1>0, <2>1, PrefixIsNotLess
    <2>3. PICK u : u = PrefixUpperBound(q) OBVIOUS
    <2>4. PICK i \in 1..Len(q) :
            /\ u \in Texts /\ Len(u) = i /\ q[i] # LastChar /\ u[i] = NextChar(q[i])
            /\ \A j \in 1..(i - 1) : u[j] = q[j]
      BY <1>0, <1>3, <2>3, UpperBoundIs
    <2>5. i - 1 \in 0..Len(s) /\ i - 1 < Len(u) /\ (i - 1) + 1 = i BY <1>1, <2>1, <2>4
    <2>6. Same(s, u, i - 1)
      <3> SUFFICES ASSUME NEW j \in 1..(i - 1) PROVE s[j] = u[j]
        BY DEF Same
      <3>1. j \in 1..Len(q) BY <1>1
      <3>2. s[j] = q[j] BY <2>1, <3>1 DEF Same
      <3> QED BY <2>4, <3>2
    <2>7. s[i] < u[i]
      <3>1. s[i] = q[i] BY <2>1 DEF Same
      <3>2. q[i] \in Chars /\ q[i] # LastChar BY <1>1, <2>4
      <3>3. q[i] < NextChar(q[i]) BY <3>2, NextCharIs
      <3> QED BY <2>4, <3>1, <3>3
    <2>8. Ahead(s, u, i - 1) BY <2>5, <2>6, <2>7 DEF Ahead
    <2>9. Less(s, u) BY <1>0, <2>4, <2>5, <2>8, LessAhead
    <2> QED BY <1>3, <2>2, <2>3, <2>9 DEF InRange
  <1>4. ASSUME PrefixUpperBound(q) # <<>>, InRange(q, s), ~IsPrefix(q, s)
        PROVE  FALSE
    <2>1. PICK u : u = PrefixUpperBound(q) OBVIOUS
    <2>2. ~Less(s, q) /\ Less(s, u) BY <1>4, <2>1 DEF InRange
    <2>3. PICK i \in 1..Len(q) :
            /\ u \in Texts /\ Len(u) = i /\ q[i] # LastChar /\ u[i] = NextChar(q[i])
            /\ \A j \in 1..(i - 1) : u[j] = q[j]
            /\ \A j \in (i + 1)..Len(q) : q[j] = LastChar
      BY <1>0, <1>4, <2>1, UpperBoundIs
    <2>4. PICK m \in 0..Len(s) : Ahead(s, u, m) BY <1>0, <2>2, <2>3, LessAhead
    <2>5. PICK n \in 0..Len(s) :
            n < Len(q) /\ Same(s, q, n) /\ (n < Len(s) => s[n + 1] # q[n + 1])
      BY <1>0, <1>4, PrefixSame, FirstDifference
    <2>6. i \in Nat /\ m \in Nat /\ n \in Nat /\ m < i BY <1>1, <2>3, <2>4 DEF Ahead
    <2>7. n < Len(s) /\ q[n + 1] < s[n + 1]
      <3> SUFFICES ASSUME n < Len(s) => s[n + 1] < q[n + 1] PROVE FALSE
        <4>1. ASSUME n < Len(s) PROVE s[n + 1] \in Nat /\ q[n + 1] \in Nat
          <5>1. n + 1 \in 1..Len(s) /\ n + 1 \in 1..Len(q) BY <1>1, <2>5, <2>6, <4>1
          <5> QED BY <1>1, <5>1
        <4> QED BY <2>5, <4>1
      <3>1. Ahead(s, q, n) BY <2>5 DEF Ahead
      <3> QED BY <1>0, <2>2, <3>1, LessAhead
    <2>8. n + 1 \in 1..Len(s) /\ n + 1 \in 1..Len(q) BY <1>1, <2>5, <2>6, <2>7
    <2>9. n + 1 <= i
      <3> SUFFICES ASSUME i < n + 1 PROVE FALSE
        BY <2>6
      <3>1. n + 1 \in (i + 1)..Len(q) BY <1>1, <2>6, <2>8
      <3>2. q[n + 1] = LastChar BY <2>3, <3>1
      <3>3. s[n + 1] \in Nat /\ s[n + 1] <= LastChar BY <1>1, <2>8
      <3> QED BY <2>7, <3>2, <3>3, RankingAssumption
    <2>10. s[n + 1] < u[n + 1] \/ (n < m /\ s[n + 1] = u[n + 1])
      <3>1. CASE m < n
        <4>1. m + 1 \in 1..n /\ m + 1 \in 1..(i - 1) /\ m < Len(s) BY <1>1, <2>6, <2>7, <2>9, <3>1
        <4>2. s[m + 1] = q[m + 1] /\ u[m + 1] = q[m + 1] BY <2>3, <2>5, <4>1 DEF Same
        <4>3. s[m + 1] < u[m + 1] BY <2>4, <4>1 DEF Ahead
        <4>4. m + 1 \in 1..Len(s) BY <1>1, <2>6, <4>1
        <4>5. s[m + 1] \in Nat BY <1>1, <4>4
        <4> QED BY <4>2, <4>3, <4>5
      <3>2. CASE m = n BY <2>4, <2>7, <3>2 DEF Ahead
      <3>3. CASE n < m
        <4>1. n + 1 \in 1..m BY <2>6, <3>3
        <4> QED BY <2>4, <3>3, <4>1 DEF Ahead, Same
      <3> QED BY <2>6, <3>1, <3>2, <3>3
    <2>11. s[n + 1] \in Chars /\ s[n + 1] \in Nat /\ q[n + 1] \in Chars /\ q[n + 1] \in Nat
      BY <1>1, <2>8
    <2>12. CASE n + 1 < i
      <3>1. n + 1 \in 1..(i - 1) BY <2>6, <2>12
      <3>2. u[n + 1] = q[n + 1] BY <2>3, <3>1
      <3> QED BY <2>7, <2>10, <2>11, <3>2
    <2>13. CASE n + 1 = i
      <3>1. u[i] = NextChar(q[i]) /\ q[i] # LastChar BY <2>3
      <3>2. /\ NextChar(q[i]) \in Chars
            /\ \A d \in Chars : d < NextChar(q[i]) => d <= q[i]
        BY <2>11, <2>13, <3>1, NextCharIs
      <3>3. s[i] < u[i] BY <2>6, <2>10, <2>13
      <3>4. s[i] <= q[i] BY <2>11, <2>13, <3>1, <3>2, <3>3
      <3> QED BY <2>7, <2>11, <2>13, <3>4
    <2> QED BY <2>6, <2>9, <2>12, <2>13
  <1> QED BY <1>2, <1>3, <1>4

-----------------------------------------------------------------------------
(* The order of entries *)

(* A rank is a number. *)
LEMMA RankIs ==
  ASSUME NEW q, NEW e
  PROVE  SearchRank(q, e) \in Nat
  <1> DEFINE tiers == <<e.name = q, e.item = q, IsPrefix(q, e.name), IsPrefix(q, e.item),
                        Within(q, e.name), Within(q, e.item)>>
             J == {j \in DOMAIN tiers : tiers[j]}
             S == {i - 1 : i \in J} \cup {Len(tiers)}
  <1>1. DOMAIN tiers = 1..6 /\ Len(tiers) = 6 OBVIOUS
  <1>2. \A j \in J : j \in 1..6 /\ j - 1 \in Nat BY <1>1
  <1> HIDE DEF J
  <1>3. S \in SUBSET Nat /\ S # {} BY <1>1, <1>2
  <1>4. SearchRank(q, e) = Min(S) BY DEF SearchRank, J
  <1> HIDE DEF S, tiers
  <1>5. \E x \in S : \A y \in S : x <= y BY <1>3, LeastOf
  <1>6. Min(S) \in S BY <1>5 DEF Min
  <1> QED BY <1>3, <1>4, <1>6

(* Entries are ordered by item id, those of one name. *)
LEMMA ByItemIsOrder ==
  /\ \A e \in EntrySet : ~ByItem(e, e)
  /\ \A e, f, g \in EntrySet : ByItem(e, f) /\ ByItem(f, g) => ByItem(e, g)
  /\ \A e, f \in EntrySet : e.id = f.id \/ ByItem(e, f) \/ ByItem(f, e)
  <1>1. \A e \in EntrySet : e.item \in Texts /\ e.id \in Nat BY DEF EntrySet
  <1>2. ASSUME NEW e \in EntrySet PROVE ~ByItem(e, e)
    BY <1>1, LessIsOrder DEF ByItem
  <1>3. ASSUME NEW e \in EntrySet, NEW f \in EntrySet, NEW g \in EntrySet,
               ByItem(e, f), ByItem(f, g)
        PROVE  ByItem(e, g)
    <2>1. Less(e.item, f.item) /\ Less(f.item, g.item) => Less(e.item, g.item)
      BY <1>1, LessIsOrder
    <2>2. e.id < f.id /\ f.id < g.id => e.id < g.id BY <1>1
    <2> QED BY <1>3, <2>1, <2>2 DEF ByItem
  <1>4. ASSUME NEW e \in EntrySet, NEW f \in EntrySet, e.id # f.id
        PROVE  ByItem(e, f) \/ ByItem(f, e)
    <2>1. e.item = f.item \/ Less(e.item, f.item) \/ Less(f.item, e.item)
      BY <1>1, LessIsOrder
    <2>2. e.id < f.id \/ f.id < e.id BY <1>1, <1>4
    <2> QED BY <2>1, <2>2 DEF ByItem
  <1> QED BY <1>2, <1>3, <1>4

(* Entries are ordered by the length of the name, the name and the item id. *)
LEMMA ByNameIsOrder ==
  /\ \A e \in EntrySet : ~ByName(e, e)
  /\ \A e, f, g \in EntrySet : ByName(e, f) /\ ByName(f, g) => ByName(e, g)
  /\ \A e, f \in EntrySet : e.id = f.id \/ ByName(e, f) \/ ByName(f, e)
  <1>1. \A e \in EntrySet : e.name \in Texts BY DEF EntrySet
  <1>2. \A e \in EntrySet : Len(e.name) \in Nat BY <1>1, CharsAreNumbers
  <1>3. ASSUME NEW e \in EntrySet PROVE ~ByName(e, e)
    <2>1. ~Less(e.name, e.name) BY <1>1, LessIsOrder
    <2>2. ~ByItem(e, e) BY ByItemIsOrder
    <2>3. ~(Len(e.name) < Len(e.name)) BY <1>2
    <2> QED BY <2>1, <2>2, <2>3 DEF ByName
  <1>4. ASSUME NEW e \in EntrySet, NEW f \in EntrySet, NEW g \in EntrySet,
               ByName(e, f), ByName(f, g)
        PROVE  ByName(e, g)
    <2>1. Less(e.name, f.name) /\ Less(f.name, g.name) => Less(e.name, g.name)
      BY <1>1, LessIsOrder
    <2>2. ByItem(e, f) /\ ByItem(f, g) => ByItem(e, g) BY ByItemIsOrder
    <2>3. Len(e.name) \in Nat /\ Len(f.name) \in Nat /\ Len(g.name) \in Nat BY <1>2
    <2>4. CASE Len(e.name) < Len(f.name) \/ Len(f.name) < Len(g.name)
      <3>1. Len(e.name) <= Len(f.name) /\ Len(f.name) <= Len(g.name)
        BY <1>4, <2>3 DEF ByName
      <3>2. Len(e.name) < Len(g.name) BY <2>3, <2>4, <3>1
      <3> QED BY <3>2 DEF ByName
    <2>5. CASE ~(Len(e.name) < Len(f.name) \/ Len(f.name) < Len(g.name))
      <3>1. /\ Less(e.name, f.name) \/ (e.name = f.name /\ ByItem(e, f))
            /\ Less(f.name, g.name) \/ (f.name = g.name /\ ByItem(f, g))
        BY <1>4, <2>5 DEF ByName
      <3>2. Len(e.name) = Len(f.name) /\ Len(f.name) = Len(g.name)
        BY <1>4, <2>3, <2>5 DEF ByName
      <3> QED BY <2>1, <2>2, <3>1, <3>2 DEF ByName
    <2> QED BY <2>4, <2>5
  <1>5. ASSUME NEW e \in EntrySet, NEW f \in EntrySet, e.id # f.id
        PROVE  ByName(e, f) \/ ByName(f, e)
    <2>1. e.name = f.name \/ Less(e.name, f.name) \/ Less(f.name, e.name)
      BY <1>1, LessIsOrder
    <2>2. ByItem(e, f) \/ ByItem(f, e) BY <1>5, ByItemIsOrder
    <2>3. Len(e.name) < Len(f.name) \/ Len(f.name) < Len(e.name) \/ Len(e.name) = Len(f.name)
      BY <1>2
    <2> QED BY <2>1, <2>2, <2>3 DEF ByName
  <1> QED BY <1>3, <1>4, <1>5

(* Entries are ordered by rank, then by name. *)
LEMMA BeforeIsOrder ==
  ASSUME NEW q
  PROVE  /\ \A e \in EntrySet : ~Before(q, e, e)
         /\ \A e, f, g \in EntrySet : Before(q, e, f) /\ Before(q, f, g) => Before(q, e, g)
         /\ \A e, f \in EntrySet : e.id = f.id \/ Before(q, e, f) \/ Before(q, f, e)
  <1>1. ASSUME NEW e \in EntrySet PROVE ~Before(q, e, e)
    BY RankIs, ByNameIsOrder DEF Before
  <1>2. ASSUME NEW e \in EntrySet, NEW f \in EntrySet, NEW g \in EntrySet,
               Before(q, e, f), Before(q, f, g)
        PROVE  Before(q, e, g)
    <2>1. SearchRank(q, e) \in Nat /\ SearchRank(q, f) \in Nat /\ SearchRank(q, g) \in Nat
      BY RankIs
    <2>2. ByName(e, f) /\ ByName(f, g) => ByName(e, g) BY ByNameIsOrder
    <2> QED BY <1>2, <2>1, <2>2 DEF Before
  <1>3. ASSUME NEW e \in EntrySet, NEW f \in EntrySet, e.id # f.id
        PROVE  Before(q, e, f) \/ Before(q, f, e)
    <2>1. SearchRank(q, e) \in Nat /\ SearchRank(q, f) \in Nat BY RankIs
    <2>2. ByName(e, f) \/ ByName(f, e) BY <1>3, ByNameIsOrder
    <2> QED BY <2>1, <2>2 DEF Before
  <1> QED BY <1>1, <1>2, <1>3

-----------------------------------------------------------------------------
(* The best of a set *)

(* Rows of one generation: finitely many, told apart by their id. *)
Keyed(S) ==
  IsFiniteSet(S) /\ S \subseteq EntrySet /\ \A e, f \in S : e.id = f.id => e = f

(* H holds the n best entries of S, or all of S if there are no more. *)
Top(q, H, S, n) ==
  /\ H \subseteq S /\ Cardinality(H) <= n /\ (H # S => Cardinality(H) = n)
  /\ \A h \in H, f \in S \ H : Before(q, h, f)

(* On the rows of a generation the order is total. *)
LEMMA KeyedOrder ==
  ASSUME NEW q, NEW S, Keyed(S)
  PROVE  /\ \A e \in S : ~Before(q, e, e)
         /\ \A e, f, g \in S : Before(q, e, f) /\ Before(q, f, g) => Before(q, e, g)
         /\ \A e, f \in S : e # f => Before(q, e, f) \/ Before(q, f, e)
  <1>1. \A e \in S : e \in EntrySet BY DEF Keyed
  <1>2. \A e, f \in S : e # f => e.id # f.id BY DEF Keyed
  <1> QED BY <1>1, <1>2, BeforeIsOrder

(* A part of the rows. *)
LEMMA KeyedPart ==
  ASSUME NEW S, Keyed(S), NEW H \in SUBSET S
  PROVE  Keyed(H) /\ IsFiniteSet(H) /\ Cardinality(H) \in Nat /\ Cardinality(H) <= Cardinality(S)
  <1>1. IsFiniteSet(S) BY DEF Keyed
  <1>2. IsFiniteSet(H) /\ Cardinality(H) <= Cardinality(S) BY <1>1, FS_Subset
  <1>3. Cardinality(H) \in Nat BY <1>2, FS_CardinalityType
  <1> QED BY <1>2, <1>3 DEF Keyed

(* The top of the heap is its worst entry: the one with most before it. *)
LEMMA WorstIs ==
  ASSUME NEW q, NEW H, Keyed(H), H # {}
  PROVE  Worst(q, H) \in H /\ \A f \in H \ {Worst(q, H)} : Before(q, f, Worst(q, H))
  <1> DEFINE P(e) == {f \in H : Before(q, f, e)}
             N == {k \in Nat : \E e \in H : k = Cardinality(P(e))}
  <1>0. IsFiniteSet(H) /\ Cardinality(H) \in Nat BY KeyedPart
  <1>1. ASSUME NEW e \in H
        PROVE  /\ IsFiniteSet(P(e)) /\ Cardinality(P(e)) \in Nat
               /\ Cardinality(P(e)) <= Cardinality(H)
    <2>1. P(e) \in SUBSET H OBVIOUS
    <2> HIDE DEF P
    <2> QED BY <2>1, KeyedPart
  <1>2. N \in SUBSET (0..Cardinality(H)) /\ N # {}
    <2>1. \A e \in H : Cardinality(P(e)) \in N BY <1>1
    <2>2. \A k \in N : k \in Nat /\ k <= Cardinality(H) BY <1>1
    <2> HIDE DEF N
    <2>3. PICK e \in H : TRUE OBVIOUS
    <2>4. \A k \in N : k \in 0..Cardinality(H) BY <1>0, <2>2
    <2>5. Cardinality(P(e)) \in N BY <2>1
    <2> QED BY <2>4, <2>5
  <1>3. PICK k \in N : \A m \in N : m <= k
    <2> HIDE DEF N
    <2> QED BY <1>0, <1>2, GreatestOf
  <1>4. PICK e \in H : k = Cardinality(P(e)) OBVIOUS
  <1>5. ASSUME NEW f \in H \ {e} PROVE Before(q, f, e)
    <2> SUFFICES ASSUME ~Before(q, f, e) PROVE FALSE
      OBVIOUS
    <2>1. Before(q, e, f) BY KeyedOrder
    <2>2. P(e) \cup {e} \in SUBSET P(f) BY <2>1, KeyedOrder
    <2>3. e \notin P(e) BY KeyedOrder
    <2>4. /\ IsFiniteSet(P(e)) /\ IsFiniteSet(P(f))
          /\ Cardinality(P(e)) \in Nat /\ Cardinality(P(f)) \in Nat BY <1>1
    <2>5. Cardinality(P(f)) \in N BY <2>4
    <2>6. Cardinality(P(f)) <= Cardinality(P(e)) BY <1>3, <1>4, <2>5
    <2> HIDE DEF P
    <2>7. Cardinality(P(e) \cup {e}) = Cardinality(P(e)) + 1 BY <2>3, <2>4, FS_AddElement
    <2>8. Cardinality(P(e) \cup {e}) <= Cardinality(P(f)) BY <2>2, <2>4, FS_Subset
    <2> QED BY <2>4, <2>6, <2>7, <2>8
  <1> QED BY <1>5 DEF Worst

(* One more row of the scan. *)
LEMMA PushKeepsTop ==
  ASSUME NEW q, NEW limit \in Nat, NEW S, NEW e, Keyed(S \cup {e}), e \notin S,
         NEW H, Top(q, H, S, limit + 1)
  PROVE  Top(q, Push(q, H, e, limit), S \cup {e}, limit + 1)
  <1>0. H \in SUBSET S /\ H \in SUBSET (S \cup {e}) /\ e \notin H BY DEF Top
  <1>1. IsFiniteSet(H) /\ Cardinality(H) \in Nat /\ Keyed(H) BY <1>0, KeyedPart
  <1>2. CASE Cardinality(H) <= limit
    <2>1. H = S BY <1>1, <1>2 DEF Top
    <2>2. Push(q, H, e, limit) = S \cup {e} BY <1>2, <2>1 DEF Push
    <2>3. Cardinality(S \cup {e}) = Cardinality(H) + 1 BY <1>0, <1>1, <2>1, FS_AddElement
    <2>4. Cardinality(S \cup {e}) <= limit + 1 BY <1>1, <1>2, <2>3
    <2> QED BY <2>2, <2>4 DEF Top
  <1>3. CASE ~(Cardinality(H) <= limit)
    <2>1. Cardinality(H) = limit + 1 BY <1>1, <1>3 DEF Top
    <2>2. H # {} BY <1>3, FS_EmptySet
    <2>3. PICK w : w = Worst(q, H) OBVIOUS
    <2>4. w \in H /\ \A f \in H \ {w} : Before(q, f, w) BY <1>1, <2>2, <2>3, WorstIs
    <2>5. \A h \in H, f \in S \ H : Before(q, h, f) BY DEF Top
    <2>6. \A x, y, z \in S \cup {e} : Before(q, x, y) /\ Before(q, y, z) => Before(q, x, z)
      BY KeyedOrder
    <2>7. CASE Before(q, e, w)
      <3>1. PICK K : K = (H \ {w}) \cup {e} OBVIOUS
      <3>2. Push(q, H, e, limit) = K BY <1>3, <2>3, <2>7, <3>1 DEF Push
      <3>3. Cardinality(K) = limit + 1
        <4>1. IsFiniteSet(H \ {w}) /\ Cardinality(H \ {w}) = limit
          BY <1>1, <2>1, <2>4, FS_RemoveElement
        <4>2. e \notin H \ {w} BY <1>0
        <4> QED BY <3>1, <4>1, <4>2, FS_AddElement
      <3>4. K \subseteq S \cup {e} BY <1>0, <3>1
      <3>5. ASSUME NEW h \in K, NEW f \in (S \cup {e}) \ K PROVE Before(q, h, f)
        <4>1. f = w \/ f \in S \ H BY <3>1
        <4>2. h = e \/ h \in H \ {w} BY <3>1
        <4>3. Before(q, h, w) BY <2>4, <2>7, <4>2
        <4>4. CASE f = w BY <4>3, <4>4
        <4>5. CASE f \in S \ H
          <5>1. Before(q, w, f) BY <2>4, <2>5, <4>5
          <5>2. h \in S \cup {e} /\ w \in S \cup {e} BY <1>0, <2>4, <3>4
          <5> QED BY <2>6, <4>3, <5>1, <5>2
        <4> QED BY <4>1, <4>4, <4>5
      <3> QED BY <3>2, <3>3, <3>4, <3>5 DEF Top
    <2>8. CASE ~Before(q, e, w)
      <3>1. Push(q, H, e, limit) = H BY <1>3, <2>3, <2>8 DEF Push
      <3>2. Before(q, w, e)
        <4>1. w \in S \cup {e} /\ w # e BY <1>0, <2>4
        <4> QED BY <2>8, <4>1, KeyedOrder
      <3>3. ASSUME NEW h \in H PROVE Before(q, h, e)
        <4>1. CASE h = w BY <3>2, <4>1
        <4>2. CASE h # w
          <5>1. Before(q, h, w) BY <2>4, <4>2
          <5>2. h \in S \cup {e} /\ w \in S \cup {e} BY <1>0, <2>4
          <5> QED BY <2>6, <3>2, <5>1, <5>2
        <4> QED BY <4>1, <4>2
      <3>4. \A h \in H, f \in (S \cup {e}) \ H : Before(q, h, f) BY <2>5, <3>3
      <3> QED BY <1>0, <2>1, <3>1, <3>4 DEF Top
    <2> QED BY <2>7, <2>8
  <1> QED BY <1>2, <1>3

(* The equation Heap recurs by. *)
HeapStep(q, scan, limit, f, i) ==
  IF i = 0 THEN {} ELSE Push(q, f[i - 1], scan[i], limit)

(* Induction, from the least number that is not in S. *)
LEMMA NatInduct ==
  ASSUME NEW S, 0 \in S, \A n \in Nat : n \in S => n + 1 \in S
  PROVE  \A n \in Nat : n \in S
  <1> DEFINE B == Nat \ S
  <1> SUFFICES ASSUME B # {} PROVE FALSE
    OBVIOUS
  <1>1. B \in SUBSET Nat /\ \A x \in Nat : x \in B <=> x \notin S OBVIOUS
  <1> HIDE DEF B
  <1>2. PICK n \in B : \A m \in B : n <= m BY <1>1, LeastOf
  <1>3. n \in Nat /\ n # 0 /\ n \notin S BY <1>1
  <1>4. n - 1 \in Nat /\ ~(n <= n - 1) /\ (n - 1) + 1 = n BY <1>3
  <1>5. n - 1 \in S BY <1>1, <1>2, <1>4
  <1> QED BY <1>3, <1>4, <1>5

(* The recursion of Heap has a solution, built up one row at a time. *)
LEMMA HeapDef ==
  ASSUME NEW q, NEW scan, NEW limit, Len(scan) \in Nat
  PROVE  \E f : /\ f = [i \in 0..Len(scan) |-> HeapStep(q, scan, limit, f, i)]
                /\ Heap(q, scan, limit) = f[Len(scan)]
  <1> DEFINE Q(n) == \E f : f = [i \in 0..n |-> HeapStep(q, scan, limit, f, i)]
             S == {n \in Nat : Q(n)}
  <1>1. Q(0)
    <2> DEFINE f == [i \in 0..0 |-> {}]
    <2>1. f = [i \in 0..0 |-> HeapStep(q, scan, limit, f, i)] BY DEF HeapStep
    <2> QED BY <2>1
  <1>2. ASSUME NEW n \in Nat, Q(n) PROVE Q(n + 1)
    <2>1. PICK f : f = [i \in 0..n |-> HeapStep(q, scan, limit, f, i)] BY <1>2
    <2> DEFINE g == [i \in 0..n+1 |-> IF i <= n THEN f[i] ELSE HeapStep(q, scan, limit, f, i)]
    <2>2. ASSUME NEW i \in 0..n+1 PROVE g[i] = HeapStep(q, scan, limit, g, i)
      <3>1. CASE i = 0 BY <3>1, <2>1 DEF HeapStep
      <3>2. CASE i # 0
        <4>1. i - 1 \in 0..n /\ g[i - 1] = f[i - 1] BY <3>2
        <4>2. g[i] = HeapStep(q, scan, limit, f, i) BY <2>1
        <4> QED BY <4>1, <4>2 DEF HeapStep
      <3> QED BY <3>1, <3>2
    <2>3. g = [i \in 0..n+1 |-> HeapStep(q, scan, limit, g, i)]
      BY <2>2
    <2> QED BY <2>3
  <1>3. \A n \in Nat : Q(n)
    <2>1. 0 \in S BY <1>1
    <2>2. \A n \in Nat : n \in S => n + 1 \in S BY <1>2
    <2>3. \A n \in Nat : n \in S
      <3> HIDE DEF S
      <3> QED BY <2>1, <2>2, NatInduct
    <2> QED BY <2>3
  <1>4. Q(Len(scan)) BY <1>3
  <1> QED BY <1>4 DEF Heap, HeapStep

(* Whether there are more than the limit can be seen from the best. *)
LEMMA TopTellsMore ==
  ASSUME NEW q, NEW limit \in Nat, NEW S, Keyed(S), NEW H, Top(q, H, S, limit + 1)
  PROVE  Cardinality(H) > limit <=> Cardinality(S) > limit
  <1>1. H \in SUBSET S BY DEF Top
  <1>2. /\ Cardinality(H) \in Nat /\ Cardinality(H) <= Cardinality(S)
        /\ Cardinality(S) \in Nat
    BY <1>1, KeyedPart
  <1>3. H = S \/ Cardinality(H) = limit + 1 BY DEF Top
  <1> QED BY <1>2, <1>3

(* query.rs, search_full_text: in whichever order the scan returns the rows, *)
(* however many there are, and whatever the limit, the bounded heap ends     *)
(* with the limit + 1 best of them, so that has_more is right too.           *)
THEOREM HeapHoldsBest ==
  ASSUME NEW q, NEW limit \in Nat, NEW scan \in Seq(EntrySet),
         \A i, j \in 1..Len(scan) : scan[i].id = scan[j].id => i = j
  PROVE  /\ Top(q, Heap(q, scan, limit), ToSet(scan), limit + 1)
         /\ Cardinality(Heap(q, scan, limit)) > limit <=> Cardinality(ToSet(scan)) > limit
  <1>0. /\ Len(scan) \in Nat /\ DOMAIN scan = 1..Len(scan)
        /\ \A i \in 1..Len(scan) : scan[i] \in EntrySet
    OBVIOUS
  <1>1. PICK f : /\ f = [i \in 0..Len(scan) |-> HeapStep(q, scan, limit, f, i)]
                 /\ Heap(q, scan, limit) = f[Len(scan)]
    BY <1>0, HeapDef
  <1> DEFINE Rs(n) == {scan[i] : i \in 1..n}
             P(n) == n <= Len(scan) => Keyed(Rs(n)) /\ Top(q, f[n], Rs(n), limit + 1)
             S == {n \in Nat : P(n)}
  <1>2. P(0)
    <2>1. f[0] = {} /\ Rs(0) = {} BY <1>0, <1>1 DEF HeapStep
    <2> HIDE DEF Rs
    <2>2. Keyed({}) BY FS_EmptySet DEF Keyed
    <2>3. Top(q, {}, {}, limit + 1) BY FS_EmptySet DEF Top
    <2> QED BY <2>1, <2>2, <2>3
  <1>3. ASSUME NEW n \in Nat, P(n) PROVE P(n + 1)
    <2> SUFFICES ASSUME n + 1 <= Len(scan)
                 PROVE  Keyed(Rs(n + 1)) /\ Top(q, f[n + 1], Rs(n + 1), limit + 1)
      OBVIOUS
    <2>1. Keyed(Rs(n)) /\ Top(q, f[n], Rs(n), limit + 1) BY <1>0, <1>3
    <2>2. n + 1 \in 1..Len(scan) /\ \A i \in 1..n : i \in 1..Len(scan) /\ i # n + 1 BY <1>0
    <2>3. PICK e : e = scan[n + 1] OBVIOUS
    <2>4. Rs(n + 1) = Rs(n) \cup {e}
      <3>1. 1..(n + 1) = (1..n) \cup {n + 1} OBVIOUS
      <3> QED BY <2>3, <3>1
    <2>5. e \in EntrySet /\ \A g \in Rs(n) : g.id # e.id BY <1>0, <2>2, <2>3
    <2> HIDE DEF Rs
    <2>6. e \notin Rs(n) BY <2>5
    <2>7. Keyed(Rs(n) \cup {e})
      <3>1. IsFiniteSet(Rs(n) \cup {e}) BY <2>1, FS_AddElement DEF Keyed
      <3> QED BY <2>1, <2>5, <3>1 DEF Keyed
    <2>8. f[n + 1] = Push(q, f[n], e, limit)
      <3>1. n + 1 \in 0..Len(scan) /\ n + 1 # 0 /\ (n + 1) - 1 = n BY <1>0
      <3>2. f[n + 1] = HeapStep(q, scan, limit, f, n + 1) BY <1>1, <3>1
      <3> QED BY <2>3, <3>1, <3>2 DEF HeapStep
    <2>9. Top(q, Push(q, f[n], e, limit), Rs(n) \cup {e}, limit + 1)
      BY <2>1, <2>6, <2>7, PushKeepsTop
    <2> QED BY <2>4, <2>7, <2>8, <2>9
  <1>4. \A n \in Nat : P(n)
    <2> HIDE DEF P
    <2>1. 0 \in S BY <1>2
    <2>2. \A n \in Nat : n \in S => n + 1 \in S BY <1>3
    <2>3. \A n \in Nat : n \in S
      <3> HIDE DEF S
      <3> QED BY <2>1, <2>2, NatInduct
    <2> QED BY <2>3
  <1>5. Keyed(Rs(Len(scan))) /\ Top(q, f[Len(scan)], Rs(Len(scan)), limit + 1)
    <2>1. P(Len(scan)) BY <1>0, <1>4
    <2> HIDE DEF Rs
    <2> QED BY <1>0, <2>1
  <1>6. Rs(Len(scan)) = ToSet(scan) BY <1>0 DEF ToSet
  <1> HIDE DEF Rs
  <1>7. Keyed(ToSet(scan)) /\ Top(q, Heap(q, scan, limit), ToSet(scan), limit + 1)
    BY <1>1, <1>5, <1>6
  <1> QED BY <1>7, TopTellsMore

(* Two sets cut to their best, and cut again once merged: nothing is lost.   *)
LEMMA MergeKeepsTop ==
  ASSUME NEW q, NEW limit \in Nat, NEW A, NEW B, Keyed(A \cup B),
         NEW H, Top(q, H, A, limit + 1), NEW K, Top(q, K, B, limit + 1),
         NEW M, Top(q, M, H \cup K, limit + 1)
  PROVE  /\ Top(q, M, A \cup B, limit + 1)
         /\ Cardinality(M) > limit <=> Cardinality(A \cup B) > limit
  <1>0. /\ H \in SUBSET A /\ K \in SUBSET B /\ M \in SUBSET (H \cup K)
        /\ H \in SUBSET (A \cup B) /\ K \in SUBSET (A \cup B) /\ M \in SUBSET (A \cup B)
    BY DEF Top
  <1>1. /\ IsFiniteSet(H) /\ Cardinality(H) \in Nat
        /\ IsFiniteSet(K) /\ Cardinality(K) \in Nat
        /\ IsFiniteSet(M) /\ Cardinality(M) \in Nat
    BY <1>0, KeyedPart
  <1>2. Cardinality(M) <= limit + 1 BY DEF Top
  <1>3. ASSUME M # A \cup B PROVE Cardinality(M) = limit + 1
    <2>1. CASE M # H \cup K BY <2>1 DEF Top
    <2>2. CASE M = H \cup K
      <3>1. H # A \/ K # B BY <1>3, <2>2
      <3>2. Cardinality(H) = limit + 1 \/ Cardinality(K) = limit + 1 BY <3>1 DEF Top
      <3>3. H \in SUBSET M /\ K \in SUBSET M BY <2>2
      <3>4. Cardinality(H) <= Cardinality(M) /\ Cardinality(K) <= Cardinality(M)
        BY <1>1, <3>3, FS_Subset
      <3> QED BY <1>1, <1>2, <3>2, <3>4
    <2> QED BY <2>1, <2>2
  <1>4. \A h \in M, f \in (H \cup K) \ M : Before(q, h, f) BY DEF Top
  <1>5. \A x, y, z \in A \cup B : Before(q, x, y) /\ Before(q, y, z) => Before(q, x, z)
    BY KeyedOrder
  <1>6. ASSUME NEW C, NEW L, Top(q, L, C, limit + 1), L \in SUBSET (H \cup K),
               C \in SUBSET (A \cup B), NEW h \in M, NEW f \in C \ L, f \notin H \cup K
        PROVE  Before(q, h, f)
    <2>1. Cardinality(L) = limit + 1 /\ \A g \in L : Before(q, g, f) BY <1>6 DEF Top
    <2>2. CASE h \in L BY <2>1, <2>2
    <2>3. CASE h \notin L
      <3>1. PICK g \in L : g \notin M
        <4> SUFFICES ASSUME L \in SUBSET M PROVE FALSE
          OBVIOUS
        <4>1. Cardinality(L) <= Cardinality(M) /\ (Cardinality(M) = Cardinality(L) => M = L)
          BY <1>1, FS_Subset
        <4> QED BY <1>1, <1>2, <2>1, <2>3, <4>1
      <3>2. Before(q, h, g) BY <1>4, <1>6, <3>1
      <3>3. h \in A \cup B /\ g \in A \cup B /\ f \in A \cup B BY <1>0, <1>6
      <3> QED BY <1>5, <2>1, <3>1, <3>2, <3>3
    <2> QED BY <2>2, <2>3
  <1>7. ASSUME NEW h \in M, NEW f \in (A \cup B) \ M PROVE Before(q, h, f)
    <2>1. CASE f \in H \cup K BY <1>4, <2>1
    <2>2. CASE f \in A \ (H \cup K)
      <3>1. H \in SUBSET (H \cup K) /\ A \in SUBSET (A \cup B) /\ f \in A \ H BY <2>2
      <3> QED BY <1>6, <2>2, <3>1
    <2>3. CASE f \in B \ (H \cup K)
      <3>1. K \in SUBSET (H \cup K) /\ B \in SUBSET (A \cup B) /\ f \in B \ K BY <2>3
      <3> QED BY <1>6, <2>3, <3>1
    <2> QED BY <2>1, <2>2, <2>3
  <1>8. Top(q, M, A \cup B, limit + 1) BY <1>0, <1>2, <1>3, <1>7 DEF Top
  <1> QED BY <1>8, TopTellsMore

(* query.rs, search_prefix: for every table, query and limit, two range scans *)
(* that are each cut at limit + 1 before they are merged and cut again yield  *)
(* the limit + 1 best of all rows whose name or item id begins with the       *)
(* query, and has_more says whether some are left out.                        *)
THEOREM PrefixAnswersAreBest ==
  ASSUME NEW q \in Seq(Chars), q # <<>>, NEW limit \in Nat, NEW table, Keyed(table),
         NEW H, Top(q, H, {e \in table : InRange(q, e.name)}, limit + 1),
         NEW K, Top(q, K, {e \in table : InRange(q, e.item)}, limit + 1),
         NEW M, Top(q, M, H \cup K, limit + 1)
  PROVE  LET matching == {e \in table : IsPrefix(q, e.name) \/ IsPrefix(q, e.item)} IN
         /\ Top(q, M, matching, limit + 1)
         /\ Cardinality(M) > limit <=> Cardinality(matching) > limit
  <1>1. PICK A, B : /\ A = {e \in table : InRange(q, e.name)}
                    /\ B = {e \in table : InRange(q, e.item)}
    OBVIOUS
  <1>2. \A e \in table : e.name \in Seq(Chars) /\ e.item \in Seq(Chars)
    BY DEF Keyed, EntrySet, Texts
  <1>3. A \cup B = {e \in table : IsPrefix(q, e.name) \/ IsPrefix(q, e.item)}
    BY <1>1, <1>2, RangeHoldsPrefixes
  <1>4. A \cup B \in SUBSET table BY <1>1
  <1>5. Keyed(A \cup B) BY <1>4, KeyedPart
  <1>6. Top(q, H, A, limit + 1) /\ Top(q, K, B, limit + 1) BY <1>1
  <1>7. /\ Top(q, M, A \cup B, limit + 1)
        /\ Cardinality(M) > limit <=> Cardinality(A \cup B) > limit
    BY <1>5, <1>6, MergeKeepsTop
  <1> QED BY <1>3, <1>7
=============================================================================
