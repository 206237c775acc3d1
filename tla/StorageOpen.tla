----------------------------- MODULE StorageOpen -----------------------------
(***************************************************************************)
(* The index database as gateway processes open it: schema migrations,     *)
(* quarantine of a file that cannot be used, and the recovery of builds    *)
(* that a process left behind, while other processes use the same file.    *)
(*                                                                         *)
(* Code: crates/opcda-bridge-gateway/src/index/store.rs (IndexDb) and      *)
(* index/scheduler.rs (BuildFileLock).                                     *)
(*                                                                         *)
(* A statement of its own and a transaction are one step each; between two *)
(* of them another process runs or this one dies.  Generations are kept by *)
(* their states; the entries are left out, except for whether both tables  *)
(* hold some.  "cut" is a superseded generation that recovery closed while *)
(* no other process was at the database.  The -wal and -shm files are one  *)
(* log; SQLite deletes one it finds beside an empty database.              *)
(***************************************************************************)
EXTENDS Naturals, Sequences, FiniteSets

CONSTANTS
  Processes,    \* gateway processes that share the database path
  Servers,
  OldFiles,     \* databases that may be found at the first start
  MaxGens,      \* bound on the generations of a server
  MaxFiles,     \* bound on the database files ever created
  MaxFaults,    \* bound on crashes, renames and writes that fail, busy databases
  NoProcess

ASSUME StorageAssumption ==
  /\ NoProcess \notin Processes /\ MaxGens \in Nat \ {0} /\ MaxFiles \in Nat \ {0}
  /\ MaxFaults \in Nat

SCHEMA_VERSION == 4
States == {"staging", "active", "superseded", "cut", "failed"}

(* enrolled: "no", or the automatic-refresh setting; noted: last_error of    *)
(* the active generation says that a build was interrupted.                  *)
DatabaseFile ==
  [id : 1..MaxFiles, schema : Nat, column : BOOLEAN,
   health : {"ok", "inconsistent", "malformed"}, gens : [Servers -> Seq(States)],
   enrolled : [Servers -> {"no", "auto", "manual"}], noted : [Servers -> BOOLEAN]]
NoFile == [id |-> 0]

(* What is found at the first start is the first file, or nothing. *)
ASSUME OldFilesAssumption ==
  \A f \in OldFiles :
    \/ f = NoFile
    \/ /\ f \in DatabaseFile /\ f.id = 1
       /\ \A s \in Servers : Len(f.gens[s]) <= MaxGens
       /\ \A s \in Servers : \A g \in DOMAIN f.gens[s] : f.gens[s][g] # "cut"

VARIABLES
  main,      \* the database at the path
  log,       \* number of the database whose log lies beside it; 0: none
  aside,     \* kinds of the databases that were moved to a quarantine name
  files,     \* database files created so far
  lock,      \* holder of the build lock of each server
  proc,      \* each process: where it is in IndexDb::open, and its build
  faults,    \* faults so far
  left,      \* ghost: generations, by database and server, whose process died,
             \* or could not write how their build had ended
  choice     \* ghost: the last automatic-refresh setting a user made, and
             \* the database that holds it

disk == <<log, aside, files>>
storageVars == <<main, log, aside, files, lock, proc, faults, left, choice>>

EmptyFile(id) ==
  [id |-> id, schema |-> 0, column |-> TRUE, health |-> "ok",
   gens |-> [s \in Servers |-> <<>>], enrolled |-> [s \in Servers |-> "no"],
   noted |-> [s \in Servers |-> FALSE]]

(* again: this open has moved a file aside; moved: what it moved; alone: ghost, *)
(* no other process was at the database since this one connected.            *)
Closed == [pc |-> "closed", again |-> FALSE, todo |-> {}, listed |-> {},
           moved |-> NoFile, building |-> {}, gen |-> 0, alone |-> FALSE]

At(p, pc) == proc[p].pc = pc
Connected(p) == proc[p].pc \notin {"closed", "moveMain", "moveLog", "reopen"}
Others(p) == {q \in Processes \ {p} : Connected(q)}
Exists == main.id # 0
Gens(s) == main.gens[s]
Has(s, state) == \E g \in DOMAIN Gens(s) : Gens(s)[g] = state

Steps == {"closed", "version", "migrate2", "migrate3", "create", "check", "recover",
          "probe", "note", "close", "open", "moveMain", "moveLog", "reopen"}

Generation == [file : 1..MaxFiles, server : Servers, gen : 1..MaxGens]

StorageTypeOK ==
  /\ files \in 1..MaxFiles /\ log \in 0..MaxFiles /\ faults \in 0..MaxFaults
  /\ lock \in [Servers -> Processes \cup {NoProcess}]
  /\ Exists => main \in DatabaseFile
  /\ \A p \in Processes : /\ proc[p].pc \in Steps /\ proc[p].todo \subseteq Servers
                          /\ proc[p].building \subseteq Servers
  /\ left \subseteq Generation
  /\ choice \in [Servers -> [file : 0..MaxFiles, set : {"none", "auto", "manual"}]]

NoChoice == [file |-> 0, set |-> "none"]

StorageInit ==
  /\ main \in OldFiles /\ log \in {0, main.id} /\ aside = {} /\ files = 1
  /\ lock = [s \in Servers |-> NoProcess]
  /\ proc = [p \in Processes |-> Closed]
  /\ faults = 0
  /\ left = {l \in Generation : l.file = main.id /\ Exists
               /\ l.gen \in DOMAIN Gens(l.server) /\ Gens(l.server)[l.gen] = "staging"}
  /\ choice = [s \in Servers |-> NoChoice]

Goto(p, pc) == proc' = [proc EXCEPT ![p].pc = pc]
NoFault == UNCHANGED <<faults, left>>
Fault == faults < MaxFaults /\ faults' = faults + 1 /\ UNCHANGED left
Quiet == NoFault /\ UNCHANGED choice

(* The last connection that is closed takes the log with it. *)
Disconnect(p) == log' = IF Others(p) = {} THEN 0 ELSE log

-----------------------------------------------------------------------------
(* IndexDb::open after an error: the file is moved aside only if it is       *)
(* unusable, and only once.                                                  *)
QuarantineOnce(p, quarantinable) ==
  proc' = [proc EXCEPT ![p] = IF quarantinable /\ ~@.again
                              THEN [Closed EXCEPT !.pc = "moveMain", !.again = TRUE]
                              ELSE Closed]

OpenFails(p, quarantinable) == QuarantineOnce(p, quarantinable) /\ Disconnect(p)

SchemaOnly(reason) == reason = "schema"           \* mutant of Quarantinable

(* is_quarantinable_index_error: a schema number this program does not know, *)
(* tables that disagree, a file that is no (intact) database.                *)
Quarantinable(reason) == reason \in {"schema", "tables", "malformed"}

Entered(p) ==
  proc' = [q \in Processes |->
             IF q = p THEN [proc[p] EXCEPT !.pc = "version", !.alone = Others(p) = {}]
             ELSE [proc[q] EXCEPT !.alone = FALSE]]

(* open_once: the file is created if it is missing; one that is no database  *)
(* or malformed is noticed with the first statement.                         *)
Connect(p) ==
  /\ proc[p].pc \in {"closed", "reopen"}
  /\ \/ /\ ~Exists /\ files < MaxFiles
        /\ files' = files + 1 /\ main' = EmptyFile(files + 1) /\ log' = files + 1
        /\ Entered(p)
     \/ /\ Exists /\ main.health # "malformed" /\ UNCHANGED <<main, files>>
        /\ log' = main.id /\ Entered(p)
     \/ /\ Exists /\ main.health = "malformed" /\ UNCHANGED <<main, files, log>>
        /\ QuarantineOnce(p, Quarantinable("malformed"))
  /\ UNCHANGED <<aside, lock>> /\ Quiet

ReadVersion(p) ==
  /\ At(p, "version")
  /\ \/ /\ main.schema \in {0, 2, 3, SCHEMA_VERSION} /\ UNCHANGED log
        /\ Goto(p, CASE main.schema = 2 -> "migrate2"
                     [] main.schema = 3 -> "migrate3"
                     [] OTHER -> "create")
     \/ /\ main.schema \notin {0, 2, 3, SCHEMA_VERSION}
        /\ OpenFails(p, Quarantinable("schema"))
  /\ UNCHANGED <<main, aside, files, lock>> /\ Quiet

(* ALTER TABLE fails if another process has added the column since. *)
Migrate2To3(p) ==
  /\ At(p, "migrate2")
  /\ \/ /\ ~main.column /\ main' = [main EXCEPT !.column = TRUE, !.schema = 3]
        /\ Goto(p, "migrate3") /\ UNCHANGED log
     \/ main.column /\ OpenFails(p, Quarantinable("column")) /\ UNCHANGED main
  /\ UNCHANGED <<aside, files, lock>> /\ Quiet

Enrolled(s) == IF Has(s, "active") THEN "auto" ELSE "manual"

MigrateReplaces(p) ==                             \* mutant of Migrate3To4
  /\ At(p, "migrate3") /\ Goto(p, "create")
  /\ main' = [main EXCEPT !.schema = SCHEMA_VERSION, !.enrolled =
                [s \in Servers |-> IF Gens(s) = <<>> THEN @[s] ELSE Enrolled(s)]]
  /\ UNCHANGED <<disk, lock>> /\ Quiet

(* Every server with a generation is enrolled, for automatic refresh if it   *)
(* has an index; INSERT OR IGNORE leaves an enrollment that exists.          *)
Migrate3To4(p) ==
  /\ At(p, "migrate3") /\ Goto(p, "create")
  /\ main' = [main EXCEPT !.schema = SCHEMA_VERSION, !.enrolled =
                [s \in Servers |-> IF Gens(s) = <<>> \/ @[s] # "no" THEN @[s]
                                   ELSE Enrolled(s)]]
  /\ UNCHANGED <<disk, lock>> /\ Quiet

CreateTables(p) ==
  /\ At(p, "create") /\ Goto(p, "check")
  /\ main' = [main EXCEPT !.schema = SCHEMA_VERSION]
  /\ UNCHANGED <<disk, lock>> /\ Quiet

(* Entries without full-text rows, or the reverse, condemn the file; then    *)
(* the servers with a staging generation are listed.                         *)
CheckTables(p) ==
  /\ At(p, "check")
  /\ \/ /\ main.health = "ok" /\ UNCHANGED log
        /\ proc' = [proc EXCEPT ![p].pc = "recover",
                                ![p].todo = {s \in Servers : Has(s, "staging")}]
     \/ main.health # "ok" /\ OpenFails(p, Quarantinable("tables"))
  /\ UNCHANGED <<main, aside, files, lock>> /\ Quiet

(* BuildFileLock::is_held takes the lock for a moment to see if it can. *)
Probe(p) ==
  /\ At(p, "recover")
  /\ \E s \in proc[p].todo :
       \/ /\ lock[s] # NoProcess /\ UNCHANGED lock
          /\ proc' = [proc EXCEPT ![p].todo = @ \ {s}]
       \/ /\ lock[s] = NoProcess /\ lock' = [lock EXCEPT ![s] = p]
          /\ proc' = [proc EXCEPT ![p].pc = "probe", ![p].listed = {s}]
  /\ UNCHANGED <<main, disk>> /\ Quiet

ProbeEnds(p) ==
  /\ At(p, "probe") /\ Goto(p, "note")
  /\ lock' = [s \in Servers |-> IF s \in proc[p].listed THEN NoProcess ELSE lock[s]]
  /\ UNCHANGED <<main, disk>> /\ Quiet

SwappedUpdates(p) ==                              \* mutant of NoteInterruption
  /\ At(p, "note") /\ Goto(p, "close")
  /\ main' = [main EXCEPT !.gens = [s \in Servers |-> [g \in DOMAIN @[s] |->
                IF s \in proc[p].listed /\ @[s][g] = "staging" /\ Has(s, "active")
                THEN "cut" ELSE @[s][g]]]]
  /\ UNCHANGED <<disk, lock>> /\ Quiet

(* The first UPDATE: the active generation remembers the interruption. *)
NoteInterruption(p) ==
  /\ At(p, "note") /\ Goto(p, "close")
  /\ main' = [main EXCEPT !.noted = [s \in Servers |->
                @[s] \/ (s \in proc[p].listed /\ Has(s, "staging") /\ Has(s, "active"))]]
  /\ UNCHANGED <<disk, lock>> /\ Quiet

(* Closes the generations of the listed servers that are in one of "open". *)
CloseListed(p, open) ==
  /\ main' = [main EXCEPT !.gens = [s \in Servers |->
       [g \in DOMAIN @[s] |->
          IF s \notin proc[p].listed \/ @[s][g] \notin open THEN @[s][g]
          ELSE IF ~Has(s, "active") THEN "failed"
          ELSE IF proc[p].alone THEN "cut" ELSE "superseded"]]]
  /\ proc' = [proc EXCEPT ![p].pc = "recover", ![p].todo = @ \ proc[p].listed,
                          ![p].listed = {}]
  /\ UNCHANGED <<disk, lock>> /\ Quiet

(* The second UPDATE: what is staging now is superseded, or failed if there  *)
(* is no index to fall back on.                                              *)
CloseInterrupted(p) ==
  At(p, "close") /\ CloseListed(p, {"staging"})

Opened(p) ==
  /\ At(p, "recover") /\ proc[p].todo = {} /\ Goto(p, "open")
  /\ UNCHANGED <<main, disk, lock>> /\ Quiet

(* A statement of the open waits for another process longer than             *)
(* busy_timeout, or meets its newer snapshot.                                *)
Busy(p) ==
  /\ Connected(p) /\ ~At(p, "open") /\ ~At(p, "probe") /\ Others(p) # {}
  /\ OpenFails(p, Quarantinable("busy")) /\ Fault
  /\ UNCHANGED <<main, aside, files, lock, choice>>

-----------------------------------------------------------------------------
(* quarantine_index_files.  Windows does not rename a file somebody has      *)
(* open, and a rename may fail for other reasons too.                        *)
Movable(p) == Others(p) = {}
RenameFails(p) == IF Movable(p) THEN Fault ELSE NoFault

Kind(file) == IF file.health = "ok" /\ file.schema \in {0, 2, 3, SCHEMA_VERSION}
              THEN "valid" ELSE "invalid"
KeptAside(file) == aside' = aside \cup (IF file = NoFile THEN {} ELSE {Kind(file)})

MoveMain(p) ==
  /\ At(p, "moveMain") /\ UNCHANGED <<disk, lock, choice>>
  /\ \/ ~Exists /\ Goto(p, "moveLog") /\ UNCHANGED main /\ NoFault
     \/ /\ Exists /\ Movable(p) /\ NoFault
        /\ main' = NoFile
        /\ proc' = [proc EXCEPT ![p].pc = "moveLog", ![p].moved = main]
     \/ /\ Exists /\ RenameFails(p) /\ UNCHANGED main
        /\ proc' = [proc EXCEPT ![p] = Closed]

(* The log is moved, if there is one. *)
LogMoved(p) ==
  /\ log = 0 \/ Movable(p)
  /\ log' = 0 /\ UNCHANGED main /\ KeptAside(proc[p].moved) /\ NoFault
  /\ proc' = [proc EXCEPT ![p].pc = "reopen", ![p].moved = NoFile]

LogStays(p) ==
  log # 0 /\ RenameFails(p) /\ UNCHANGED log /\ proc' = [proc EXCEPT ![p] = Closed]

(* A log that cannot be moved brings the main file back, unless somebody has *)
(* opened a new one at its place or that fails too; a log that cannot even   *)
(* be looked at leaves the main file where it was moved.                     *)
MoveLog(p) ==
  /\ At(p, "moveLog") /\ UNCHANGED <<files, lock, choice>>
  /\ \/ LogMoved(p)
     \/ /\ LogStays(p)
        /\ \/ /\ proc[p].moved # NoFile /\ Movable(p)
              /\ main' = proc[p].moved /\ UNCHANGED aside
           \/ UNCHANGED main /\ KeptAside(proc[p].moved)

-----------------------------------------------------------------------------
(* What an open process does with the database. *)

(* BuildFileLock::acquire, start_generation. *)
StartBuild(p, s) ==
  /\ At(p, "open") /\ proc[p].building = {} /\ lock[s] = NoProcess
  /\ Len(Gens(s)) < MaxGens
  /\ lock' = [lock EXCEPT ![s] = p]
  /\ main' = [main EXCEPT !.gens[s] = Append(@, "staging"),
                          !.enrolled[s] = IF @ = "no" THEN "manual" ELSE @]
  /\ proc' = [proc EXCEPT ![p].building = {s}, ![p].gen = Len(Gens(s)) + 1]
  /\ UNCHANGED disk /\ Quiet

Staged(p, s) == proc[p].gen \in DOMAIN Gens(s) /\ Gens(s)[proc[p].gen] = "staging"

EndBuild(p, s) ==
  /\ At(p, "open") /\ s \in proc[p].building
  /\ lock' = [lock EXCEPT ![s] = NoProcess]
  /\ proc' = [proc EXCEPT ![p].building = {}, ![p].gen = 0]
  /\ UNCHANGED <<disk, choice>>

(* promote_with_profile: one transaction, rolled back unless the generation  *)
(* is still staging.                                                         *)
Promote(p, s) ==
  /\ EndBuild(p, s) /\ Staged(p, s) /\ NoFault
  /\ main' = [main EXCEPT !.noted[s] = FALSE, !.gens[s] = [g \in DOMAIN @ |->
                IF g = proc[p].gen THEN "active"
                ELSE IF @[g] \in {"active", "cut"} THEN "superseded" ELSE @[g]]]

(* What the builds of a process would leave behind. *)
Building(p) == {[file |-> main.id, server |-> s, gen |-> proc[p].gen] : s \in proc[p].building}

(* fail_generation or discard_empty_generation; an error is only logged, and *)
(* the generation stays as it is.                                            *)
FailBuild(p, s) ==
  /\ EndBuild(p, s)
  /\ \/ /\ NoFault
        /\ main' = IF Staged(p, s) THEN [main EXCEPT !.gens[s][proc[p].gen] = "failed"]
                   ELSE main
     \/ /\ faults < MaxFaults /\ faults' = faults + 1 /\ left' = left \cup Building(p)
        /\ UNCHANGED main

(* set_auto_refresh *)
SetAutoRefresh(p, s) ==
  /\ At(p, "open") /\ main.enrolled[s] # "no"
  /\ \E set \in {"auto", "manual"} :
       /\ main' = [main EXCEPT !.enrolled[s] = set]
       /\ choice' = [choice EXCEPT ![s] = [file |-> main.id, set |-> set]]
  /\ UNCHANGED <<disk, lock, proc>> /\ NoFault

(* delete_index, under the build lock *)
DeleteIndex(p, s) ==
  /\ At(p, "open") /\ proc[p].building = {} /\ lock[s] = NoProcess
  /\ main.enrolled[s] # "no"
  /\ main' = [main EXCEPT !.gens[s] = <<>>, !.enrolled[s] = "no", !.noted[s] = FALSE]
  /\ choice' = [choice EXCEPT ![s] = NoChoice]
  /\ left' = {l \in left : l.file # main.id \/ l.server # s}
  /\ UNCHANGED <<disk, lock, proc, faults>>

-----------------------------------------------------------------------------
(* The process ends in order, and its connection is closed, or it dies: the  *)
(* system gives its locks back and the log stays.                            *)
CloseDatabase(p) ==
  /\ proc' = [proc EXCEPT ![p] = Closed]
  /\ log' = IF At(p, "open") /\ Others(p) = {} THEN 0 ELSE log
  /\ lock' = [s \in Servers |-> IF lock[s] = p THEN NoProcess ELSE lock[s]]
  /\ UNCHANGED <<main, aside, files>> /\ Quiet

Die(p) ==
  /\ faults < MaxFaults /\ faults' = faults + 1 /\ left' = left \cup Building(p)
  /\ proc' = [proc EXCEPT ![p] = Closed]
  /\ lock' = [s \in Servers |-> IF lock[s] = p THEN NoProcess ELSE lock[s]]
  /\ UNCHANGED <<main, disk, choice>>

OpenStep(p) ==
  \/ ReadVersion(p) \/ Migrate2To3(p) \/ Migrate3To4(p) \/ CreateTables(p) \/ CheckTables(p)
  \/ Probe(p) \/ ProbeEnds(p) \/ NoteInterruption(p) \/ CloseInterrupted(p) \/ Opened(p)
  \/ MoveMain(p) \/ MoveLog(p) \/ (At(p, "reopen") /\ Connect(p))
=============================================================================
