------------------------ MODULE GatewayProcessProofs ------------------------
(***************************************************************************)
(* Theorems about GatewayProcess, for any number of processes, servers and *)
(* faults and any databases found at the start: a user's choice is kept,   *)
(* an interrupted build is noted, and a staging generation has a builder.  *)
(***************************************************************************)
EXTENDS GatewayProcess, SequenceTheorems, TLAPS

-----------------------------------------------------------------------------
(* Types *)
Files == DatabaseFile \cup {NoFile}

Process ==
  [pc : Steps, again : BOOLEAN, todo : SUBSET Servers, listed : SUBSET Servers,
   moved : Files, building : SUBSET Servers, gen : Nat, alone : BOOLEAN]

Gate == [phase : Phases, scm : Reports, calls : Int, stop : BOOLEAN,
         reached : BOOLEAN]

Types ==
  /\ main \in Files /\ files \in 1..MaxFiles
  /\ lock \in [Servers -> Processes \cup {NoProcess}]
  /\ proc \in [Processes -> Process]
  /\ choice \in [Servers -> [file : 0..MaxFiles, set : {"none", "auto", "manual"}]]
  /\ gate \in [Processes -> Gate]

(* A database has a number, a missing one has none. *)
LEMMA ExistsIs ==
  ASSUME main \in Files
  PROVE  (Exists <=> main \in DatabaseFile) /\ (Exists <=> main # NoFile)
  BY StorageAssumption DEF Files, DatabaseFile, NoFile, Exists

(* A process that has nothing open. *)
LEMMA ClosedIs ==
  /\ Closed \in Process /\ Closed.pc = "closed" /\ Closed.todo = {} /\ Closed.listed = {}
  /\ Closed.moved = NoFile /\ Closed.building = {} /\ Closed.gen = 0 /\ Closed.alone = FALSE
  BY DEF Closed, Process, Steps, Files

(* Changing the states of the generations of a server leaves a sequence. *)
LEMMA StatesChanged ==
  ASSUME NEW q \in Seq(States), NEW f, f = [g \in DOMAIN q |-> f[g]],
         \A g \in DOMAIN q : f[g] \in States
  PROVE  f \in Seq(States) /\ DOMAIN f = DOMAIN q
  <1>1. DOMAIN q = 1..Len(q) /\ Len(q) \in Nat
    OBVIOUS
  <1>2. f \in [1..Len(q) -> States]
    BY <1>1
  <1> QED BY <1>1, <1>2, SeqDef

(* A new generation comes last. *)
LEMMA StateAdded ==
  ASSUME NEW q \in Seq(States)
  PROVE  /\ Append(q, "staging") \in Seq(States) /\ Len(q) \in Nat
         /\ DOMAIN Append(q, "staging") = (DOMAIN q) \cup {Len(q) + 1}
         /\ Append(q, "staging")[Len(q) + 1] = "staging"
         /\ \A g \in DOMAIN q : Append(q, "staging")[g] = q[g]
  BY DEF States

-----------------------------------------------------------------------------
(* What the operations do to the database, as far as the theorems see it.    *)

(* The two migrations and the creation of tables keep the generations and    *)
(* what a user has chosen.                                                   *)
LEMMA MigrationsAre ==
  ASSUME Types, Exists, NEW p \in Processes,
         Migrate2To3(p) \/ Migrate3To4(p) \/ CreateTables(p)
  PROVE  /\ main' \in DatabaseFile /\ main'.id = main.id /\ main'.gens = main.gens
         /\ main'.noted = main.noted
         /\ \A s \in Servers : main.enrolled[s] # "no" => main'.enrolled[s] = main.enrolled[s]
  <1>0. main \in DatabaseFile
    BY ExistsIs DEF Types
  <1>1. CASE CreateTables(p)
    BY <1>0, <1>1 DEF CreateTables, DatabaseFile, SCHEMA_VERSION
  <1>3. CASE Migrate2To3(p)
    <2>1. CASE main' = main
      BY <1>0, <2>1
    <2>2. CASE main' = [main EXCEPT !.column = TRUE, !.schema = 3]
      BY <1>0, <2>2 DEF DatabaseFile
    <2> QED BY <1>3, <2>1, <2>2 DEF Migrate2To3
  <1>2. CASE Migrate3To4(p)
    <2> DEFINE e == [s \in Servers |-> IF Gens(s) = <<>> \/ main.enrolled[s] # "no"
                                       THEN main.enrolled[s] ELSE Enrolled(s)]
    <2>1. e \in [Servers -> {"no", "auto", "manual"}]
      BY <1>0 DEF Enrolled, DatabaseFile
    <2>2. \A s \in Servers : main.enrolled[s] # "no" => e[s] = main.enrolled[s]
      OBVIOUS
    <2>3. main' = [main EXCEPT !.schema = SCHEMA_VERSION, !.enrolled = e]
      BY <1>0, <1>2 DEF Migrate3To4, DatabaseFile
    <2> HIDE DEF e
    <2> QED BY <1>0, <2>1, <2>2, <2>3 DEF DatabaseFile, SCHEMA_VERSION
  <1> QED BY <1>1, <1>2, <1>3

(* The first update of recovery. *)
LEMMA NoteIs ==
  ASSUME Types, Exists, NEW p \in Processes, NoteInterruption(p)
  PROVE  /\ main' \in DatabaseFile /\ main'.id = main.id /\ main'.gens = main.gens
         /\ main'.enrolled = main.enrolled
         /\ \A s \in Servers :
              main.noted[s] \/ (s \in proc[p].listed /\ Has(s, "staging") /\ Has(s, "active"))
              => main'.noted[s]
  <1>0. main \in DatabaseFile
    BY ExistsIs DEF Types
  <1> DEFINE marked(s) == main.noted[s] \/ (s \in proc[p].listed /\ Has(s, "staging") /\ Has(s, "active"))
             n == [s \in Servers |-> marked(s)]
  <1>1. \A s \in Servers : n[s] \in BOOLEAN /\ (n[s] <=> marked(s))
    <2> SUFFICES ASSUME NEW s \in Servers PROVE n[s] \in BOOLEAN /\ (n[s] <=> marked(s))
      OBVIOUS
    <2>1. CASE marked(s)
      <3>1. n[s] = TRUE
        BY <2>1
      <3> QED BY <2>1, <3>1
    <2>2. CASE ~marked(s)
      <3>1. n[s] = FALSE
        BY <2>2
      <3> QED BY <2>2, <3>1
    <2> QED BY <2>1, <2>2
  <1>2. n \in [Servers -> BOOLEAN]
    <2>1. n = [s \in Servers |-> n[s]]
      OBVIOUS
    <2> HIDE DEF n
    <2> QED BY <1>1, <2>1
  <1>3. main' = [main EXCEPT !.noted = n]
    BY <1>0 DEF NoteInterruption, DatabaseFile
  <1> HIDE DEF n
  <1>4. \A s \in Servers : marked(s) => n[s]
    BY <1>1
  <1> HIDE DEF marked
  <1>5. /\ main' \in DatabaseFile /\ main'.id = main.id /\ main'.gens = main.gens
        /\ main'.enrolled = main.enrolled /\ main'.noted = n
    BY <1>0, <1>2, <1>3 DEF DatabaseFile
  <1> QED BY <1>4, <1>5 DEF marked

(* The second update of recovery: the staging generations of the listed      *)
(* servers are closed, and nothing else changes.                             *)
LEMMA CloseIs ==
  ASSUME Types, Exists, NEW p \in Processes, CloseInterrupted(p)
  PROVE  /\ main' \in DatabaseFile /\ main'.id = main.id /\ main'.noted = main.noted
         /\ main'.enrolled = main.enrolled
         /\ \A s \in Servers : DOMAIN main'.gens[s] = DOMAIN main.gens[s]
         /\ \A s \in Servers : \A g \in DOMAIN main.gens[s] :
              /\ main'.gens[s][g] = "staging" =>
                   main.gens[s][g] = "staging" /\ s \notin proc[p].listed
              /\ main'.gens[s][g] = "cut" =>
                   \/ main.gens[s][g] = "cut"
                   \/ /\ proc[p].alone /\ s \in proc[p].listed
                      /\ Has(s, "staging") /\ Has(s, "active")
  <1>0. main \in DatabaseFile
    BY ExistsIs DEF Types
  <1> DEFINE next(s, g) == IF s \notin proc[p].listed \/ main.gens[s][g] \notin {"staging"}
                           THEN main.gens[s][g]
                           ELSE IF ~Has(s, "active") THEN "failed"
                           ELSE IF proc[p].alone THEN "cut" ELSE "superseded"
             new(s) == [g \in DOMAIN main.gens[s] |-> next(s, g)]
             n == [s \in Servers |-> new(s)]
  <1>1. \A s \in Servers : main.gens[s] \in Seq(States)
    BY <1>0 DEF DatabaseFile
  <1>2. ASSUME NEW s \in Servers, NEW g \in DOMAIN main.gens[s]
        PROVE  /\ next(s, g) \in States
               /\ next(s, g) = "staging" => main.gens[s][g] = "staging" /\ s \notin proc[p].listed
               /\ next(s, g) = "cut" =>
                    \/ main.gens[s][g] = "cut"
                    \/ /\ proc[p].alone /\ s \in proc[p].listed
                       /\ Has(s, "staging") /\ Has(s, "active")
    <2>1. main.gens[s][g] \in States
      BY <1>1, <1>2
    <2>2. main.gens[s][g] = "staging" => Has(s, "staging")
      BY <1>2 DEF Has, Gens
    <2> QED BY <2>1, <2>2 DEF States
  <1> HIDE DEF next
  <1>3. ASSUME NEW s \in Servers PROVE new(s) \in Seq(States) /\ DOMAIN new(s) = DOMAIN main.gens[s]
    <2>1. new(s) = [g \in DOMAIN main.gens[s] |-> new(s)[g]]
      OBVIOUS
    <2>2. \A g \in DOMAIN main.gens[s] : new(s)[g] \in States
      BY <1>2
    <2> HIDE DEF new
    <2> QED BY <1>1, <2>1, <2>2, StatesChanged
  <1>4. \A s \in Servers : \A g \in DOMAIN main.gens[s] : new(s)[g] = next(s, g)
    OBVIOUS
  <1>5. main' = [main EXCEPT !.gens = n]
    BY <1>0 DEF CloseInterrupted, CloseListed, DatabaseFile, next
  <1> HIDE DEF new
  <1>6. n \in [Servers -> Seq(States)] /\ \A s \in Servers : n[s] = new(s)
    BY <1>3
  <1> HIDE DEF n
  <1>7. /\ main' \in DatabaseFile /\ main'.id = main.id /\ main'.noted = main.noted
        /\ main'.enrolled = main.enrolled /\ main'.gens = n
    BY <1>0, <1>5, <1>6 DEF DatabaseFile
  <1> QED BY <1>2, <1>3, <1>4, <1>6, <1>7

(* A new database is empty. *)
LEMMA EmptyFileIs ==
  ASSUME NEW id \in 1..MaxFiles
  PROVE  /\ EmptyFile(id) \in DatabaseFile /\ EmptyFile(id).id = id
         /\ \A s \in Servers : EmptyFile(id).gens[s] = <<>>
  <1>1. [s \in Servers |-> <<>>] \in [Servers -> Seq(States)]
    OBVIOUS
  <1>2. [s \in Servers |-> FALSE] \in [Servers -> BOOLEAN]
    OBVIOUS
  <1> QED BY <1>1, <1>2 DEF EmptyFile, DatabaseFile

(* A build begins with a generation of its own, and enrolls the server. *)
LEMMA StartIs ==
  ASSUME Types, Exists, NEW p \in Processes, NEW s \in Servers, StartBuild(p, s)
  PROVE  /\ main' \in DatabaseFile /\ main'.id = main.id /\ main'.noted = main.noted
         /\ \A t \in Servers \ {s} : main'.gens[t] = main.gens[t]
         /\ main'.gens[s] = Append(main.gens[s], "staging")
         /\ \A t \in Servers : main.enrolled[t] # "no" => main'.enrolled[t] = main.enrolled[t]
  <1>0. main \in DatabaseFile
    BY ExistsIs DEF Types
  <1>1. main.gens \in [Servers -> Seq(States)] /\ main.enrolled \in [Servers -> {"no", "auto", "manual"}]
    BY <1>0 DEF DatabaseFile
  <1>2. Append(main.gens[s], "staging") \in Seq(States)
    BY <1>1, StateAdded
  <1>3. PICK g \in [Servers -> Seq(States)] :
          g = [main.gens EXCEPT ![s] = Append(main.gens[s], "staging")]
    BY <1>1, <1>2
  <1>4. PICK e \in [Servers -> {"no", "auto", "manual"}] :
          e = [main.enrolled EXCEPT ![s] = IF main.enrolled[s] = "no" THEN "manual"
                                           ELSE main.enrolled[s]]
    BY <1>1
  <1>5. main' = [main EXCEPT !.gens = g, !.enrolled = e]
    BY <1>0, <1>3, <1>4 DEF StartBuild, DatabaseFile
  <1>6. /\ main' \in DatabaseFile /\ main'.id = main.id /\ main'.noted = main.noted
        /\ main'.gens = g /\ main'.enrolled = e
    BY <1>0, <1>5 DEF DatabaseFile
  <1> QED BY <1>1, <1>3, <1>4, <1>6

(* The end of a build: its generation is staging no more or is left behind,  *)
(* of the others none becomes staging or cut, and cut ones go together with  *)
(* the note.                                                                 *)
LEMMA EndIs ==
  ASSUME Types, Exists, NEW p \in Processes, NEW s \in Servers, Promote(p, s) \/ FailBuild(p, s)
  PROVE  /\ main' \in DatabaseFile /\ main'.id = main.id /\ main'.enrolled = main.enrolled
         /\ \A t \in Servers : DOMAIN main'.gens[t] = DOMAIN main.gens[t]
         /\ left' = left \/ left' = left \cup Building(p)
         /\ \A t \in Servers : \A g \in DOMAIN main.gens[t] :
              /\ main'.gens[t][g] = "staging" =>
                   /\ main.gens[t][g] = "staging"
                   /\ t = s /\ g = proc[p].gen => left' = left \cup Building(p)
              /\ main'.gens[t][g] = "cut" =>
                   main.gens[t][g] = "cut" /\ (main.noted[t] => main'.noted[t])
  <1>0. main \in DatabaseFile
    BY ExistsIs DEF Types
  <1>1. /\ main.gens \in [Servers -> Seq(States)] /\ main.noted \in [Servers -> BOOLEAN]
        /\ \A t \in Servers : main.gens[t] \in Seq(States)
    BY <1>0 DEF DatabaseFile
  <1>2. CASE Promote(p, s)
    <2> DEFINE next(g) == IF g = proc[p].gen THEN "active"
                          ELSE IF main.gens[s][g] \in {"active", "cut"} THEN "superseded"
                          ELSE main.gens[s][g]
               new == [g \in DOMAIN main.gens[s] |-> next(g)]
    <2>1. \A g \in DOMAIN main.gens[s] :
            /\ next(g) \in States /\ next(g) # "cut"
            /\ next(g) = "staging" => main.gens[s][g] = "staging" /\ g # proc[p].gen
      <3> SUFFICES ASSUME NEW g \in DOMAIN main.gens[s]
                   PROVE  /\ next(g) \in States /\ next(g) # "cut"
                          /\ next(g) = "staging" => main.gens[s][g] = "staging" /\ g # proc[p].gen
        OBVIOUS
      <3>1. main.gens[s][g] \in States
        BY <1>1
      <3> QED BY <3>1 DEF States
    <2> HIDE DEF next
    <2>2. /\ new = [g \in DOMAIN main.gens[s] |-> new[g]]
          /\ \A g \in DOMAIN main.gens[s] : new[g] = next(g)
      OBVIOUS
    <2>3. \A g \in DOMAIN main.gens[s] : new[g] \in States
      BY <2>1, <2>2
    <2>4. main' = [main EXCEPT !.noted[s] = FALSE, !.gens[s] = new]
      BY <1>0, <1>2 DEF Promote, DatabaseFile, next
    <2> HIDE DEF new
    <2>5. new \in Seq(States) /\ DOMAIN new = DOMAIN main.gens[s]
      BY <1>1, <2>2, <2>3, StatesChanged
    <2>6. PICK gs \in [Servers -> Seq(States)] : gs = [main.gens EXCEPT ![s] = new]
      BY <1>1, <2>5
    <2>7. PICK n \in [Servers -> BOOLEAN] : n = [main.noted EXCEPT ![s] = FALSE]
      BY <1>1
    <2>8. main' = [main EXCEPT !.noted = n, !.gens = gs]
      BY <1>0, <2>4, <2>6, <2>7 DEF DatabaseFile
    <2>9. /\ main' \in DatabaseFile /\ main'.id = main.id /\ main'.enrolled = main.enrolled
          /\ main'.gens = gs /\ main'.noted = n
      BY <1>0, <2>8 DEF DatabaseFile
    <2>10. gs[s] = new /\ \A t \in Servers \ {s} : gs[t] = main.gens[t] /\ n[t] = main.noted[t]
      BY <1>1, <2>6, <2>7
    <2>11. \A t \in Servers : DOMAIN main'.gens[t] = DOMAIN main.gens[t]
      BY <2>5, <2>9, <2>10
    <2>12. ASSUME NEW t \in Servers, NEW g \in DOMAIN main.gens[t]
           PROVE  /\ main'.gens[t][g] = "staging" =>
                       main.gens[t][g] = "staging" /\ ~(t = s /\ g = proc[p].gen)
                  /\ main'.gens[t][g] = "cut" =>
                       main.gens[t][g] = "cut" /\ (main.noted[t] => main'.noted[t])
      <3>1. CASE t = s
        BY <2>1, <2>2, <2>9, <2>10, <2>12, <3>1
      <3>2. CASE t # s
        <4>1. main'.gens[t] = main.gens[t] /\ main'.noted[t] = main.noted[t]
          BY <2>9, <2>10, <3>2
        <4> QED BY <3>2, <4>1
      <3> QED BY <3>1, <3>2
    <2>13. left' = left
      BY <1>2 DEF Promote, NoFault
    <2> QED BY <2>9, <2>11, <2>12, <2>13
  <1>3. CASE main' = main /\ left' = left /\ ~Staged(p, s)
    <2>2. ~(proc[p].gen \in DOMAIN main.gens[s] /\ main.gens[s][proc[p].gen] = "staging")
      BY <1>3 DEF Staged, Gens
    <2> QED BY <1>0, <1>3, <2>2
  <1>4. CASE /\ main' = [main EXCEPT !.gens[s][proc[p].gen] = "failed"] /\ left' = left
             /\ Staged(p, s)
    <2> DEFINE k == proc[p].gen
               new == [main.gens[s] EXCEPT ![k] = "failed"]
    <2>1. main' = [main EXCEPT !.gens[s] = new] /\ k \in DOMAIN main.gens[s]
      BY <1>0, <1>4 DEF Staged, Gens, DatabaseFile
    <2>2. /\ new \in Seq(States) /\ DOMAIN new = DOMAIN main.gens[s] /\ new[k] = "failed"
          /\ \A g \in DOMAIN main.gens[s] \ {k} : new[g] = main.gens[s][g]
      BY <1>1, <2>1 DEF States
    <2> HIDE DEF new
    <2>6. PICK gs \in [Servers -> Seq(States)] : gs = [main.gens EXCEPT ![s] = new]
      BY <1>1, <2>2
    <2>8. main' = [main EXCEPT !.gens = gs]
      BY <1>0, <2>1, <2>6 DEF DatabaseFile
    <2>9. /\ main' \in DatabaseFile /\ main'.id = main.id /\ main'.enrolled = main.enrolled
          /\ main'.gens = gs /\ main'.noted = main.noted
      BY <1>0, <2>8 DEF DatabaseFile
    <2>10. gs[s] = new /\ \A t \in Servers \ {s} : gs[t] = main.gens[t]
      BY <1>1, <2>6
    <2> QED BY <1>4, <2>2, <2>9, <2>10
  <1>5. CASE main' = main /\ left' = left \cup Building(p)
    BY <1>0, <1>5
  <1> QED BY <1>2, <1>3, <1>4, <1>5 DEF FailBuild, NoFault

(* What a user sets is noted as the choice. *)
LEMMA SetIs ==
  ASSUME Types, Exists, NEW p \in Processes, NEW s \in Servers, SetAutoRefresh(p, s)
  PROVE  /\ main' \in DatabaseFile /\ main'.id = main.id /\ main'.gens = main.gens
         /\ main'.noted = main.noted
         /\ choice' \in [Servers -> [file : 0..MaxFiles, set : {"none", "auto", "manual"}]]
         /\ main'.enrolled[s] = choice'[s].set /\ choice'[s].file = main.id
         /\ \A t \in Servers \ {s} : /\ main'.enrolled[t] = main.enrolled[t]
                                     /\ choice'[t] = choice[t]
  <1>0. main \in DatabaseFile
    BY ExistsIs DEF Types
  <1>1. main.enrolled \in [Servers -> {"no", "auto", "manual"}] /\ main.id \in 0..MaxFiles
    BY <1>0, StorageAssumption DEF DatabaseFile
  <1>2. PICK set \in {"auto", "manual"} :
          /\ main' = [main EXCEPT !.enrolled[s] = set]
          /\ choice' = [choice EXCEPT ![s] = [file |-> main.id, set |-> set]]
    BY DEF SetAutoRefresh
  <1>3. PICK e \in [Servers -> {"no", "auto", "manual"}] : e = [main.enrolled EXCEPT ![s] = set]
    BY <1>1
  <1>4. main' = [main EXCEPT !.enrolled = e]
    BY <1>0, <1>2, <1>3 DEF DatabaseFile
  <1>5. /\ main' \in DatabaseFile /\ main'.id = main.id /\ main'.gens = main.gens
        /\ main'.noted = main.noted /\ main'.enrolled = e
    BY <1>0, <1>4 DEF DatabaseFile
  <1>6. PICK c \in [file : 0..MaxFiles, set : {"none", "auto", "manual"}] :
          c = [file |-> main.id, set |-> set] /\ c.file = main.id /\ c.set = set
    <2>1. [file |-> main.id, set |-> set] \in [file : 0..MaxFiles, set : {"none", "auto", "manual"}]
      BY <1>1
    <2> QED BY <2>1
  <1>7. choice' = [choice EXCEPT ![s] = c]
    BY <1>2, <1>6
  <1> QED BY <1>1, <1>3, <1>5, <1>6, <1>7 DEF Types

(* A deletion takes generations, enrollment, note and choice of one server.  *)
LEMMA DeleteIs ==
  ASSUME Types, Exists, NEW p \in Processes, NEW s \in Servers, DeleteIndex(p, s)
  PROVE  /\ main' \in DatabaseFile /\ main'.id = main.id
         /\ choice' \in [Servers -> [file : 0..MaxFiles, set : {"none", "auto", "manual"}]]
         /\ main'.gens[s] = <<>> /\ choice'[s].file = 0
         /\ \A t \in Servers \ {s} : /\ main'.enrolled[t] = main.enrolled[t]
                                     /\ main'.gens[t] = main.gens[t]
                                     /\ main'.noted[t] = main.noted[t]
                                     /\ choice'[t] = choice[t]
  <1>0. main \in DatabaseFile
    BY ExistsIs DEF Types
  <1>1. /\ main.gens \in [Servers -> Seq(States)] /\ main.noted \in [Servers -> BOOLEAN]
        /\ main.enrolled \in [Servers -> {"no", "auto", "manual"}]
    BY <1>0 DEF DatabaseFile
  <1>2. PICK gs \in [Servers -> Seq(States)] : gs = [main.gens EXCEPT ![s] = <<>>]
    <2>1. <<>> \in Seq(States)
      OBVIOUS
    <2> QED BY <1>1, <2>1
  <1>3. PICK e \in [Servers -> {"no", "auto", "manual"}] : e = [main.enrolled EXCEPT ![s] = "no"]
    BY <1>1
  <1>4. PICK n \in [Servers -> BOOLEAN] : n = [main.noted EXCEPT ![s] = FALSE]
    BY <1>1
  <1>5. main' = [main EXCEPT !.gens = gs, !.enrolled = e, !.noted = n]
    BY <1>0, <1>2, <1>3, <1>4 DEF DeleteIndex, DatabaseFile
  <1>6. /\ main' \in DatabaseFile /\ main'.id = main.id /\ main'.gens = gs
        /\ main'.enrolled = e /\ main'.noted = n
    BY <1>0, <1>5 DEF DatabaseFile
  <1>7. PICK c \in [file : 0..MaxFiles, set : {"none", "auto", "manual"}] :
          c = NoChoice /\ c.file = 0
    <2>1. 0 \in 0..MaxFiles
      BY StorageAssumption
    <2>2. NoChoice \in [file : 0..MaxFiles, set : {"none", "auto", "manual"}] /\ NoChoice.file = 0
      BY <2>1 DEF NoChoice
    <2> QED BY <2>2
  <1>8. choice' = [choice EXCEPT ![s] = c]
    BY <1>7 DEF DeleteIndex
  <1> QED BY <1>1, <1>2, <1>3, <1>4, <1>6, <1>7, <1>8 DEF Types

-----------------------------------------------------------------------------
(* What a step makes of the process that takes it. *)
Becomes(p, n) == n \in Process /\ proc' = [proc EXCEPT ![p] = n]

(* Nothing open, nothing moved, nothing built. *)
Idle(n) ==
  n.pc \in {"closed", "moveMain"} /\ n.moved = NoFile /\ n.building = {} /\ n.alone = FALSE

(* Where a process was connected it stays so, and keeps what it has built,   *)
(* moved and seen of others.                                                 *)
Linked == Steps \ {"closed", "moveMain", "moveLog", "reopen"}
GoesOn(p, n) ==
  /\ proc[p].pc \in Linked /\ n.pc \in Linked
  /\ n.moved = proc[p].moved /\ n.alone = proc[p].alone

(* The record of a process. *)
LEMMA ProcIs ==
  ASSUME Types, NEW p \in Processes
  PROVE  /\ proc[p] \in Process /\ proc[p].pc \in Steps /\ proc[p].moved \in Files
         /\ proc[p].todo \in SUBSET Servers /\ proc[p].listed \in SUBSET Servers
         /\ proc[p].building \in SUBSET Servers /\ proc[p].gen \in Nat
         /\ proc[p].alone \in BOOLEAN
         /\ (Connected(p) <=> proc[p].pc \in Linked)
  BY DEF Types, Process, Connected, Linked

(* The others are left alone. *)
LEMMA OthersStay ==
  ASSUME Types, NEW p \in Processes, NEW n, Becomes(p, n)
  PROVE  /\ proc' \in [Processes -> Process] /\ proc'[p] = n
         /\ \A q \in Processes \ {p} : proc'[q] = proc[q]
  BY DEF Types, Becomes

(* Goto changes the program counter only. *)
LEMMA GotoIs ==
  ASSUME Types, NEW p \in Processes, NEW k \in Steps, Goto(p, k)
  PROVE  \E n : /\ Becomes(p, n) /\ n.pc = k /\ n.todo = proc[p].todo
                /\ n.listed = proc[p].listed /\ n.moved = proc[p].moved
                /\ n.building = proc[p].building /\ n.gen = proc[p].gen
                /\ n.alone = proc[p].alone
  <1>1. PICK n \in Process : n = [proc[p] EXCEPT !.pc = k]
    BY ProcIs DEF Process
  <1>2. /\ n.pc = k /\ n.todo = proc[p].todo /\ n.listed = proc[p].listed
        /\ n.moved = proc[p].moved /\ n.building = proc[p].building
        /\ n.gen = proc[p].gen /\ n.alone = proc[p].alone
    BY <1>1, ProcIs DEF Process
  <1>3. Becomes(p, n)
    BY <1>1 DEF Goto, Becomes, Types
  <1> QED BY <1>2, <1>3

(* An open that fails leaves nothing behind, but may go on to move the file. *)
LEMMA QuarantineIs ==
  ASSUME Types, NEW p \in Processes, NEW quarantinable, QuarantineOnce(p, quarantinable)
  PROVE  \E n : Becomes(p, n) /\ Idle(n)
  <1>1. CASE proc' = [proc EXCEPT ![p] = Closed]
    BY <1>1, ClosedIs DEF Becomes, Idle
  <1>2. CASE proc' = [proc EXCEPT ![p] = [Closed EXCEPT !.pc = "moveMain", !.again = TRUE]]
    <2>1. PICK n \in Process : n = [Closed EXCEPT !.pc = "moveMain", !.again = TRUE]
      BY ClosedIs DEF Process, Steps
    <2>2. Idle(n)
      BY <2>1, ClosedIs DEF Idle, Process
    <2> QED BY <1>2, <2>1, <2>2 DEF Becomes
  <1> QED BY <1>1, <1>2 DEF QuarantineOnce

(* Steps that give the open up, or leave its connection.                     *)
GivesUp(p) ==
  \/ Connect(p) /\ Exists /\ main.health = "malformed"
  \/ ReadVersion(p) /\ main.schema \notin {0, 2, 3, SCHEMA_VERSION}
  \/ Migrate2To3(p) /\ main.column
  \/ CheckTables(p) /\ main.health # "ok"
  \/ Busy(p)

(* Their effect. *)
LEMMA GivesUpIs ==
  ASSUME Types, NEW p \in Processes, GivesUp(p)
  PROVE  /\ \E n : Becomes(p, n) /\ Idle(n)
         /\ UNCHANGED <<main, files, lock, choice, left>>
         /\ proc[p].pc \notin {"open", "probe"}
  <1>1. CASE Connect(p) /\ Exists /\ main.health = "malformed"
    BY <1>1, QuarantineIs DEF Connect, Quiet, NoFault
  <1>2. CASE ReadVersion(p) /\ main.schema \notin {0, 2, 3, SCHEMA_VERSION}
    BY <1>2, QuarantineIs DEF ReadVersion, OpenFails, Quiet, NoFault, At
  <1>3. CASE Migrate2To3(p) /\ main.column
    BY <1>3, QuarantineIs DEF Migrate2To3, OpenFails, Quiet, NoFault, At
  <1>4. CASE CheckTables(p) /\ main.health # "ok"
    BY <1>4, QuarantineIs DEF CheckTables, OpenFails, Quiet, NoFault, At
  <1>5. CASE Busy(p)
    BY <1>5, QuarantineIs DEF Busy, OpenFails, Fault, At
  <1> QED BY <1>1, <1>2, <1>3, <1>4, <1>5 DEF GivesUp

(* The process is connected, to a new database or to the one that is there,  *)
(* and whoever was alone is alone no more.                                   *)
Enters(p) == Connect(p) /\ ~(Exists /\ main.health = "malformed")

(* Its effect on the processes. *)
LEMMA EntersIs ==
  ASSUME Types, NEW p \in Processes, Enters(p)
  PROVE  /\ proc' \in [Processes -> Process] /\ proc'[p].pc = "version"
         /\ proc'[p].moved = proc[p].moved /\ proc'[p].building = proc[p].building
         /\ proc'[p].alone => Others(p) = {}
         /\ \A q \in Processes \ {p} :
              /\ proc'[q].pc = proc[q].pc /\ proc'[q].moved = proc[q].moved
              /\ proc'[q].todo = proc[q].todo /\ proc'[q].listed = proc[q].listed
              /\ proc'[q].building = proc[q].building /\ proc'[q].gen = proc[q].gen
              /\ proc'[q].alone = FALSE
         /\ UNCHANGED <<lock, choice, left>> /\ proc[p].pc \in {"closed", "reopen"}
         /\ \/ Exists /\ UNCHANGED <<main, files>>
            \/ /\ ~Exists /\ files' = files + 1 /\ files < MaxFiles
               /\ main' = EmptyFile(files + 1)
  <1>1. /\ Entered(p) /\ UNCHANGED <<lock, choice, left>> /\ proc[p].pc \in {"closed", "reopen"}
        /\ \/ Exists /\ UNCHANGED <<main, files>>
           \/ /\ ~Exists /\ files' = files + 1 /\ files < MaxFiles
              /\ main' = EmptyFile(files + 1)
    BY DEF Enters, Connect, Quiet, NoFault
  <1>2. PICK a \in BOOLEAN : a = (Others(p) = {}) /\ (a => Others(p) = {})
    <2>1. CASE Others(p) = {}
      <3>1. TRUE = (Others(p) = {})
        BY <2>1
      <3> QED BY <2>1, <3>1
    <2>2. CASE Others(p) # {}
      <3>1. FALSE = (Others(p) = {})
        BY <2>2
      <3> QED BY <3>1
    <2> QED BY <2>1, <2>2
  <1>3. PICK n \in Process : n = [proc[p] EXCEPT !.pc = "version", !.alone = a]
    BY ProcIs DEF Process, Steps
  <1>4. \A q \in Processes : [proc[q] EXCEPT !.alone = FALSE] \in Process
    BY ProcIs DEF Process
  <1>5. /\ proc' \in [Processes -> Process] /\ proc'[p] = n
        /\ \A q \in Processes \ {p} : proc'[q] = [proc[q] EXCEPT !.alone = FALSE]
    BY <1>1, <1>2, <1>3, <1>4 DEF Entered
  <1>6. n.pc = "version" /\ n.moved = proc[p].moved /\ n.building = proc[p].building /\ n.alone = a
    BY <1>3, ProcIs DEF Process
  <1>7. \A q \in Processes \ {p} :
          /\ proc'[q].pc = proc[q].pc /\ proc'[q].moved = proc[q].moved
          /\ proc'[q].todo = proc[q].todo /\ proc'[q].listed = proc[q].listed
          /\ proc'[q].building = proc[q].building /\ proc'[q].gen = proc[q].gen
          /\ proc'[q].alone = FALSE
    BY <1>5, ProcIs DEF Process
  <1> QED BY <1>1, <1>2, <1>5, <1>6, <1>7

(* Before recovery: version, migrations, tables. *)
Prepares(p) ==
  \/ ReadVersion(p) /\ main.schema \in {0, 2, 3, SCHEMA_VERSION}
  \/ Migrate2To3(p) /\ ~main.column
  \/ Migrate3To4(p) \/ CreateTables(p)

(* They go to the next step of the open. *)
LEMMA PreparesIs ==
  ASSUME Types, NEW p \in Processes, Prepares(p)
  PROVE  /\ \E n : /\ Becomes(p, n) /\ GoesOn(p, n) /\ n.building = proc[p].building
                   /\ n.pc \in {"migrate2", "migrate3", "create", "check"}
         /\ UNCHANGED <<files, lock, choice, left>>
         /\ proc[p].pc \in {"version", "migrate2", "migrate3", "create"}
  <1>1. ASSUME NEW k \in {"migrate2", "migrate3", "create", "check"}, Goto(p, k),
               proc[p].pc \in {"version", "migrate2", "migrate3", "create"}
        PROVE  \E n : /\ Becomes(p, n) /\ GoesOn(p, n) /\ n.building = proc[p].building
                      /\ n.pc \in {"migrate2", "migrate3", "create", "check"}
    <2>1. k \in Steps
      BY DEF Steps
    <2>2. PICK n : /\ Becomes(p, n) /\ n.pc = k /\ n.moved = proc[p].moved
                   /\ n.building = proc[p].building /\ n.alone = proc[p].alone
      BY <1>1, <2>1, GotoIs
    <2>3. GoesOn(p, n)
      BY <1>1, <2>2 DEF GoesOn, Linked, Steps
    <2> QED BY <2>2, <2>3
  <1>2. CASE ReadVersion(p) /\ main.schema \in {0, 2, 3, SCHEMA_VERSION}
    <2>1. PICK k \in {"migrate2", "migrate3", "create"} : Goto(p, k)
      BY <1>2 DEF ReadVersion
    <2> QED BY <1>1, <1>2, <2>1 DEF ReadVersion, At, Quiet, NoFault
  <1>3. CASE Migrate2To3(p) /\ ~main.column
    BY <1>1, <1>3 DEF Migrate2To3, At, Quiet, NoFault
  <1>4. CASE Migrate3To4(p)
    BY <1>1, <1>4 DEF Migrate3To4, At, Quiet, NoFault, disk
  <1>5. CASE CreateTables(p)
    BY <1>1, <1>5 DEF CreateTables, At, Quiet, NoFault, disk
  <1> QED BY <1>2, <1>3, <1>4, <1>5 DEF Prepares

(* The servers with a staging generation are listed. *)
LEMMA ListsIs ==
  ASSUME Types, NEW p \in Processes, CheckTables(p), main.health = "ok"
  PROVE  /\ \E n : /\ Becomes(p, n) /\ GoesOn(p, n) /\ n.building = proc[p].building
                   /\ n.pc = "recover" /\ n.todo = {s \in Servers : Has(s, "staging")}
         /\ UNCHANGED <<main, files, lock, choice, left>> /\ proc[p].pc = "check"
  <1>1. PICK n \in Process : n = [proc[p] EXCEPT !.pc = "recover",
                                                 !.todo = {s \in Servers : Has(s, "staging")}]
    BY ProcIs DEF Process, Steps
  <1>2. /\ n.pc = "recover" /\ n.todo = {s \in Servers : Has(s, "staging")}
        /\ n.moved = proc[p].moved /\ n.building = proc[p].building /\ n.alone = proc[p].alone
    BY <1>1, ProcIs DEF Process
  <1>3. proc' = [proc EXCEPT ![p] = n]
    BY <1>1 DEF CheckTables, Types
  <1>4. UNCHANGED <<main, files, lock, choice, left>> /\ proc[p].pc = "check"
    BY DEF CheckTables, At, Quiet, NoFault
  <1>5. GoesOn(p, n)
    BY <1>2, <1>4 DEF GoesOn, Linked, Steps
  <1> QED BY <1>2, <1>3, <1>4, <1>5 DEF Becomes

(* The lock of a listed server is tried: somebody has it, or it is taken.    *)
LEMMA ProbeIs ==
  ASSUME Types, NEW p \in Processes, Probe(p)
  PROVE  /\ UNCHANGED <<main, files, choice, left>> /\ proc[p].pc = "recover"
         /\ \E n : /\ Becomes(p, n) /\ GoesOn(p, n) /\ n.building = proc[p].building
                   /\ \E s \in Servers :
                        \/ /\ lock[s] # NoProcess /\ lock' = lock /\ n.pc = "recover"
                           /\ n.todo = proc[p].todo \ {s}
                        \/ /\ lock[s] = NoProcess /\ lock' = [lock EXCEPT ![s] = p]
                           /\ n.pc = "probe" /\ n.listed = {s} /\ n.todo = proc[p].todo
  <1>1. UNCHANGED <<main, files, choice, left>> /\ proc[p].pc = "recover"
    BY DEF Probe, At, Quiet, NoFault, disk
  <1>2. PICK s \in proc[p].todo :
          \/ /\ lock[s] # NoProcess /\ UNCHANGED lock
             /\ proc' = [proc EXCEPT ![p].todo = @ \ {s}]
          \/ /\ lock[s] = NoProcess /\ lock' = [lock EXCEPT ![s] = p]
             /\ proc' = [proc EXCEPT ![p].pc = "probe", ![p].listed = {s}]
    BY DEF Probe
  <1>3. s \in Servers
    BY ProcIs
  <1>4. CASE /\ lock[s] # NoProcess /\ UNCHANGED lock
             /\ proc' = [proc EXCEPT ![p].todo = @ \ {s}]
    <2>1. PICK n \in Process : n = [proc[p] EXCEPT !.todo = proc[p].todo \ {s}]
      BY ProcIs DEF Process
    <2>2. /\ n.pc = "recover" /\ n.todo = proc[p].todo \ {s}
          /\ n.moved = proc[p].moved /\ n.building = proc[p].building /\ n.alone = proc[p].alone
      BY <1>1, <2>1, ProcIs DEF Process
    <2>3. proc' = [proc EXCEPT ![p] = n]
      BY <1>4, <2>1 DEF Types
    <2>4. GoesOn(p, n)
      BY <1>1, <2>2 DEF GoesOn, Linked, Steps
    <2> QED BY <1>1, <1>3, <1>4, <2>2, <2>3, <2>4 DEF Becomes
  <1>5. CASE /\ lock[s] = NoProcess /\ lock' = [lock EXCEPT ![s] = p]
             /\ proc' = [proc EXCEPT ![p].pc = "probe", ![p].listed = {s}]
    <2>1. PICK n \in Process : n = [proc[p] EXCEPT !.pc = "probe", !.listed = {s}]
      BY <1>3, ProcIs DEF Process, Steps
    <2>2. /\ n.pc = "probe" /\ n.listed = {s} /\ n.todo = proc[p].todo
          /\ n.moved = proc[p].moved /\ n.building = proc[p].building /\ n.alone = proc[p].alone
      BY <2>1, ProcIs DEF Process
    <2>3. proc' = [proc EXCEPT ![p] = n]
      BY <1>5, <2>1 DEF Types
    <2>4. GoesOn(p, n)
      BY <1>1, <2>2 DEF GoesOn, Linked, Steps
    <2> QED BY <1>1, <1>3, <1>5, <2>2, <2>3, <2>4 DEF Becomes
  <1> QED BY <1>2, <1>4, <1>5

(* The steps of recovery that only go to the next one. *)
LEMMA RecoveryGoto ==
  ASSUME Types, NEW p \in Processes, ProbeEnds(p) \/ NoteInterruption(p) \/ Opened(p)
  PROVE  /\ \E n : /\ Becomes(p, n) /\ GoesOn(p, n) /\ n.building = proc[p].building
                   /\ n.todo = proc[p].todo /\ n.listed = proc[p].listed
                   /\ ProbeEnds(p) => n.pc = "note"
                   /\ NoteInterruption(p) => n.pc = "close"
                   /\ Opened(p) => n.pc = "open"
         /\ UNCHANGED <<files, choice, left>>
         /\ ProbeEnds(p) => proc[p].pc = "probe" /\ main' = main
         /\ NoteInterruption(p) => proc[p].pc = "note" /\ lock' = lock
         /\ Opened(p) => /\ proc[p].pc = "recover" /\ proc[p].todo = {}
                         /\ main' = main /\ lock' = lock
  <1>1. /\ UNCHANGED <<files, choice, left>>
        /\ ProbeEnds(p) => proc[p].pc = "probe" /\ main' = main /\ Goto(p, "note")
        /\ NoteInterruption(p) => proc[p].pc = "note" /\ lock' = lock /\ Goto(p, "close")
        /\ Opened(p) => /\ proc[p].pc = "recover" /\ proc[p].todo = {}
                        /\ main' = main /\ lock' = lock /\ Goto(p, "open")
    BY DEF ProbeEnds, NoteInterruption, Opened, At, Quiet, NoFault, disk
  <1>2. ASSUME NEW k \in {"note", "close", "open"}, Goto(p, k),
               proc[p].pc \in {"probe", "note", "recover"}
        PROVE  \E n : /\ Becomes(p, n) /\ GoesOn(p, n) /\ n.building = proc[p].building
                      /\ n.todo = proc[p].todo /\ n.listed = proc[p].listed /\ n.pc = k
    <2>1. k \in Steps
      BY DEF Steps
    <2>2. PICK n : /\ Becomes(p, n) /\ n.pc = k /\ n.moved = proc[p].moved
                   /\ n.todo = proc[p].todo /\ n.listed = proc[p].listed
                   /\ n.building = proc[p].building /\ n.alone = proc[p].alone
      BY <1>2, <2>1, GotoIs
    <2>3. GoesOn(p, n)
      BY <1>2, <2>2 DEF GoesOn, Linked, Steps
    <2> QED BY <2>2, <2>3
  <1>3. CASE ProbeEnds(p)
    BY <1>1, <1>2, <1>3
  <1>4. CASE NoteInterruption(p)
    BY <1>1, <1>2, <1>4
  <1>5. CASE Opened(p)
    BY <1>1, <1>2, <1>5
  <1> QED BY <1>3, <1>4, <1>5

(* The listed server is done with. *)
LEMMA ClosesIs ==
  ASSUME Types, NEW p \in Processes, CloseInterrupted(p)
  PROVE  /\ \E n : /\ Becomes(p, n) /\ GoesOn(p, n) /\ n.building = proc[p].building
                   /\ n.pc = "recover" /\ n.todo = proc[p].todo \ proc[p].listed
         /\ UNCHANGED <<files, lock, choice, left>> /\ proc[p].pc = "close"
  <1>1. PICK n \in Process : n = [proc[p] EXCEPT !.pc = "recover",
                                     !.todo = proc[p].todo \ proc[p].listed, !.listed = {}]
    BY ProcIs DEF Process, Steps
  <1>2. /\ n.pc = "recover" /\ n.todo = proc[p].todo \ proc[p].listed
        /\ n.moved = proc[p].moved /\ n.building = proc[p].building /\ n.alone = proc[p].alone
    BY <1>1, ProcIs DEF Process
  <1>3. proc' = [proc EXCEPT ![p] = n]
    BY <1>1 DEF CloseInterrupted, CloseListed, Types
  <1>4. UNCHANGED <<files, lock, choice, left>> /\ proc[p].pc = "close"
    BY DEF CloseInterrupted, CloseListed, At, Quiet, NoFault, disk
  <1>5. GoesOn(p, n)
    BY <1>2, <1>4 DEF GoesOn, Linked, Steps
  <1> QED BY <1>2, <1>3, <1>4, <1>5 DEF Becomes

(* The database is moved aside, or is not there, or cannot be moved.         *)
LEMMA MoveMainIs ==
  ASSUME Types, NEW p \in Processes, MoveMain(p)
  PROVE  /\ UNCHANGED <<files, lock, choice, left>> /\ proc[p].pc = "moveMain"
         /\ \E n : /\ Becomes(p, n)
                   /\ \/ Idle(n) /\ main' = main
                      \/ /\ n.pc = "moveLog" /\ n.building = proc[p].building
                         /\ n.alone = proc[p].alone
                         /\ \/ n.moved = proc[p].moved /\ main' = main
                            \/ n.moved = main /\ main' = NoFile /\ Exists /\ Movable(p)
  <1>1. UNCHANGED <<files, lock, choice, left>> /\ proc[p].pc = "moveMain"
    BY DEF MoveMain, At, RenameFails, Fault, NoFault, disk
  <1>2. CASE Goto(p, "moveLog") /\ main' = main
    <2>1. "moveLog" \in Steps
      BY DEF Steps
    <2> QED BY <1>1, <1>2, <2>1, GotoIs
  <1>3. CASE /\ main' = NoFile /\ Exists /\ Movable(p)
             /\ proc' = [proc EXCEPT ![p].pc = "moveLog", ![p].moved = main]
    <2>1. PICK n \in Process : n = [proc[p] EXCEPT !.pc = "moveLog", !.moved = main]
      BY ProcIs DEF Process, Steps, Types
    <2>2. /\ n.pc = "moveLog" /\ n.moved = main /\ n.building = proc[p].building
          /\ n.alone = proc[p].alone
      BY <2>1, ProcIs DEF Process
    <2>3. Becomes(p, n)
      BY <1>3, <2>1 DEF Types, Becomes
    <2> QED BY <1>1, <1>3, <2>2, <2>3
  <1>4. CASE proc' = [proc EXCEPT ![p] = Closed] /\ main' = main
    BY <1>1, <1>4, ClosedIs DEF Becomes, Idle
  <1> QED BY <1>2, <1>3, <1>4 DEF MoveMain

(* The log is moved too; or it stays, and what was moved may come back.      *)
LEMMA MoveLogIs ==
  ASSUME Types, NEW p \in Processes, MoveLog(p)
  PROVE  /\ UNCHANGED <<files, lock, choice, left>> /\ proc[p].pc = "moveLog"
         /\ \E n : /\ Becomes(p, n)
                   /\ \/ /\ n.pc = "reopen" /\ n.moved = NoFile /\ main' = main
                         /\ n.building = proc[p].building /\ n.alone = proc[p].alone
                      \/ /\ Idle(n)
                         /\ \/ main' = main
                            \/ /\ proc[p].moved # NoFile /\ Movable(p)
                               /\ main' = proc[p].moved
  <1>1. UNCHANGED <<files, lock, choice, left>> /\ proc[p].pc = "moveLog"
    BY DEF MoveLog, LogMoved, LogStays, RenameFails, Fault, NoFault, At
  <1>2. CASE main' = main /\ proc' = [proc EXCEPT ![p].pc = "reopen", ![p].moved = NoFile]
    <2>1. PICK n \in Process : n = [proc[p] EXCEPT !.pc = "reopen", !.moved = NoFile]
      BY ProcIs DEF Process, Steps, Files
    <2>2. /\ n.pc = "reopen" /\ n.moved = NoFile /\ n.building = proc[p].building
          /\ n.alone = proc[p].alone
      BY <2>1, ProcIs DEF Process
    <2>3. Becomes(p, n)
      BY <1>2, <2>1 DEF Types, Becomes
    <2> QED BY <1>1, <1>2, <2>2, <2>3
  <1>3. CASE /\ proc' = [proc EXCEPT ![p] = Closed]
             /\ \/ main' = main
                \/ proc[p].moved # NoFile /\ Movable(p) /\ main' = proc[p].moved
    BY <1>1, <1>3, ClosedIs DEF Becomes, Idle
  <1> QED BY <1>2, <1>3 DEF MoveLog, LogMoved, LogStays

(* A build has its server and the number of its generation. *)
LEMMA StartsIs ==
  ASSUME Types, Exists, NEW p \in Processes, NEW s \in Servers, StartBuild(p, s)
  PROVE  /\ \E n : /\ Becomes(p, n) /\ GoesOn(p, n) /\ n.pc = "open" /\ n.building = {s}
                   /\ n.gen = Len(main.gens[s]) + 1
         /\ UNCHANGED <<files, choice, left>> /\ proc[p].pc = "open" /\ proc[p].building = {}
         /\ lock[s] = NoProcess /\ lock' = [lock EXCEPT ![s] = p]
  <1>1. /\ UNCHANGED <<files, choice, left>> /\ proc[p].pc = "open" /\ proc[p].building = {}
        /\ lock[s] = NoProcess /\ lock' = [lock EXCEPT ![s] = p]
        /\ proc' = [proc EXCEPT ![p].building = {s}, ![p].gen = Len(Gens(s)) + 1]
    BY DEF StartBuild, At, Quiet, NoFault, disk
  <1>2. Len(main.gens[s]) \in Nat
    <2>1. main.gens[s] \in Seq(States)
      BY ExistsIs DEF Types, DatabaseFile
    <2> QED BY <2>1
  <1>3. PICK k \in Nat : k = Len(main.gens[s]) + 1
    BY <1>2
  <1>4. PICK n \in Process : n = [proc[p] EXCEPT !.building = {s}, !.gen = k]
    BY ProcIs DEF Process
  <1>5. /\ n.pc = proc[p].pc /\ n.building = {s} /\ n.gen = k /\ n.moved = proc[p].moved
        /\ n.alone = proc[p].alone
    BY <1>4, ProcIs DEF Process
  <1>6. Becomes(p, n)
    BY <1>1, <1>3, <1>4 DEF Types, Becomes, Gens
  <1>7. GoesOn(p, n)
    BY <1>1, <1>5 DEF GoesOn, Linked, Steps
  <1> QED BY <1>1, <1>3, <1>5, <1>6, <1>7

(* ... and gives the lock back when it ends. *)
LEMMA EndsIs ==
  ASSUME Types, NEW p \in Processes, NEW s \in Servers, EndBuild(p, s)
  PROVE  /\ \E n : /\ Becomes(p, n) /\ GoesOn(p, n) /\ n.pc = "open" /\ n.building = {}
         /\ UNCHANGED <<files, choice>> /\ proc[p].pc = "open" /\ s \in proc[p].building
         /\ lock' = [lock EXCEPT ![s] = NoProcess]
  <1>1. /\ UNCHANGED <<files, choice>> /\ proc[p].pc = "open" /\ s \in proc[p].building
        /\ lock' = [lock EXCEPT ![s] = NoProcess]
        /\ proc' = [proc EXCEPT ![p].building = {}, ![p].gen = 0]
    BY DEF EndBuild, At, disk
  <1>4. PICK n \in Process : n = [proc[p] EXCEPT !.building = {}, !.gen = 0]
    BY ProcIs DEF Process
  <1>5. /\ n.pc = proc[p].pc /\ n.building = {} /\ n.moved = proc[p].moved
        /\ n.alone = proc[p].alone
    BY <1>4, ProcIs DEF Process
  <1>6. Becomes(p, n)
    BY <1>1, <1>4 DEF Types, Becomes
  <1>7. GoesOn(p, n)
    BY <1>1, <1>5 DEF GoesOn, Linked, Steps
  <1> QED BY <1>1, <1>5, <1>6, <1>7

(* A process that ends gives every lock back. *)
LEMMA ExitIs ==
  ASSUME Types, NEW p \in Processes, CloseDatabase(p) \/ Die(p)
  PROVE  /\ Becomes(p, Closed) /\ Idle(Closed) /\ UNCHANGED <<main, files, choice>>
         /\ lock' = [s \in Servers |-> IF lock[s] = p THEN NoProcess ELSE lock[s]]
         /\ left' = left \/ left' = left \cup Building(p)
  BY ClosedIs DEF CloseDatabase, Die, Becomes, Idle, Quiet, NoFault, disk

-----------------------------------------------------------------------------
(* The inductive invariant *)

(* A process uses the database only while it runs. *)
GateInv ==
  \A p \in Processes : gate[p].phase \in {"down", "starting"} => proc[p].pc = "closed"

(* A build lock is held by whom it says, and by nobody else: a build, or the *)
(* probe of a recovery.                                                      *)
Holds(q, s) ==
  (At(q, "open") /\ s \in proc[q].building) \/ (At(q, "probe") /\ s \in proc[q].listed)
LockInv ==
  /\ \A q \in Processes, s \in Servers : lock[s] = q <=> Holds(q, s)
  /\ \A q \in Processes : proc[q].building # {} => At(q, "open")
  /\ \A q \in Processes : \A s, t \in proc[q].building : s = t

(* Nobody moves a database that is in use, and who is alone is alone. *)
ConnInv ==
  /\ \A p \in Processes : Connected(p) => Exists
  /\ \A p, q \in Processes : proc[p].alone => Connected(p) /\ (p # q => ~Connected(q))

(* The choices a database holds are the user's, and what recovery has cut is *)
(* noted; this goes for a database that is being moved too, since it may     *)
(* come back.                                                                *)
Right(f) ==
  f # NoFile =>
    /\ f.id <= files
    /\ \A s \in Servers : choice[s].file = f.id => f.enrolled[s] = choice[s].set
    /\ \A s \in Servers : (\E g \in DOMAIN f.gens[s] : f.gens[s][g] = "cut") => f.noted[s]
FileInv ==
  /\ Right(main) /\ \A p \in Processes : Right(proc[p].moved)
  /\ \A s \in Servers : choice[s].file <= files
  /\ \A p \in Processes : proc[p].moved # NoFile =>
       /\ proc[p].moved.id # main.id
       /\ \A q \in Processes \ {p} : proc[q].moved.id # proc[p].moved.id

(* A staging generation is that of a build under way, or its builder left it *)
(* behind; a file that is being moved has only such.                         *)
IsLeft(l, id, s, g) == [file |-> id, server |-> s, gen |-> g] \in l
Built(s, g) == \E p \in Processes : s \in proc[p].building /\ proc[p].gen = g
StageInv ==
  /\ Exists => \A s \in Servers : \A g \in DOMAIN main.gens[s] :
       main.gens[s][g] = "staging" => Built(s, g) \/ IsLeft(left, main.id, s, g)
  /\ \A p \in Processes : proc[p].moved # NoFile =>
       \A s \in Servers : \A g \in DOMAIN proc[p].moved.gens[s] :
         proc[p].moved.gens[s][g] = "staging" => IsLeft(left, proc[p].moved.id, s, g)

(* The recovery of a process that is alone knows every staging generation:   *)
(* it will close it, or has noted that it does.                              *)
AloneOK(p) ==
  /\ proc[p].pc \in {"recover", "probe", "note", "close"} =>
       \A s \in Servers : Has(s, "staging") => s \in proc[p].todo
  /\ proc[p].pc = "close" =>
       \A s \in proc[p].listed : Has(s, "staging") /\ Has(s, "active") => main.noted[s]
AloneInv == \A p \in Processes : proc[p].alone => AloneOK(p)

GatewayInv ==
  Types /\ GateInv /\ LockInv /\ ConnInv /\ FileInv /\ StageInv /\ AloneInv

-----------------------------------------------------------------------------
(* What a process does with the database. *)
Recovers(p) ==
  \/ CheckTables(p) /\ main.health = "ok"
  \/ Probe(p) \/ ProbeEnds(p) \/ NoteInterruption(p) \/ CloseInterrupted(p) \/ Opened(p)
Uses(p, s) ==
  StartBuild(p, s) \/ Promote(p, s) \/ FailBuild(p, s) \/ SetAutoRefresh(p, s) \/ DeleteIndex(p, s)
Leaves(p) ==
  \/ CloseDatabase(p) /\ proc[p].pc \in {"closed", "open"} /\ proc[p].building = {}
  \/ Die(p)
StorageNext(p) ==
  \/ GivesUp(p) \/ Enters(p) \/ Prepares(p) \/ Recovers(p) \/ MoveMain(p) \/ MoveLog(p)
  \/ (\E s \in Servers : Uses(p, s)) \/ Leaves(p)

(* Every step of the system is one of these, or does not touch the storage.  *)
LEMMA StorageSteps ==
  ASSUME Types, GateInv, LockInv, [Next]_vars
  PROVE  UNCHANGED storageVars \/ \E p \in Processes : StorageNext(p)
  <1>1. CASE UNCHANGED vars
    BY <1>1 DEF vars
  <1>2. ASSUME NEW p \in Processes, OpenStep(p) \/ Busy(p) \/ Connect(p)
        PROVE  StorageNext(p)
    BY <1>2 DEF OpenStep, StorageNext, GivesUp, Enters, Prepares, Recovers, ReadVersion,
                Migrate2To3, CheckTables
  <1>3. ASSUME NEW p \in Processes, Exit(p), In(p, {"starting"})
        PROVE  StorageNext(p)
    <2>1. proc[p].pc = "closed"
      BY <1>3 DEF GateInv, In
    <2>2. proc[p].building = {}
      BY <2>1 DEF LockInv, At
    <2> QED BY <1>3, <2>1, <2>2 DEF Exit, StorageNext, Leaves
  <1>4. ASSUME NEW p \in Processes,
               \/ Start(p) \/ Boot(p) \/ Call(p) \/ CallReturns(p) \/ OpenDatabase(p)
               \/ Opening(p) \/ TimesOut(p) \/ Stop(p) \/ Drain(p) \/ RequestShutdown(p)
        PROVE  UNCHANGED storageVars \/ StorageNext(p)
    BY <1>2, <1>3, <1>4 DEF Start, Boot, Call, CallReturns, OpenDatabase, Opening, TimesOut,
       Stop, Drain, RequestShutdown
  <1>5. ASSUME NEW p \in Processes, Build(p) \/ BuildEnds(p) \/ Configure(p) \/ CancelledBuildEnds(p)
        PROVE  StorageNext(p)
    BY <1>5 DEF Build, BuildEnds, Configure, CancelledBuildEnds, StorageNext, Uses
  <1>6. ASSUME NEW p \in Processes, Finish(p) \/ Crash(p)
        PROVE  StorageNext(p)
    BY <1>6 DEF Finish, Crash, Exit, StorageNext, Leaves
  <1> QED BY <1>1, <1>4, <1>5, <1>6 DEF Next

(* What the gate keeps of a process. *)
LEMMA GateStep ==
  ASSUME Types, GateInv, [Next]_vars
  PROVE  gate' \in [Processes -> Gate]
  <1>0. \A p \in Processes : gate[p] \in Gate
    BY DEF Types
  <1>1. CASE UNCHANGED vars
    BY <1>1 DEF vars, Types
  <1>2. Down \in Gate
    BY DEF Down, Gate, Phases, Reports
  <1>3. ASSUME NEW p \in Processes, NEW g \in Gate, gate' = [gate EXCEPT ![p] = g]
        PROVE  gate' \in [Processes -> Gate]
    BY <1>3 DEF Types
  <1>4. ASSUME NEW p \in Processes, NEW phase \in Phases, NEW scm \in Reports, Enter(p, phase, scm)
        PROVE  gate' \in [Processes -> Gate]
    <2>1. Report(p, scm) \in Reports
      BY <1>0, <1>4 DEF Report, Gate
    <2>2. PICK g \in Gate : g = [gate[p] EXCEPT !.phase = phase, !.scm = Report(p, scm)]
      BY <1>0, <1>4, <2>1 DEF Gate
    <2>3. gate' = [gate EXCEPT ![p] = g]
      BY <1>4, <2>2 DEF Enter, Types
    <2> QED BY <1>3, <2>3
  <1>5. ASSUME NEW p \in Processes, NEW d \in {1, -1},
               gate' = [gate EXCEPT ![p].calls = @ + d]
        PROVE  gate' \in [Processes -> Gate]
    <2>0. PICK c \in Int : c = gate[p].calls + d
      BY <1>0, <1>5 DEF Gate
    <2>1. PICK g \in Gate : g = [gate[p] EXCEPT !.calls = c]
      BY <1>0, <2>0 DEF Gate
    <2>2. gate' = [gate EXCEPT ![p] = g]
      BY <1>5, <2>0, <2>1 DEF Types
    <2> QED BY <1>3, <2>2
  <1>6. ASSUME NEW p \in Processes, gate' = [gate EXCEPT ![p].stop = TRUE]
        PROVE  gate' \in [Processes -> Gate]
    <2>1. PICK g \in Gate : g = [gate[p] EXCEPT !.stop = TRUE]
      BY <1>0 DEF Gate
    <2>2. gate' = [gate EXCEPT ![p] = g]
      BY <1>6, <2>1 DEF Types
    <2> QED BY <1>3, <2>2
  <1>7. ASSUME NEW p \in Processes,
               Start(p) \/ Boot(p) \/ Drain(p) \/ Finish(p) \/ Crash(p)
        PROVE  gate' \in [Processes -> Gate]
    BY <1>2, <1>3, <1>4, <1>7 DEF Start, Boot, Drain, Finish, Crash, Exit, Phases, Reports
  <1>10. ASSUME NEW p \in Processes, RequestShutdown(p) PROVE gate' \in [Processes -> Gate]
    <2>1. PICK found \in BOOLEAN :
            gate' = [gate EXCEPT ![p].phase = "quiescing", ![p].scm = Report(p, "stop_pending"),
                                 ![p].reached = found]
      BY <1>10 DEF RequestShutdown
    <2>2. Report(p, "stop_pending") \in Reports /\ "quiescing" \in Phases
      BY <1>0 DEF Report, Gate, Reports, Phases
    <2>3. PICK g \in Gate : g = [gate[p] EXCEPT !.phase = "quiescing",
                                    !.scm = Report(p, "stop_pending"), !.reached = found]
      BY <1>0, <2>2 DEF Gate
    <2>4. gate' = [gate EXCEPT ![p] = g]
      BY <2>1, <2>3 DEF Types
    <2> QED BY <1>3, <2>4
  <1>8. ASSUME NEW p \in Processes, Call(p) \/ CallReturns(p) \/ Stop(p)
        PROVE  gate' \in [Processes -> Gate]
    <2>1. CASE Call(p)
      BY <1>5, <2>1 DEF Call
    <2>2. CASE CallReturns(p)
      <3>1. gate' = [gate EXCEPT ![p].calls = @ + (-1)]
        BY <1>0, <2>2 DEF CallReturns, Gate
      <3> QED BY <1>5, <3>1
    <2>3. CASE Stop(p)
      BY <1>6, <2>3 DEF Stop
    <2> QED BY <1>8, <2>1, <2>2, <2>3
  <1>9. ASSUME NEW p \in Processes,
               \/ OpenDatabase(p) \/ Opening(p) \/ TimesOut(p) \/ Build(p) \/ BuildEnds(p)
               \/ Configure(p) \/ CancelledBuildEnds(p)
        PROVE  gate' \in [Processes -> Gate]
    BY <1>9 DEF OpenDatabase, Opening, TimesOut, Build, BuildEnds, Configure,
       CancelledBuildEnds, Types
  <1> QED BY <1>1, <1>7, <1>8, <1>9, <1>10 DEF Next

(* A process that is connected has a database. *)
LEMMA Attached ==
  ASSUME Types, ConnInv, NEW p \in Processes, proc[p].pc \in Linked
  PROVE  Exists /\ main \in DatabaseFile
  BY ProcIs, ExistsIs DEF ConnInv, Types

(* Nobody changes anything of another process, but that it is alone. *)
Untouched(q) ==
  /\ proc'[q].pc = proc[q].pc /\ proc'[q].moved = proc[q].moved
  /\ proc'[q].todo = proc[q].todo /\ proc'[q].listed = proc[q].listed
  /\ proc'[q].building = proc[q].building /\ proc'[q].gen = proc[q].gen
  /\ (proc'[q].alone => proc[q].alone)

(* Only Enters tells the others that they are alone no more. *)
LEMMA OthersUntouched ==
  ASSUME Types, ConnInv, NEW p \in Processes, StorageNext(p)
  PROVE  /\ proc' \in [Processes -> Process]
         /\ \A q \in Processes \ {p} : Untouched(q)
  <1>1. ASSUME NEW n, Becomes(p, n)
        PROVE  /\ proc' \in [Processes -> Process]
               /\ \A q \in Processes \ {p} : Untouched(q)
    BY <1>1, OthersStay DEF Untouched
  <1>2. CASE Enters(p)
    BY <1>2, EntersIs DEF Untouched
  <1>3. CASE GivesUp(p) \/ Prepares(p) \/ MoveMain(p) \/ MoveLog(p)
    BY <1>1, <1>3, GivesUpIs, PreparesIs, MoveMainIs, MoveLogIs
  <1>4. CASE Recovers(p)
    BY <1>1, <1>4, ListsIs, ProbeIs, RecoveryGoto, ClosesIs DEF Recovers
  <1>5. ASSUME NEW s \in Servers, Uses(p, s)
        PROVE  /\ proc' \in [Processes -> Process]
               /\ \A q \in Processes \ {p} : Untouched(q)
    <2>1. proc[p].pc \in Linked
      BY <1>5 DEF Uses, StartBuild, Promote, FailBuild, EndBuild, SetAutoRefresh, DeleteIndex, At,
                  Linked, Steps
    <2>2. CASE StartBuild(p, s)
      BY <1>1, <2>1, <2>2, Attached, StartsIs
    <2>3. CASE Promote(p, s) \/ FailBuild(p, s)
      BY <1>1, <2>3, EndsIs DEF Promote, FailBuild
    <2>4. CASE SetAutoRefresh(p, s) \/ DeleteIndex(p, s)
      BY <2>4 DEF SetAutoRefresh, DeleteIndex, Untouched, Types
    <2> QED BY <1>5, <2>2, <2>3, <2>4 DEF Uses
  <1>6. CASE Leaves(p)
    BY <1>1, <1>6, ExitIs DEF Leaves
  <1> QED BY <1>2, <1>3, <1>4, <1>5, <1>6 DEF StorageNext

(* What a step makes of the values outside the processes. *)
LEMMA TypesNext ==
  ASSUME Types, GateInv, LockInv, ConnInv, [Next]_vars
  PROVE  Types'
  <1>1. gate' \in [Processes -> Gate]
    BY GateStep
  <1>2. CASE UNCHANGED storageVars
    BY <1>1, <1>2 DEF storageVars, Types
  <1>3. ASSUME NEW p \in Processes, StorageNext(p) PROVE Types'
    <2>1. proc' \in [Processes -> Process]
      BY <1>3, OthersUntouched
    <2>2. CASE GivesUp(p) \/ MoveMain(p)
      BY <1>1, <2>1, <2>2, GivesUpIs, MoveMainIs DEF Types, Files
    <2>3. CASE MoveLog(p)
      BY <1>1, <2>1, <2>3, MoveLogIs, ProcIs DEF Types
    <2>4. CASE Enters(p)
      <3>1. CASE Exists
        BY <1>1, <2>1, <2>4, <3>1, EntersIs DEF Types
      <3>2. CASE ~Exists
        <4>0. /\ files' = files + 1 /\ files < MaxFiles /\ main' = EmptyFile(files + 1)
              /\ files \in 1..MaxFiles /\ MaxFiles \in Nat
          BY <2>4, <3>2, EntersIs, StorageAssumption DEF Types
        <4>1. files + 1 \in 1..MaxFiles /\ files' = files + 1 /\ main' = EmptyFile(files + 1)
          BY <4>0
        <4>2. main' \in Files
          BY <4>1, EmptyFileIs DEF Files
        <4> QED BY <1>1, <2>1, <2>4, <4>1, <4>2, EntersIs DEF Types
      <3> QED BY <3>1, <3>2
    <2>5. CASE Prepares(p)
      <3>1. proc[p].pc \in Linked
        BY <2>5, PreparesIs DEF Linked, Steps
      <3>2. main' \in Files
        BY <2>5, <3>1, Attached, MigrationsAre DEF Prepares, ReadVersion, Files
      <3> QED BY <1>1, <2>1, <2>5, <3>2, PreparesIs DEF Types
    <2>6. CASE Recovers(p)
      <3>1. proc[p].pc \in Linked
        BY <2>6, ListsIs, ProbeIs, RecoveryGoto, ClosesIs DEF Recovers, GoesOn
      <3>2. main' \in Files /\ UNCHANGED <<files, choice>>
        BY <2>6, <3>1, Attached, ListsIs, ProbeIs, RecoveryGoto, ClosesIs, NoteIs, CloseIs
           DEF Recovers, Files
      <3>3. lock' \in [Servers -> Processes \cup {NoProcess}]
        <4>1. CASE ProbeEnds(p)
          BY <4>1 DEF ProbeEnds, Types
        <4>2. CASE ~ProbeEnds(p)
          BY <2>6, <4>2, ListsIs, ProbeIs, RecoveryGoto, ClosesIs DEF Recovers, Types
        <4> QED BY <4>1, <4>2
      <3> QED BY <1>1, <2>1, <3>2, <3>3 DEF Types
    <2>7. ASSUME NEW s \in Servers, Uses(p, s) PROVE Types'
      <3>1. proc[p].pc \in Linked
        BY <2>7 DEF Uses, StartBuild, Promote, FailBuild, EndBuild, SetAutoRefresh, DeleteIndex, At,
                    Linked, Steps
      <3>2. Exists
        BY <3>1, Attached
      <3>3. CASE StartBuild(p, s)
        BY <1>1, <2>1, <3>2, <3>3, StartIs, StartsIs, SMTT(30) DEF Types, Files
      <3>4. CASE Promote(p, s) \/ FailBuild(p, s)
        <4>1. EndBuild(p, s) /\ main' \in DatabaseFile
          BY <3>2, <3>4, EndIs DEF Promote, FailBuild
        <4>2. UNCHANGED <<files, choice>> /\ lock' = [lock EXCEPT ![s] = NoProcess]
          BY <4>1, EndsIs
        <4>3. lock' \in [Servers -> Processes \cup {NoProcess}]
          BY <4>2 DEF Types
        <4> QED BY <1>1, <2>1, <4>1, <4>2, <4>3 DEF Types, Files
      <3>5. CASE SetAutoRefresh(p, s)
        <4>1. UNCHANGED <<files, lock>>
          BY <3>5 DEF SetAutoRefresh, disk
        <4> QED BY <1>1, <2>1, <3>2, <3>5, <4>1, SetIs DEF Types, Files
      <3>6. CASE DeleteIndex(p, s)
        <4>1. UNCHANGED <<files, lock>>
          BY <3>6 DEF DeleteIndex, disk
        <4> QED BY <1>1, <2>1, <3>2, <3>6, <4>1, DeleteIs DEF Types, Files
      <3> QED BY <2>7, <3>3, <3>4, <3>5, <3>6 DEF Uses
    <2>8. CASE Leaves(p)
      <3>1. UNCHANGED <<main, files, choice>>
        BY <2>8, ExitIs DEF Leaves
      <3>2. lock' \in [Servers -> Processes \cup {NoProcess}]
        BY <2>8, ExitIs DEF Leaves, Types
      <3> QED BY <1>1, <2>1, <3>1, <3>2 DEF Types
    <2> QED BY <1>3, <2>2, <2>3, <2>4, <2>5, <2>6, <2>7, <2>8 DEF StorageNext
  <1> QED BY <1>2, <1>3, StorageSteps

(* Whoever works on the database is past its start, and who has left has     *)
(* nothing open.                                                             *)
LEMMA GateNext ==
  ASSUME Types, GateInv, LockInv, ConnInv, [Next]_vars
  PROVE  GateInv'
  <1>0. gate' \in [Processes -> Gate]
    BY GateStep
  <1>1. CASE UNCHANGED vars
    <2>1. gate' = gate /\ proc' = proc
      BY <1>1 DEF vars, storageVars
    <2> QED BY <2>1 DEF GateInv
  <1>2. ASSUME NEW p \in Processes, StorageNext(p), gate' = gate, ~In(p, {"down", "starting"})
        PROVE  GateInv'
    <2>1. \A q \in Processes \ {p} : proc'[q].pc = proc[q].pc
      BY <1>2, OthersUntouched DEF Untouched
    <2> QED BY <1>2, <2>1 DEF GateInv, In
  <1>3. ASSUME NEW p \in Processes, proc' = proc,
               \A q \in Processes \ {p} : gate'[q].phase = gate[q].phase,
               \/ gate'[p].phase = gate[p].phase
               \/ gate'[p].phase \notin {"down", "starting"}
               \/ gate[p].phase = "down"
        PROVE  GateInv'
    BY <1>3 DEF GateInv
  <1>4. ASSUME NEW p \in Processes, CloseDatabase(p) \/ Die(p), gate' = [gate EXCEPT ![p] = Down]
        PROVE  GateInv'
    <2>1. proc'[p] = Closed /\ \A q \in Processes \ {p} : proc'[q] = proc[q]
      BY <1>4, ExitIs, OthersStay
    <2> QED BY <1>4, <2>1, ClosedIs DEF GateInv, Types
  <1>5. ASSUME NEW p \in Processes, NEW phase, NEW scm, Enter(p, phase, scm)
        PROVE  gate'[p].phase = phase /\ \A q \in Processes \ {p} : gate'[q].phase = gate[q].phase
    BY <1>5 DEF Enter, Types, Gate
  <1>6. ASSUME NEW p \in Processes, Start(p) \/ Drain(p) PROVE GateInv'
    BY <1>3, <1>5, <1>6 DEF Start, Drain, In, storageVars
  <1>12. ASSUME NEW p \in Processes, RequestShutdown(p) PROVE GateInv'
    <2>1. proc' = proc
      BY <1>12 DEF RequestShutdown, storageVars
    <2>2. /\ gate'[p].phase = "quiescing"
          /\ \A q \in Processes \ {p} : gate'[q].phase = gate[q].phase
      BY <1>12 DEF RequestShutdown, Types, Gate
    <2> QED BY <1>3, <2>1, <2>2
  <1>7. ASSUME NEW p \in Processes, Boot(p) PROVE GateInv'
    BY <1>3, <1>4, <1>5, <1>7 DEF Boot, Exit, storageVars
  <1>8. ASSUME NEW p \in Processes, Call(p) \/ CallReturns(p) \/ Stop(p) PROVE GateInv'
    <2>1. proc' = proc /\ \A q \in Processes : gate'[q].phase = gate[q].phase
      <3>1. \A q \in Processes : gate[q] \in Gate
        BY DEF Types
      <3>2. CASE Call(p)
        BY <3>1, <3>2 DEF Call, storageVars, Types, Gate
      <3>3. CASE CallReturns(p)
        BY <3>1, <3>3 DEF CallReturns, storageVars, Types, Gate
      <3>4. CASE Stop(p)
        BY <3>1, <3>4 DEF Stop, storageVars, Types, Gate
      <3> QED BY <1>8, <3>2, <3>3, <3>4
    <2> QED BY <2>1 DEF GateInv
  <1>9. ASSUME NEW p \in Processes, Finish(p) \/ Crash(p) PROVE GateInv'
    BY <1>4, <1>9 DEF Finish, Exit, Crash
  <1>10. ASSUME NEW p \in Processes,
               \/ OpenDatabase(p) \/ Opening(p) \/ TimesOut(p) \/ Build(p) \/ BuildEnds(p)
               \/ CancelledBuildEnds(p)
         PROVE GateInv'
    <2>1. gate' = gate /\ StorageNext(p)
      BY <1>10 DEF OpenDatabase, Opening, TimesOut, Build, BuildEnds, CancelledBuildEnds,
         OpenStep, StorageNext, GivesUp, Enters, Prepares, Recovers, ReadVersion,
         Migrate2To3, CheckTables, Uses
    <2>2. ~In(p, {"down", "starting"})
      <3>1. CASE OpenDatabase(p) \/ Build(p)
        BY <3>1 DEF OpenDatabase, Build, In
      <3>2. CASE Opening(p) \/ TimesOut(p) \/ BuildEnds(p) \/ CancelledBuildEnds(p)
        <4>1. proc[p].pc # "closed"
          BY <3>2 DEF Opening, TimesOut, BuildEnds, CancelledBuildEnds, OpenStep, ReadVersion,
             Migrate2To3, Migrate3To4, CreateTables, CheckTables, Probe, ProbeEnds,
             NoteInterruption, CloseInterrupted, Opened, MoveMain, MoveLog, Busy, Connected,
             Promote, FailBuild, EndBuild, At
        <4> QED BY <4>1, SMTT(30) DEF GateInv, In
      <3> QED BY <1>10, <3>1, <3>2
    <2> QED BY <1>2, <2>1, <2>2
  <1>11. ASSUME NEW p \in Processes, Configure(p) PROVE GateInv'
    <2>1. gate' = gate /\ proc' = proc
      BY <1>11 DEF Configure, SetAutoRefresh, DeleteIndex
    <2> QED BY <2>1 DEF GateInv
  <1> QED BY <1>1, <1>6, <1>7, <1>8, <1>9, <1>10, <1>11, <1>12 DEF Next

(* The lock of a server says who builds or probes it. *)
LEMMA LockNext ==
  ASSUME Types, LockInv, ConnInv, NEW p \in Processes, StorageNext(p)
  PROVE  LockInv'
  <1>0. NoProcess \notin Processes
    BY StorageAssumption
  <1>1. \A q \in Processes \ {p} : Untouched(q)
    BY OthersUntouched
  <1>2. ASSUME lock' = lock, proc[p].pc # "probe", proc'[p].pc # "probe",
               proc[p].pc = "open" <=> proc'[p].pc = "open",
               proc'[p].building = proc[p].building \/ proc'[p].building = {},
               proc[p].pc = "open" => proc'[p].building = proc[p].building
        PROVE  LockInv'
    <2>1. \A s \in Servers : Holds(p, s)' <=> Holds(p, s)
      BY <1>2 DEF Holds, At
    <2>2. \A q \in Processes \ {p}, s \in Servers : Holds(q, s)' <=> Holds(q, s)
      BY <1>1 DEF Holds, At, Untouched
    <2>3. \A q \in Processes, s \in Servers : lock'[s] = q <=> Holds(q, s)'
      BY <1>2, <2>1, <2>2 DEF LockInv
    <2>4. \A q \in Processes : /\ proc'[q].building # {} => proc'[q].pc = "open"
                               /\ \A s, t \in proc'[q].building : s = t
      BY <1>1, <1>2 DEF LockInv, At, Untouched
    <2> QED BY <2>3, <2>4 DEF LockInv, At
  <1>3. CASE GivesUp(p)
    <2>1. PICK n : Becomes(p, n) /\ Idle(n)
      BY <1>3, GivesUpIs
    <2> QED BY <1>2, <1>3, <2>1, GivesUpIs, OthersStay DEF Idle
  <1>4. CASE Enters(p)
    BY <1>2, <1>4, EntersIs
  <1>5. CASE Prepares(p)
    <2>1. PICK n : /\ Becomes(p, n) /\ n.building = proc[p].building
                   /\ n.pc \in {"migrate2", "migrate3", "create", "check"}
      BY <1>5, PreparesIs
    <2> QED BY <1>2, <1>5, <2>1, PreparesIs, OthersStay
  <1>6. CASE MoveMain(p)
    <2>1. PICK n : /\ Becomes(p, n) /\ n.pc \in {"closed", "moveMain", "moveLog"}
                   /\ n.building = proc[p].building \/ n.building = {}
      BY <1>6, MoveMainIs DEF Idle
    <2>2. proc'[p] = n /\ proc[p].pc = "moveMain" /\ lock' = lock
      BY <1>6, <2>1, MoveMainIs, OthersStay
    <2> QED BY <1>2, <2>1, <2>2
  <1>7. CASE MoveLog(p)
    <2>1. PICK n : /\ Becomes(p, n) /\ n.pc \in {"closed", "moveMain", "reopen"}
                   /\ n.building = proc[p].building \/ n.building = {}
      BY <1>7, MoveLogIs DEF Idle
    <2>2. proc'[p] = n /\ proc[p].pc = "moveLog" /\ lock' = lock
      BY <1>7, <2>1, MoveLogIs, OthersStay
    <2> QED BY <1>2, <2>1, <2>2
  <1>8. CASE CheckTables(p) /\ main.health = "ok"
    BY <1>2, <1>8, ListsIs, OthersStay
  <1>9. CASE NoteInterruption(p)
    BY <1>2, <1>9, RecoveryGoto, OthersStay
  <1>10. CASE CloseInterrupted(p)
    BY <1>2, <1>10, ClosesIs, OthersStay
  <1>11. CASE Probe(p)
    <2>1. PICK n : /\ Becomes(p, n) /\ n.building = proc[p].building
                   /\ \E s \in Servers :
                        \/ lock' = lock /\ n.pc = "recover"
                        \/ /\ lock[s] = NoProcess /\ lock' = [lock EXCEPT ![s] = p]
                           /\ n.pc = "probe" /\ n.listed = {s}
      BY <1>11, ProbeIs
    <2>2. proc'[p] = n /\ proc[p].pc = "recover"
      BY <1>11, <2>1, ProbeIs, OthersStay
    <2>3. CASE lock' = lock /\ n.pc = "recover"
      BY <1>2, <2>1, <2>2, <2>3
    <2>4. ASSUME NEW s \in Servers, lock[s] = NoProcess, lock' = [lock EXCEPT ![s] = p],
                 n.pc = "probe", n.listed = {s}
          PROVE  LockInv'
      <3>1. proc[p].building = {} /\ \A t \in Servers : ~Holds(p, t)
        BY <2>2 DEF LockInv, At, Holds
      <3>2. \A t \in Servers : lock'[t] = IF t = s THEN p ELSE lock[t]
        BY <2>4 DEF Types
      <3>3. \A t \in Servers : Holds(p, t)' <=> t = s
        BY <2>1, <2>2, <2>4, <3>1 DEF Holds, At
      <3>4. \A q \in Processes \ {p}, t \in Servers : Holds(q, t)' <=> Holds(q, t)
        BY <1>1 DEF Holds, At, Untouched
      <3>5. \A q \in Processes, t \in Servers : lock'[t] = q <=> Holds(q, t)'
        BY <1>0, <2>4, <3>1, <3>2, <3>3, <3>4 DEF LockInv
      <3>6. \A q \in Processes : /\ proc'[q].building # {} => proc'[q].pc = "open"
                                 /\ \A u, t \in proc'[q].building : u = t
        BY <1>1, <2>1, <2>2, <3>1 DEF LockInv, At, Untouched
      <3> QED BY <3>5, <3>6 DEF LockInv, At
    <2> QED BY <2>1, <2>3, <2>4
  <1>12. CASE ProbeEnds(p)
    <2>1. PICK n : Becomes(p, n) /\ n.building = proc[p].building /\ n.pc = "note"
      BY <1>12, RecoveryGoto
    <2>2. /\ proc'[p] = n /\ proc[p].pc = "probe"
          /\ lock' = [s \in Servers |-> IF s \in proc[p].listed THEN NoProcess ELSE lock[s]]
      BY <1>12, <2>1, RecoveryGoto, OthersStay DEF ProbeEnds
    <2>3. proc[p].building = {} /\ \A t \in Servers : Holds(p, t) <=> t \in proc[p].listed
      BY <2>2 DEF LockInv, At, Holds
    <2>4. \A t \in Servers : ~Holds(p, t)'
      BY <2>1, <2>2 DEF Holds, At
    <2>5. \A q \in Processes \ {p}, t \in Servers : Holds(q, t)' <=> Holds(q, t)
      BY <1>1 DEF Holds, At, Untouched
    <2>6. \A q \in Processes, t \in Servers : lock'[t] = q <=> Holds(q, t)'
      BY <1>0, <2>2, <2>3, <2>4, <2>5 DEF LockInv
    <2>7. \A q \in Processes : /\ proc'[q].building # {} => proc'[q].pc = "open"
                               /\ \A u, t \in proc'[q].building : u = t
      BY <1>1, <2>1, <2>2, <2>3 DEF LockInv, At, Untouched
    <2> QED BY <2>6, <2>7 DEF LockInv, At
  <1>13. CASE Opened(p)
    <2>1. PICK n : Becomes(p, n) /\ n.building = proc[p].building /\ n.pc = "open"
      BY <1>13, RecoveryGoto
    <2>2. proc'[p] = n /\ proc[p].pc = "recover" /\ lock' = lock
      BY <1>13, <2>1, RecoveryGoto, OthersStay
    <2>3. proc[p].building = {} /\ \A t \in Servers : ~Holds(p, t)
      BY <2>2 DEF LockInv, At, Holds
    <2>4. \A t \in Servers : ~Holds(p, t)'
      BY <2>1, <2>2, <2>3 DEF Holds, At
    <2>5. \A q \in Processes \ {p}, t \in Servers : Holds(q, t)' <=> Holds(q, t)
      BY <1>1 DEF Holds, At, Untouched
    <2>6. \A q \in Processes, t \in Servers : lock'[t] = q <=> Holds(q, t)'
      BY <2>2, <2>3, <2>4, <2>5 DEF LockInv
    <2>7. \A q \in Processes : /\ proc'[q].building # {} => proc'[q].pc = "open"
                               /\ \A u, t \in proc'[q].building : u = t
      BY <1>1, <2>1, <2>2, <2>3 DEF LockInv, At, Untouched
    <2> QED BY <2>6, <2>7 DEF LockInv, At
  <1>14. ASSUME NEW s \in Servers, StartBuild(p, s) PROVE LockInv'
    <2>0. proc[p].pc \in Linked
      BY <1>14 DEF StartBuild, At, Linked, Steps
    <2>1. PICK n : Becomes(p, n) /\ n.building = {s} /\ n.pc = "open"
      BY <1>14, <2>0, Attached, StartsIs
    <2>2. /\ proc'[p] = n /\ proc[p].pc = "open" /\ proc[p].building = {}
          /\ lock[s] = NoProcess /\ \A t \in Servers : lock'[t] = IF t = s THEN p ELSE lock[t]
      BY <1>14, <2>0, <2>1, Attached, StartsIs, OthersStay DEF Types
    <2>3. \A t \in Servers : ~Holds(p, t) /\ (Holds(p, t)' <=> t = s)
      BY <2>1, <2>2 DEF At, Holds
    <2>5. \A q \in Processes \ {p}, t \in Servers : Holds(q, t)' <=> Holds(q, t)
      BY <1>1 DEF Holds, At, Untouched
    <2>6. \A q \in Processes, t \in Servers : lock'[t] = q <=> Holds(q, t)'
      BY <1>0, <2>2, <2>3, <2>5 DEF LockInv
    <2>7. \A q \in Processes : /\ proc'[q].building # {} => proc'[q].pc = "open"
                               /\ \A u, t \in proc'[q].building : u = t
      BY <1>1, <2>1, <2>2, <2>3 DEF LockInv, At, Untouched
    <2> QED BY <2>6, <2>7 DEF LockInv, At
  <1>15. ASSUME NEW s \in Servers, Promote(p, s) \/ FailBuild(p, s) PROVE LockInv'
    <2>0. EndBuild(p, s)
      BY <1>15 DEF Promote, FailBuild
    <2>1. PICK n : Becomes(p, n) /\ n.building = {} /\ n.pc = "open"
      BY <2>0, EndsIs
    <2>2. /\ proc'[p] = n /\ proc[p].pc = "open" /\ s \in proc[p].building
          /\ \A t \in Servers : lock'[t] = IF t = s THEN NoProcess ELSE lock[t]
      BY <2>0, <2>1, EndsIs, OthersStay DEF Types
    <2>3. \A t \in Servers : ~Holds(p, t)' /\ (Holds(p, t) <=> t = s)
      BY <2>1, <2>2 DEF At, Holds, LockInv
    <2>5. \A q \in Processes \ {p}, t \in Servers : Holds(q, t)' <=> Holds(q, t)
      BY <1>1 DEF Holds, At, Untouched
    <2>6. \A q \in Processes, t \in Servers : lock'[t] = q <=> Holds(q, t)'
      BY <1>0, <2>2, <2>3, <2>5 DEF LockInv
    <2>7. \A q \in Processes : /\ proc'[q].building # {} => proc'[q].pc = "open"
                               /\ \A u, t \in proc'[q].building : u = t
      BY <1>1, <2>1, <2>2, <2>3 DEF LockInv, At, Untouched
    <2> QED BY <2>6, <2>7 DEF LockInv, At
  <1>16. ASSUME NEW s \in Servers, SetAutoRefresh(p, s) \/ DeleteIndex(p, s) PROVE LockInv'
    <2>1. lock' = lock /\ proc' = proc
      BY <1>16 DEF SetAutoRefresh, DeleteIndex
    <2> QED BY <2>1 DEF LockInv, Holds, At
  <1>17. CASE Leaves(p)
    <2>1. /\ proc'[p] = Closed
          /\ \A t \in Servers : lock'[t] = IF lock[t] = p THEN NoProcess ELSE lock[t]
      BY <1>17, ExitIs, OthersStay, ZenonT(60) DEF Leaves
    <2>3. \A t \in Servers : ~Holds(p, t)'
      BY <2>1, ClosedIs DEF At, Holds
    <2>5. \A q \in Processes \ {p}, t \in Servers : Holds(q, t)' <=> Holds(q, t)
      BY <1>1 DEF Holds, At, Untouched
    <2>6. \A q \in Processes, t \in Servers : lock'[t] = q <=> Holds(q, t)'
      BY <1>0, <2>1, <2>3, <2>5 DEF LockInv
    <2>7. \A q \in Processes : /\ proc'[q].building # {} => proc'[q].pc = "open"
                               /\ \A u, t \in proc'[q].building : u = t
      BY <1>1, <2>1, ClosedIs DEF LockInv, At, Untouched
    <2> QED BY <2>6, <2>7 DEF LockInv, At
  <1> QED BY <1>3, <1>4, <1>5, <1>6, <1>7, <1>8, <1>9, <1>10, <1>11, <1>12, <1>13, <1>14,
             <1>15, <1>16, <1>17 DEF StorageNext, Recovers, Uses

-----------------------------------------------------------------------------
(* The kinds of steps, as the connections and the files see them. *)
Works(p) == Prepares(p) \/ Recovers(p) \/ \E s \in Servers : Uses(p, s)
Continues(p, n) == GoesOn(p, n) /\ main' \in DatabaseFile /\ main'.id = main.id
StopsHere(p, n) == Idle(n) /\ main' = main
PutsBack(p, n) ==
  Idle(n) /\ proc[p].moved # NoFile /\ Movable(p) /\ main' = proc[p].moved
TakesAway(p, n) ==
  /\ proc[p].pc = "moveMain" /\ n.pc = "moveLog" /\ n.alone = proc[p].alone
  /\ \/ n.moved = proc[p].moved /\ main' = main
     \/ n.moved = main /\ main' = NoFile /\ Exists /\ Movable(p)
Forgets(p, n) ==
  /\ proc[p].pc = "moveLog" /\ n.pc = "reopen" /\ n.alone = proc[p].alone
  /\ n.moved = NoFile /\ main' = main

(* There are no others. *)
LEMMA Kinds ==
  ASSUME Types, ConnInv, NEW p \in Processes, StorageNext(p)
  PROVE  \/ Enters(p)
         \/ \E n : /\ Becomes(p, n) /\ files' = files
                   /\ \/ Continues(p, n) /\ Works(p)
                      \/ /\ choice' = choice
                         /\ \/ StopsHere(p, n) \/ PutsBack(p, n)
                            \/ TakesAway(p, n) \/ Forgets(p, n)
  <1>1. CASE GivesUp(p)
    BY <1>1, GivesUpIs DEF StopsHere
  <1>2. CASE Prepares(p)
    <2>1. PICK n : Becomes(p, n) /\ GoesOn(p, n)
      BY <1>2, PreparesIs
    <2>2. Exists /\ main \in DatabaseFile
      BY <2>1, Attached DEF GoesOn
    <2>3. main' \in DatabaseFile /\ main'.id = main.id
      BY <1>2, <2>2, MigrationsAre DEF Prepares, ReadVersion
    <2> QED BY <1>2, <2>1, <2>3, PreparesIs DEF Continues, Works
  <1>3. CASE Recovers(p)
    <2>1. PICK n : Becomes(p, n) /\ GoesOn(p, n)
      BY <1>3, ListsIs, ProbeIs, RecoveryGoto, ClosesIs DEF Recovers
    <2>2. Exists /\ main \in DatabaseFile
      BY <2>1, Attached DEF GoesOn
    <2>3. main' \in DatabaseFile /\ main'.id = main.id /\ files' = files
      BY <1>3, <2>2, ListsIs, ProbeIs, RecoveryGoto, ClosesIs, NoteIs, CloseIs DEF Recovers
    <2> QED BY <1>3, <2>1, <2>3 DEF Continues, Works
  <1>4. CASE MoveMain(p)
    BY <1>4, MoveMainIs DEF StopsHere, TakesAway
  <1>5. CASE MoveLog(p)
    BY <1>5, MoveLogIs DEF StopsHere, PutsBack, Forgets
  <1>6. ASSUME NEW s \in Servers, Uses(p, s)
        PROVE  \E n : Becomes(p, n) /\ files' = files /\ Continues(p, n)
    <2>1. proc[p].pc \in Linked
      BY <1>6 DEF Uses, StartBuild, Promote, FailBuild, EndBuild, SetAutoRefresh, DeleteIndex, At,
                  Linked, Steps
    <2>2. Exists
      BY <2>1, Attached
    <2>3. CASE StartBuild(p, s)
      BY <2>2, <2>3, StartIs, StartsIs DEF Continues
    <2>4. CASE Promote(p, s) \/ FailBuild(p, s)
      <3>1. EndBuild(p, s) /\ main' \in DatabaseFile /\ main'.id = main.id
        BY <2>2, <2>4, EndIs DEF Promote, FailBuild
      <3> QED BY <3>1, EndsIs DEF Continues
    <2>5. CASE SetAutoRefresh(p, s) \/ DeleteIndex(p, s)
      <3>1. proc' = proc /\ files' = files
        BY <2>5 DEF SetAutoRefresh, DeleteIndex, disk
      <3>2. main' \in DatabaseFile /\ main'.id = main.id
        BY <2>2, <2>5, SetIs, DeleteIs
      <3>3. Becomes(p, proc[p])
        BY <3>1, ProcIs DEF Becomes, Types
      <3>4. Continues(p, proc[p])
        BY <2>1, <3>2 DEF Continues, GoesOn
      <3> QED BY <3>1, <3>3, <3>4
    <2> QED BY <1>6, <2>3, <2>4, <2>5 DEF Uses
  <1>7. CASE Leaves(p)
    BY <1>7, ExitIs DEF Leaves, StopsHere
  <1> QED BY <1>1, <1>2, <1>3, <1>4, <1>5, <1>6, <1>7 DEF StorageNext, Works

(* Nobody is connected to what is not there. *)
LEMMA ConnNext ==
  ASSUME Types, ConnInv, NEW p \in Processes, StorageNext(p)
  PROVE  ConnInv'
  <1>1. \A q \in Processes \ {p} : Untouched(q)
    BY OthersUntouched
  <1>2. /\ \A q \in Processes \ {p} : Connected(q)' <=> Connected(q)
        /\ \A q \in Processes \ {p} : proc'[q].alone => proc[q].alone
    BY <1>1 DEF Untouched, Connected
  <1>4. CASE Enters(p)
    <2>1. Exists'
      <3>1. CASE Exists
        BY <1>4, <3>1, EntersIs DEF Exists
      <3>2. CASE ~Exists
        <4>0. /\ main' = EmptyFile(files + 1) /\ files < MaxFiles /\ files \in 1..MaxFiles
              /\ MaxFiles \in Nat
          BY <1>4, <3>2, EntersIs, StorageAssumption DEF Types
        <4>1. main' = EmptyFile(files + 1) /\ files + 1 # 0 /\ files + 1 \in 1..MaxFiles
          BY <4>0
        <4> QED BY <4>1, EmptyFileIs DEF Exists
      <3> QED BY <3>1, <3>2
    <2>2. proc'[p].alone => \A q \in Processes \ {p} : ~Connected(q)
      BY <1>4, EntersIs DEF Others
    <2>3. \A q \in Processes \ {p} : ~proc'[q].alone
      BY <1>4, EntersIs
    <2>4. Connected(p)'
      BY <1>4, EntersIs DEF Connected
    <2> QED BY <1>2, <2>1, <2>2, <2>3, <2>4 DEF ConnInv
  <1>5. ASSUME NEW n, Becomes(p, n), Continues(p, n) PROVE ConnInv'
    <2>1. proc'[p] = n /\ Connected(p) /\ Connected(p)' /\ (n.alone => proc[p].alone)
      BY <1>5, OthersStay DEF Continues, GoesOn, Linked, Connected
    <2>2. Exists'
      <3>1. main'.id # 0
        BY <1>5, StorageAssumption DEF Continues, DatabaseFile
      <3> QED BY <3>1 DEF Exists
    <2> QED BY <1>2, <2>1, <2>2 DEF ConnInv
  <1>6. ASSUME NEW n, Becomes(p, n), StopsHere(p, n) PROVE ConnInv'
    <2>1. proc'[p] = n /\ ~Connected(p)' /\ ~n.alone /\ main' = main
      BY <1>6, OthersStay DEF StopsHere, Idle, Connected
    <2>2. Exists' <=> Exists
      BY <2>1 DEF Exists
    <2> QED BY <1>2, <2>1, <2>2 DEF ConnInv
  <1>7. ASSUME NEW n, Becomes(p, n), PutsBack(p, n) PROVE ConnInv'
    <2>1. proc'[p] = n /\ ~Connected(p)' /\ ~n.alone
      BY <1>7, OthersStay DEF PutsBack, Idle, Connected
    <2>2. \A q \in Processes \ {p} : ~Connected(q)
      BY <1>7 DEF PutsBack, Movable, Others
    <2> QED BY <1>2, <2>1, <2>2 DEF ConnInv
  <1>8. ASSUME NEW n, Becomes(p, n), TakesAway(p, n) PROVE ConnInv'
    <2>1. proc'[p] = n /\ ~Connected(p)' /\ ~Connected(p) /\ (n.alone => proc[p].alone)
      BY <1>8, OthersStay DEF TakesAway, Connected
    <2>2. ~proc[p].alone
      BY <2>1 DEF ConnInv
    <2>3. main' = main \/ \A q \in Processes \ {p} : ~Connected(q)
      BY <1>8 DEF TakesAway, Movable, Others
    <2>4. main' = main => (Exists' <=> Exists)
      BY DEF Exists
    <2> QED BY <1>2, <2>1, <2>2, <2>3, <2>4 DEF ConnInv
  <1>9. ASSUME NEW n, Becomes(p, n), Forgets(p, n) PROVE ConnInv'
    <2>1. /\ proc'[p] = n /\ ~Connected(p)' /\ ~Connected(p) /\ (n.alone => proc[p].alone)
          /\ main' = main
      BY <1>9, OthersStay DEF Forgets, Connected
    <2>2. ~proc[p].alone /\ (Exists' <=> Exists)
      BY <2>1 DEF ConnInv, Exists
    <2> QED BY <1>2, <2>1, <2>2 DEF ConnInv
  <1> QED BY <1>4, <1>5, <1>6, <1>7, <1>8, <1>9, Kinds

(* What is cut in a database, and noted there. *)
CutNoted(f) ==
  \A s \in Servers : \A g \in DOMAIN f.gens[s] : f.gens[s][g] = "cut" => f.noted[s]

(* As long as a process goes on with the database, choices stay and what is  *)
(* cut is noted.                                                             *)
LEMMA ContentKept ==
  ASSUME Types, ConnInv, FileInv, AloneInv, NEW p \in Processes,
         Works(p)
  PROVE  /\ choice' \in [Servers -> [file : 0..MaxFiles, set : {"none", "auto", "manual"}]]
         /\ \A s \in Servers : choice'[s] = choice[s] \/ choice'[s].file = 0
                               \/ choice'[s].file = main.id
         /\ \A s \in Servers : choice'[s].file = main.id => main'.enrolled[s] = choice'[s].set
         /\ CutNoted(main')
  <1>0. proc[p].pc \in Linked
    <2>1. CASE Prepares(p)
      BY <2>1, PreparesIs DEF Linked, Steps
    <2>2. CASE Recovers(p)
      BY <2>2, ListsIs, ProbeIs, RecoveryGoto, ClosesIs DEF Recovers, GoesOn
    <2>3. CASE \E s \in Servers : Uses(p, s)
      BY <2>3 DEF Uses, StartBuild, Promote, FailBuild, EndBuild, SetAutoRefresh, DeleteIndex, At,
                  Linked, Steps
    <2> QED BY <2>1, <2>2, <2>3 DEF Works
  <1>1. Exists /\ main \in DatabaseFile /\ main # NoFile
    BY <1>0, Attached, ExistsIs DEF Types
  <1>2. /\ \A s \in Servers : choice[s].file = main.id => main.enrolled[s] = choice[s].set
        /\ CutNoted(main)
    BY <1>1 DEF FileInv, Right, CutNoted
  <1>3. \A s \in Servers : choice[s].set # "no" /\ main.gens[s] \in Seq(States) /\ main.id # 0
    <2>1. \A s \in Servers : choice[s] \in [file : 0..MaxFiles, set : {"none", "auto", "manual"}]
      BY DEF Types
    <2>2. \A s \in Servers : main.gens[s] \in Seq(States)
      BY <1>1 DEF DatabaseFile
    <2> QED BY <1>1, <2>1, <2>2 DEF Exists
  <1>4. ASSUME choice' = choice, CutNoted(main'),
               \A s \in Servers : main.enrolled[s] # "no" => main'.enrolled[s] = main.enrolled[s]
        PROVE  /\ choice' \in [Servers -> [file : 0..MaxFiles, set : {"none", "auto", "manual"}]]
               /\ \A s \in Servers : choice'[s] = choice[s] \/ choice'[s].file = 0
                                     \/ choice'[s].file = main.id
               /\ \A s \in Servers : choice'[s].file = main.id => main'.enrolled[s] = choice'[s].set
               /\ CutNoted(main')
    BY <1>2, <1>3, <1>4 DEF Types
  <1>5. CASE Prepares(p)
    <2>1. /\ main'.gens = main.gens /\ main'.noted = main.noted
          /\ \A s \in Servers : main.enrolled[s] # "no" => main'.enrolled[s] = main.enrolled[s]
      BY <1>1, <1>5, MigrationsAre DEF Prepares, ReadVersion
    <2>2. CutNoted(main')
      BY <1>2, <2>1 DEF CutNoted
    <2> QED BY <1>4, <1>5, <2>1, <2>2, PreparesIs
  <1>6. CASE Recovers(p) /\ main' = main
    BY <1>2, <1>4, <1>6, ListsIs, ProbeIs, RecoveryGoto, ClosesIs DEF Recovers
  <1>7. CASE NoteInterruption(p)
    <2>1. /\ main'.gens = main.gens /\ main'.enrolled = main.enrolled
          /\ \A s \in Servers : main.noted[s] => main'.noted[s]
      BY <1>1, <1>7, NoteIs
    <2>2. CutNoted(main')
      BY <1>2, <2>1 DEF CutNoted
    <2> QED BY <1>4, <1>7, <2>1, <2>2, RecoveryGoto
  <1>8. CASE CloseInterrupted(p)
    <2>1. main'.enrolled = main.enrolled /\ main'.noted = main.noted
      BY <1>1, <1>8, CloseIs
    <2>2. ASSUME NEW s \in Servers, NEW g \in DOMAIN main'.gens[s], main'.gens[s][g] = "cut"
          PROVE  main'.noted[s]
      <3>1. \/ main.gens[s][g] = "cut" /\ g \in DOMAIN main.gens[s]
            \/ /\ proc[p].alone /\ s \in proc[p].listed
               /\ Has(s, "staging") /\ Has(s, "active")
        BY <1>1, <1>8, <2>2, CloseIs
      <3>2. CASE main.gens[s][g] = "cut" /\ g \in DOMAIN main.gens[s]
        BY <1>2, <2>1, <3>2 DEF CutNoted
      <3>3. CASE /\ proc[p].alone /\ s \in proc[p].listed
                 /\ Has(s, "staging") /\ Has(s, "active")
        <4>1. proc[p].pc = "close"
          BY <1>8, ClosesIs
        <4>2. main.noted[s]
          BY <3>3, <4>1 DEF AloneInv, AloneOK
        <4> QED BY <2>1, <4>2
      <3> QED BY <3>1, <3>2, <3>3
    <2>3. CutNoted(main')
      BY <2>2 DEF CutNoted
    <2> QED BY <1>4, <1>8, <2>1, <2>3, ClosesIs
  <1>9. ASSUME NEW s \in Servers, StartBuild(p, s)
        PROVE  /\ choice' = choice /\ CutNoted(main')
               /\ \A t \in Servers : main.enrolled[t] # "no" => main'.enrolled[t] = main.enrolled[t]
    <2>1. /\ main'.noted = main.noted
          /\ \A t \in Servers \ {s} : main'.gens[t] = main.gens[t]
          /\ main'.gens[s] = Append(main.gens[s], "staging")
          /\ \A t \in Servers : main.enrolled[t] # "no" => main'.enrolled[t] = main.enrolled[t]
      BY <1>1, <1>9, StartIs
    <2>2. \A g \in DOMAIN main'.gens[s] :
            main'.gens[s][g] = "cut" => g \in DOMAIN main.gens[s] /\ main.gens[s][g] = "cut"
      BY <1>3, <2>1, StateAdded
    <2>3. CutNoted(main')
      BY <1>2, <2>1, <2>2, SMTT(30) DEF CutNoted
    <2> QED BY <1>1, <1>9, <2>1, <2>3, StartsIs
  <1>10. ASSUME NEW s \in Servers, Promote(p, s) \/ FailBuild(p, s)
         PROVE  choice' = choice /\ CutNoted(main') /\ main'.enrolled = main.enrolled
    <2>1. /\ EndBuild(p, s) /\ main'.enrolled = main.enrolled
          /\ \A t \in Servers : DOMAIN main'.gens[t] = DOMAIN main.gens[t]
          /\ \A t \in Servers : \A g \in DOMAIN main.gens[t] :
               main'.gens[t][g] = "cut" =>
                 main.gens[t][g] = "cut" /\ (main.noted[t] => main'.noted[t])
      BY <1>1, <1>10, EndIs DEF Promote, FailBuild
    <2>2. CutNoted(main')
      BY <1>2, <2>1 DEF CutNoted
    <2> QED BY <2>1, <2>2, EndsIs
  <1>11. ASSUME NEW s \in Servers, SetAutoRefresh(p, s)
         PROVE  /\ choice' \in [Servers -> [file : 0..MaxFiles, set : {"none", "auto", "manual"}]]
                /\ \A t \in Servers : choice'[t] = choice[t] \/ choice'[t].file = main.id
                /\ \A t \in Servers : choice'[t].file = main.id => main'.enrolled[t] = choice'[t].set
                /\ CutNoted(main')
    <2>1. /\ main'.gens = main.gens /\ main'.noted = main.noted
          /\ choice' \in [Servers -> [file : 0..MaxFiles, set : {"none", "auto", "manual"}]]
          /\ main'.enrolled[s] = choice'[s].set /\ choice'[s].file = main.id
          /\ \A t \in Servers \ {s} : /\ main'.enrolled[t] = main.enrolled[t]
                                      /\ choice'[t] = choice[t]
      BY <1>1, <1>11, SetIs
    <2>2. CutNoted(main')
      BY <1>2, <2>1 DEF CutNoted
    <2> QED BY <1>2, <2>1, <2>2
  <1>12. ASSUME NEW s \in Servers, DeleteIndex(p, s)
         PROVE  /\ choice' \in [Servers -> [file : 0..MaxFiles, set : {"none", "auto", "manual"}]]
                /\ \A t \in Servers : choice'[t] = choice[t] \/ choice'[t].file = 0
                /\ \A t \in Servers : choice'[t].file = main.id => main'.enrolled[t] = choice'[t].set
                /\ CutNoted(main')
    <2>1. /\ choice' \in [Servers -> [file : 0..MaxFiles, set : {"none", "auto", "manual"}]]
          /\ main'.gens[s] = <<>> /\ choice'[s].file = 0
          /\ \A t \in Servers \ {s} : /\ main'.enrolled[t] = main.enrolled[t]
                                      /\ main'.gens[t] = main.gens[t]
                                      /\ main'.noted[t] = main.noted[t]
                                      /\ choice'[t] = choice[t]
      BY <1>1, <1>12, DeleteIs
    <2>2. ASSUME NEW t \in Servers, NEW g \in DOMAIN main'.gens[t], main'.gens[t][g] = "cut"
          PROVE  main'.noted[t]
      <3>1. t # s
        BY <2>1, <2>2
      <3>2. main'.gens[t] = main.gens[t] /\ main'.noted[t] = main.noted[t]
        BY <2>1, <3>1
      <3> QED BY <1>2, <2>2, <3>2 DEF CutNoted
    <2>3. CutNoted(main')
      BY <2>2 DEF CutNoted
    <2> QED BY <1>2, <1>3, <2>1, <2>3
  <1>13. Recovers(p) => main' = main \/ NoteInterruption(p) \/ CloseInterrupted(p)
    BY ListsIs, ProbeIs, RecoveryGoto DEF Recovers
  <1>14. ASSUME NEW s \in Servers, Uses(p, s)
         PROVE  /\ choice' \in [Servers -> [file : 0..MaxFiles, set : {"none", "auto", "manual"}]]
                /\ \A t \in Servers : choice'[t] = choice[t] \/ choice'[t].file = 0
                                      \/ choice'[t].file = main.id
                /\ \A t \in Servers : choice'[t].file = main.id => main'.enrolled[t] = choice'[t].set
                /\ CutNoted(main')
    BY <1>4, <1>9, <1>10, <1>11, <1>12, <1>14 DEF Uses
  <1> QED BY <1>5, <1>6, <1>7, <1>8, <1>13, <1>14 DEF Works

(* A database has a number of its own. *)
LEMMA IdIs ==
  ASSUME NEW f \in Files
  PROVE  NoFile.id = 0 /\ (f # NoFile <=> f.id # 0) /\ (f # NoFile => f \in DatabaseFile)
  BY StorageAssumption DEF Files, DatabaseFile, NoFile

(* Choices and notes go with the databases, the ones that are being moved    *)
(* included.                                                                 *)
LEMMA FileNext ==
  ASSUME Types, ConnInv, FileInv, AloneInv, NEW p \in Processes, StorageNext(p)
  PROVE  FileInv'
  <1>0. main \in Files /\ files \in 1..MaxFiles /\ \A q \in Processes : proc[q].moved \in Files
    BY ProcIs DEF Types
  <1>1. \A q \in Processes \ {p} : proc'[q].moved = proc[q].moved
    BY OthersUntouched DEF Untouched
  <1>2. /\ NoFile.id = 0 /\ (main # NoFile <=> main.id # 0)
        /\ \A q \in Processes : proc[q].moved # NoFile <=> proc[q].moved.id # 0
    BY <1>0, IdIs
  <1>3. ASSUME files' = files, choice' = choice, main' \in {main, proc[p].moved, NoFile},
               proc'[p].moved \in {main, proc[p].moved, NoFile},
               main' # NoFile => main' # proc'[p].moved
        PROVE  FileInv'
    <2>1. \A f : Right(f)' <=> Right(f)
      BY <1>3 DEF Right
    <2>2. Right(NoFile)
      BY DEF Right
    <2>3. Right(main') /\ \A q \in Processes : Right(proc'[q].moved)
      BY <1>1, <1>3, <2>2 DEF FileInv
    <2>4. ASSUME NEW q \in Processes, proc'[q].moved # NoFile
          PROVE  /\ proc'[q].moved.id # main'.id
                 /\ \A r \in Processes \ {q} : proc'[r].moved.id # proc'[q].moved.id
      BY <1>1, <1>2, <1>3, <2>4 DEF FileInv
    <2> QED BY <1>3, <2>1, <2>3, <2>4 DEF FileInv
  <1>4. CASE Enters(p)
    <2>1. proc'[p].moved = proc[p].moved /\ choice' = choice
      BY <1>4, EntersIs
    <2>2. CASE Exists
      <3>1. main' = main /\ files' = files
        BY <1>4, <2>2, EntersIs
      <3>2. main' # NoFile => main' # proc'[p].moved
        BY <2>1, <3>1 DEF FileInv
      <3> QED BY <1>3, <2>1, <3>1, <3>2
    <2>3. CASE ~Exists
      <3>1. /\ files' = files + 1 /\ files < MaxFiles /\ main' = EmptyFile(files + 1)
            /\ files \in 1..MaxFiles /\ MaxFiles \in Nat
        BY <1>0, <1>4, <2>3, EntersIs, StorageAssumption
      <3>2. files \in Int /\ files + 1 \in 1..MaxFiles
        BY <3>1
      <3>3. main'.id = files + 1 /\ \A s \in Servers : main'.gens[s] = <<>>
        BY <3>1, <3>2, EmptyFileIs
      <3>4. \A s \in Servers : choice[s].file \in Int /\ choice[s].file <= files
        <4>1. \A s \in Servers : choice[s] \in [file : 0..MaxFiles, set : {"none", "auto", "manual"}]
          BY DEF Types
        <4> QED BY <3>1, <4>1 DEF FileInv
      <3>5. \A q \in Processes : proc'[q].moved = proc[q].moved
        BY <1>1, <2>1
      <3>6. \A q \in Processes : proc[q].moved # NoFile =>
              proc[q].moved.id \in Int /\ proc[q].moved.id <= files
        <4>1. \A q \in Processes : proc[q].moved # NoFile => proc[q].moved \in DatabaseFile
          BY <1>0, IdIs
        <4>2. \A q \in Processes : proc[q].moved # NoFile => proc[q].moved.id \in Int
          BY <4>1, StorageAssumption DEF DatabaseFile
        <4> QED BY <4>2 DEF FileInv, Right
      <3>7. Right(main)'
        <4>1. main'.id <= files'
          BY <3>1, <3>2, <3>3
        <4>2. \A s \in Servers : choice'[s].file # main'.id
          BY <2>1, <3>2, <3>3, <3>4
        <4>3. \A s \in Servers : ~\E g \in DOMAIN main'.gens[s] : main'.gens[s][g] = "cut"
          BY <3>3
        <4> QED BY <4>1, <4>2, <4>3 DEF Right
      <3>8. ASSUME NEW q \in Processes PROVE Right(proc[q].moved)'
        <4>1. Right(proc[q].moved)
          BY DEF FileInv
        <4>2. proc[q].moved # NoFile => proc[q].moved.id <= files'
          BY <3>1, <3>2, <3>6
        <4> QED BY <2>1, <3>5, <4>1, <4>2 DEF Right
      <3>9. \A s \in Servers : choice'[s].file <= files'
        BY <2>1, <3>1, <3>2, <3>4
      <3>10. ASSUME NEW q \in Processes, proc'[q].moved # NoFile
             PROVE  /\ proc'[q].moved.id # main'.id
                    /\ \A r \in Processes \ {q} : proc'[r].moved.id # proc'[q].moved.id
        <4>1. proc[q].moved.id # files + 1
          BY <3>2, <3>5, <3>6, <3>10
        <4> QED BY <3>3, <3>5, <3>10, <4>1 DEF FileInv
      <3> QED BY <3>7, <3>8, <3>9, <3>10 DEF FileInv
    <2> QED BY <2>2, <2>3
  <1>5. ASSUME NEW n, Becomes(p, n), files' = files, Continues(p, n), Works(p) PROVE FileInv'
    <2>1. \A q \in Processes : proc'[q].moved = proc[q].moved
      BY <1>1, <1>5, OthersStay DEF Continues, GoesOn
    <2>2. main.id # 0 /\ main # NoFile /\ main'.id = main.id /\ main' \in DatabaseFile
      BY <1>2, <1>5, Attached DEF Continues, GoesOn, Exists
    <2>3. /\ \A s \in Servers : choice'[s] = choice[s] \/ choice'[s].file = 0
                                \/ choice'[s].file = main.id
          /\ \A s \in Servers : choice'[s].file = main.id => main'.enrolled[s] = choice'[s].set
          /\ CutNoted(main')
      BY <1>5, ContentKept
    <2>4. Right(main)'
      BY <1>5, <2>2, <2>3 DEF Right, CutNoted, FileInv
    <2>5. ASSUME NEW q \in Processes PROVE Right(proc[q].moved)'
      <3>1. Right(proc[q].moved)
        BY DEF FileInv
      <3>2. proc[q].moved # NoFile => proc[q].moved.id # 0 /\ proc[q].moved.id # main.id
        BY <1>2 DEF FileInv
      <3>3. ASSUME NEW s \in Servers, proc[q].moved # NoFile, choice'[s].file = proc[q].moved.id
            PROVE  proc[q].moved.enrolled[s] = choice'[s].set
        BY <2>3, <3>1, <3>2, <3>3 DEF Right
      <3> QED BY <1>5, <2>1, <3>1, <3>3 DEF Right
    <2>6. \A s \in Servers : choice'[s].file <= files'
      <3>1. main.id <= files /\ \A s \in Servers : choice[s].file <= files
        BY <2>2 DEF FileInv, Right
      <3>2. files \in Nat
        BY <1>0, StorageAssumption
      <3> QED BY <1>5, <2>3, <3>1, <3>2
    <2> QED BY <2>1, <2>2, <2>4, <2>5, <2>6 DEF FileInv
  <1>6. ASSUME NEW n, Becomes(p, n), files' = files, choice' = choice,
               StopsHere(p, n) \/ PutsBack(p, n) \/ TakesAway(p, n) \/ Forgets(p, n)
        PROVE  FileInv'
    <2>1. proc'[p] = n
      BY <1>6, OthersStay
    <2>2. CASE StopsHere(p, n) \/ Forgets(p, n)
      BY <1>3, <1>6, <2>1, <2>2 DEF StopsHere, Forgets, Idle
    <2>3. CASE PutsBack(p, n)
      BY <1>3, <1>6, <2>1, <2>3 DEF PutsBack, Idle
    <2>4. CASE TakesAway(p, n) /\ n.moved = proc[p].moved /\ main' = main
      <3>1. main' # NoFile => main' # proc[p].moved
        BY <2>4 DEF FileInv
      <3> QED BY <1>3, <1>6, <2>1, <2>4, <3>1
    <2>5. CASE TakesAway(p, n) /\ n.moved = main /\ main' = NoFile
      BY <1>3, <1>6, <2>1, <2>5
    <2> QED BY <1>6, <2>2, <2>3, <2>4, <2>5 DEF TakesAway
  <1> QED BY <1>4, <1>5, <1>6, Kinds

(* What an end or a death leaves behind, and a deletion takes away. *)
LEMMA LeftIs ==
  ASSUME NEW l, NEW id, NEW s, NEW g
  PROVE  /\ \A m : IsLeft(l, id, s, g) => IsLeft(l \cup m, id, s, g)
         /\ \A p \in Processes : s \in proc[p].building /\ proc[p].gen = g /\ id = main.id
              => IsLeft(l \cup Building(p), id, s, g)
         /\ \A t : IsLeft(l, id, s, g) /\ (id # main.id \/ s # t)
              => IsLeft({e \in l : e.file # main.id \/ e.server # t}, id, s, g)
  BY DEF IsLeft, Building

(* Somebody else's build goes on. *)
LEMMA BuiltStays ==
  ASSUME NEW p \in Processes, NEW s, NEW g, Built(s, g), ~(s \in proc[p].building /\ proc[p].gen = g),
         \A q \in Processes \ {p} : /\ proc'[q].building = proc[q].building
                                    /\ proc'[q].gen = proc[q].gen
  PROVE  Built(s, g)'
  BY DEF Built

(* No staging generation is left without its build, but those of builders    *)
(* that died or could not write.                                             *)
LEMMA StageNext ==
  ASSUME Types, LockInv, ConnInv, FileInv, StageInv, NEW p \in Processes, StorageNext(p)
  PROVE  StageInv'
  <1>1. \A q \in Processes \ {p} : /\ proc'[q].moved = proc[q].moved /\ proc'[q].gen = proc[q].gen
                                   /\ proc'[q].building = proc[q].building
    BY OthersUntouched DEF Untouched
  <1>2. ASSUME left' = left, proc[p].building = {}, proc'[p].moved \in {proc[p].moved, NoFile},
               Exists' => /\ Exists /\ main'.id = main.id
                          /\ \A s \in Servers : \A g \in DOMAIN main'.gens[s] :
                               main'.gens[s][g] = "staging" =>
                                 g \in DOMAIN main.gens[s] /\ main.gens[s][g] = "staging"
        PROVE  StageInv'
    <2>1. ASSUME Exists', NEW s \in Servers, NEW g \in DOMAIN main'.gens[s],
                 main'.gens[s][g] = "staging"
          PROVE  Built(s, g)' \/ IsLeft(left', main'.id, s, g)
      <3>1. Built(s, g) \/ IsLeft(left, main.id, s, g)
        BY <1>2, <2>1 DEF StageInv
      <3>2. CASE Built(s, g)
        BY <1>1, <1>2, <3>2, BuiltStays
      <3>3. CASE IsLeft(left, main.id, s, g)
        BY <1>2, <2>1, <3>3
      <3> QED BY <3>1, <3>2, <3>3
    <2>2. ASSUME NEW q \in Processes, proc'[q].moved # NoFile,
                 NEW s \in Servers, NEW g \in DOMAIN proc'[q].moved.gens[s],
                 proc'[q].moved.gens[s][g] = "staging"
          PROVE  IsLeft(left', proc'[q].moved.id, s, g)
      <3>1. proc'[q].moved = proc[q].moved
        BY <1>1, <1>2, <2>2
      <3> QED BY <1>2, <2>2, <3>1 DEF StageInv
    <2> QED BY <2>1, <2>2 DEF StageInv
  <1>3. proc[p].pc # "open" => proc[p].building = {}
    BY DEF LockInv, At
  <1>4. ASSUME main' = main
        PROVE  Exists' => /\ Exists /\ main'.id = main.id
                          /\ \A s \in Servers : \A g \in DOMAIN main'.gens[s] :
                               main'.gens[s][g] = "staging" =>
                                 g \in DOMAIN main.gens[s] /\ main.gens[s][g] = "staging"
    BY <1>4 DEF Exists
  <1>5. CASE GivesUp(p)
    <2>1. PICK n : Becomes(p, n) /\ Idle(n)
      BY <1>5, GivesUpIs
    <2>2. proc'[p].moved = NoFile /\ left' = left /\ main' = main /\ proc[p].building = {}
      BY <1>3, <1>5, <2>1, GivesUpIs, OthersStay DEF Idle
    <2> QED BY <1>2, <1>4, <2>2
  <1>6. CASE Enters(p)
    <2>1. /\ proc'[p].moved = proc[p].moved /\ left' = left /\ proc[p].building = {}
          /\ proc'[p].building = {}
      BY <1>3, <1>6, EntersIs
    <2>2. CASE Exists
      <3>1. main' = main
        BY <1>6, <2>2, EntersIs
      <3> QED BY <1>2, <1>4, <2>1, <3>1
    <2>3. CASE ~Exists
      <3>1. /\ main' = EmptyFile(files + 1) /\ files < MaxFiles /\ files \in 1..MaxFiles
            /\ MaxFiles \in Nat
        BY <1>6, <2>3, EntersIs, StorageAssumption DEF Types
      <3>2. files + 1 \in 1..MaxFiles
        BY <3>1
      <3>3. \A s \in Servers : main'.gens[s] = <<>>
        BY <3>1, <3>2, EmptyFileIs
      <3>4. \A q \in Processes : proc'[q].moved = proc[q].moved
        BY <1>1, <2>1
      <3> QED BY <2>1, <3>3, <3>4 DEF StageInv
    <2> QED BY <2>2, <2>3
  <1>7. CASE Prepares(p)
    <2>1. PICK n : Becomes(p, n) /\ GoesOn(p, n)
      BY <1>7, PreparesIs
    <2>2. Exists /\ proc'[p].moved = proc[p].moved /\ left' = left /\ proc[p].building = {}
      BY <1>3, <1>7, <2>1, Attached, OthersStay, PreparesIs DEF GoesOn
    <2>3. main'.gens = main.gens /\ main'.id = main.id
      BY <1>7, <2>2, MigrationsAre DEF Prepares, ReadVersion
    <2> QED BY <1>2, <2>2, <2>3
  <1>8. CASE Recovers(p)
    <2>1. PICK n : Becomes(p, n) /\ GoesOn(p, n)
      BY <1>8, ListsIs, ProbeIs, RecoveryGoto, ClosesIs DEF Recovers
    <2>2. /\ Exists /\ proc'[p].moved = proc[p].moved /\ left' = left
          /\ proc[p].building = {}
      <3>1. left' = left /\ proc[p].pc # "open"
        BY <1>8, ListsIs, ProbeIs, RecoveryGoto, ClosesIs DEF Recovers
      <3> QED BY <1>3, <2>1, <3>1, Attached, OthersStay DEF GoesOn
    <2>3. CASE main' = main
      BY <1>2, <1>4, <2>2, <2>3
    <2>4. CASE NoteInterruption(p)
      BY <1>2, <2>2, <2>4, NoteIs
    <2>5. CASE CloseInterrupted(p)
      BY <1>2, <2>2, <2>5, CloseIs
    <2> QED BY <1>8, <2>3, <2>4, <2>5, ListsIs, ProbeIs, RecoveryGoto DEF Recovers
  <1>9. CASE MoveMain(p) \/ MoveLog(p)
    <2>1. left' = left /\ proc[p].building = {} /\ ~Connected(p)
      BY <1>3, <1>9, MoveMainIs, MoveLogIs DEF Connected
    <2>2. PICK n : /\ Becomes(p, n)
                   /\ \/ n.moved \in {proc[p].moved, NoFile} /\ main' = main
                      \/ n.moved = main /\ main' = NoFile /\ Exists /\ Movable(p)
                      \/ n.moved = NoFile /\ proc[p].moved # NoFile /\ main' = proc[p].moved
      BY <1>9, MoveMainIs, MoveLogIs DEF Idle
    <2>3. proc'[p] = n
      BY <2>2, OthersStay
    <2>4. CASE n.moved \in {proc[p].moved, NoFile} /\ main' = main
      BY <1>2, <1>4, <2>1, <2>3, <2>4
    <2>5. CASE n.moved = main /\ main' = NoFile /\ Exists /\ Movable(p)
      <3>1. \A q \in Processes : proc[q].building = {}
        BY <2>1, <2>5 DEF Movable, Others, LockInv, Connected, At
      <3>2. \A s \in Servers : \A g \in DOMAIN main.gens[s] :
              main.gens[s][g] = "staging" => IsLeft(left', main.id, s, g)
        BY <2>1, <2>5, <3>1 DEF StageInv, Built
      <3>3. ~Exists'
        BY <2>5 DEF Exists, NoFile
      <3> QED BY <1>1, <2>1, <2>3, <2>5, <3>2, <3>3 DEF StageInv
    <2>6. CASE n.moved = NoFile /\ proc[p].moved # NoFile /\ main' = proc[p].moved
      BY <1>1, <2>1, <2>3, <2>6 DEF StageInv
    <2> QED BY <2>2, <2>4, <2>5, <2>6
  <1>10. ASSUME NEW s \in Servers, StartBuild(p, s) PROVE StageInv'
    <2>0. Exists /\ main \in DatabaseFile
      BY <1>10, Attached DEF StartBuild, At, Linked, Steps
    <2>1. PICK n : /\ Becomes(p, n) /\ n.moved = proc[p].moved /\ n.building = {s}
                   /\ n.gen = Len(main.gens[s]) + 1
      BY <1>10, <2>0, StartsIs DEF GoesOn
    <2>2. proc'[p] = n /\ left' = left /\ proc[p].building = {}
      BY <1>10, <2>0, <2>1, StartsIs, OthersStay
    <2>3. /\ main'.gens[s] = Append(main.gens[s], "staging") /\ main.gens[s] \in Seq(States)
          /\ \A t \in Servers \ {s} : main'.gens[t] = main.gens[t]
          /\ main'.id = main.id
      BY <1>10, <2>0, StartIs DEF DatabaseFile
    <2>4. ASSUME NEW t \in Servers, NEW g \in DOMAIN main'.gens[t],
                 main'.gens[t][g] = "staging"
          PROVE  Built(t, g)' \/ IsLeft(left', main'.id, t, g)
      <3>1. CASE t = s /\ g = Len(main.gens[s]) + 1
        BY <2>1, <2>2, <3>1 DEF Built
      <3>2. CASE ~(t = s /\ g = Len(main.gens[s]) + 1)
        <4>1. g \in DOMAIN main.gens[t] /\ main.gens[t][g] = "staging"
          BY <2>3, <2>4, <3>2, StateAdded, SMTT(30)
        <4>2. CASE Built(t, g)
          BY <1>1, <2>2, <4>2, BuiltStays
        <4>3. CASE IsLeft(left, main.id, t, g)
          BY <2>2, <2>3, <4>3
        <4> QED BY <2>0, <4>1, <4>2, <4>3 DEF StageInv
      <3> QED BY <3>1, <3>2
    <2>5. \A q \in Processes : proc'[q].moved = proc[q].moved
      BY <1>1, <2>1, <2>2
    <2> QED BY <2>2, <2>4, <2>5 DEF StageInv
  <1>11. ASSUME NEW s \in Servers, Promote(p, s) \/ FailBuild(p, s) PROVE StageInv'
    <2>0. EndBuild(p, s)
      BY <1>11 DEF Promote, FailBuild
    <2>1. PICK n : Becomes(p, n) /\ n.moved = proc[p].moved /\ n.building = {}
      BY <2>0, EndsIs DEF GoesOn
    <2>2. /\ proc'[p] = n /\ s \in proc[p].building
          /\ \A t \in proc[p].building : t = s
      BY <2>0, <2>1, EndsIs, OthersStay DEF LockInv
    <2>3. Exists
      BY <2>0, Attached DEF EndBuild, At, Linked, Steps
    <2>4. main'.id = main.id /\ (left' = left \/ left' = left \cup Building(p))
      BY <1>11, <2>3, EndIs
    <2>5. ASSUME NEW id, NEW t, NEW g, IsLeft(left, id, t, g) PROVE IsLeft(left', id, t, g)
      BY <2>4, <2>5, LeftIs
    <2>6. ASSUME NEW t \in Servers, NEW g \in DOMAIN main'.gens[t],
                 main'.gens[t][g] = "staging"
          PROVE  Built(t, g)' \/ IsLeft(left', main'.id, t, g)
      <3>1. /\ g \in DOMAIN main.gens[t] /\ main.gens[t][g] = "staging"
            /\ t = s /\ g = proc[p].gen => left' = left \cup Building(p)
        BY <1>11, <2>3, <2>6, EndIs
      <3>2. CASE t \in proc[p].building /\ proc[p].gen = g
        <4>1. left' = left \cup Building(p)
          BY <2>2, <3>1, <3>2
        <4> QED BY <2>4, <3>2, <4>1, LeftIs
      <3>3. CASE Built(t, g) /\ ~(t \in proc[p].building /\ proc[p].gen = g)
        BY <1>1, <3>3, BuiltStays
      <3>4. CASE IsLeft(left, main.id, t, g)
        BY <2>4, <2>5, <3>4
      <3> QED BY <2>3, <3>1, <3>2, <3>3, <3>4 DEF StageInv
    <2>7. \A q \in Processes : proc'[q].moved = proc[q].moved
      BY <1>1, <2>1, <2>2
    <2> QED BY <2>5, <2>6, <2>7 DEF StageInv
  <1>12. ASSUME NEW s \in Servers, SetAutoRefresh(p, s) PROVE StageInv'
    <2>1. Exists /\ proc' = proc /\ left' = left
      BY <1>12, Attached DEF SetAutoRefresh, At, NoFault, Linked, Steps
    <2>2. main'.gens = main.gens /\ main'.id = main.id
      BY <1>12, <2>1, SetIs
    <2> QED BY <2>1, <2>2 DEF StageInv, Built
  <1>13. ASSUME NEW s \in Servers, DeleteIndex(p, s) PROVE StageInv'
    <2>1. /\ Exists /\ proc' = proc /\ left' = {l \in left : l.file # main.id \/ l.server # s}
      BY <1>13, Attached DEF DeleteIndex, At, Linked, Steps
    <2>2. /\ main'.gens[s] = <<>> /\ \A t \in Servers \ {s} : main'.gens[t] = main.gens[t]
          /\ main'.id = main.id
      BY <1>13, <2>1, DeleteIs
    <2>3. ASSUME NEW id, NEW t, NEW g, id # main.id \/ t # s, IsLeft(left, id, t, g)
          PROVE  IsLeft(left', id, t, g)
      BY <2>1, <2>3, LeftIs
    <2>4. ASSUME NEW t \in Servers, NEW g \in DOMAIN main'.gens[t],
                 main'.gens[t][g] = "staging"
          PROVE  Built(t, g)' \/ IsLeft(left', main'.id, t, g)
      <3>1. t # s
        BY <2>2, <2>4
      <3>2. g \in DOMAIN main.gens[t] /\ main.gens[t][g] = "staging"
        BY <2>2, <2>4, <3>1
      <3>3. CASE Built(t, g)
        BY <2>1, <3>3 DEF Built
      <3>4. CASE IsLeft(left, main.id, t, g)
        BY <2>2, <2>3, <3>1, <3>4
      <3> QED BY <2>1, <3>2, <3>3, <3>4 DEF StageInv
    <2>5. ASSUME NEW q \in Processes, proc'[q].moved # NoFile,
                 NEW t \in Servers, NEW g \in DOMAIN proc'[q].moved.gens[t],
                 proc'[q].moved.gens[t][g] = "staging"
          PROVE  IsLeft(left', proc'[q].moved.id, t, g)
      <3>1. proc'[q].moved = proc[q].moved /\ proc[q].moved.id # main.id
        BY <2>1, <2>5 DEF FileInv
      <3>2. IsLeft(left, proc[q].moved.id, t, g)
        BY <2>5, <3>1 DEF StageInv
      <3> QED BY <2>3, <3>1, <3>2
    <2> QED BY <2>4, <2>5 DEF StageInv
  <1>14. CASE CloseDatabase(p) /\ proc[p].building = {}
    <2>1. left' = left /\ main' = main
      BY <1>14 DEF CloseDatabase, Quiet, NoFault
    <2>2. proc'[p].moved = NoFile
      BY <1>14, ExitIs, OthersStay, ClosedIs
    <2> QED BY <1>2, <1>4, <1>14, <2>1, <2>2
  <1>15. CASE Die(p)
    <2>1. left' = left \cup Building(p) /\ main' = main
      BY <1>15 DEF Die
    <2>2. proc'[p].moved = NoFile
      BY <1>15, ExitIs, OthersStay, ClosedIs
    <2>3. ASSUME NEW id, NEW t, NEW g, IsLeft(left, id, t, g) PROVE IsLeft(left', id, t, g)
      BY <2>1, <2>3, LeftIs
    <2>4. ASSUME Exists', NEW t \in Servers, NEW g \in DOMAIN main'.gens[t],
                 main'.gens[t][g] = "staging"
          PROVE  Built(t, g)' \/ IsLeft(left', main'.id, t, g)
      <3>1. CASE t \in proc[p].building /\ proc[p].gen = g
        BY <2>1, <3>1, LeftIs
      <3>2. CASE Built(t, g) /\ ~(t \in proc[p].building /\ proc[p].gen = g)
        BY <1>1, <3>2, BuiltStays
      <3>3. CASE IsLeft(left, main.id, t, g)
        BY <2>1, <2>3, <3>3
      <3>4. Exists
        BY <2>1, <2>4 DEF Exists
      <3> QED BY <2>1, <2>4, <3>1, <3>2, <3>3, <3>4 DEF StageInv
    <2>5. ASSUME NEW q \in Processes, proc'[q].moved # NoFile,
                 NEW t \in Servers, NEW g \in DOMAIN proc'[q].moved.gens[t],
                 proc'[q].moved.gens[t][g] = "staging"
          PROVE  IsLeft(left', proc'[q].moved.id, t, g)
      <3>1. proc'[q].moved = proc[q].moved
        BY <1>1, <2>2, <2>5
      <3> QED BY <2>3, <2>5, <3>1 DEF StageInv
    <2> QED BY <2>4, <2>5 DEF StageInv
  <1> QED BY <1>5, <1>6, <1>7, <1>8, <1>9, <1>10, <1>11, <1>12, <1>13, <1>14, <1>15
          DEF StorageNext, Uses, Leaves

(* Nobody puts a staging generation before a process that is alone. *)
LEMMA AloneNext ==
  ASSUME Types, LockInv, ConnInv, AloneInv, NEW p \in Processes, StorageNext(p)
  PROVE  AloneInv'
  <1>1. ASSUME NEW q \in Processes \ {p}, proc'[q].alone PROVE AloneOK(q)'
    <2>1. Untouched(q) /\ proc[q].alone
      BY <1>1, OthersUntouched DEF Untouched
    <2>2. Connected(q) /\ ~Connected(p) /\ ~Movable(p) /\ AloneOK(q)
      BY <2>1 DEF ConnInv, AloneInv, Movable, Others
    <2>3. ~Enters(p)
      BY <1>1, EntersIs
    <2>4. ~(proc[p].pc \in Linked)
      BY <2>2, ProcIs
    <2>5. main' = main
      BY <2>2, <2>3, <2>4, Kinds DEF Continues, GoesOn, StopsHere, PutsBack, TakesAway, Forgets
    <2> QED BY <2>1, <2>2, <2>5 DEF AloneOK, Untouched, Has, Gens
  <1>2. ASSUME proc'[p].alone PROVE AloneOK(p)'
    <2>1. CASE Enters(p)
      BY <2>1, EntersIs DEF AloneOK
    <2>2. ~Enters(p) => Works(p) /\ proc[p].alone
      <3>1. proc[p].alone => proc[p].pc \notin {"moveMain", "moveLog"}
        BY DEF ConnInv, Connected
      <3>2. ASSUME NEW n, Becomes(p, n) PROVE proc'[p] = n
        BY <3>2, OthersStay
      <3> QED BY <1>2, <3>1, <3>2, Kinds
              DEF Continues, GoesOn, StopsHere, PutsBack, TakesAway, Forgets, Idle
    <2>3. CASE Works(p) /\ proc[p].alone
      <3>0. AloneOK(p) /\ \A q \in Processes \ {p} : ~Connected(q)
        BY <2>3 DEF AloneInv, ConnInv
      <3>1. Exists /\ main \in DatabaseFile
        BY <2>3, Attached, ProcIs DEF ConnInv
      <3>2. CASE Prepares(p)
        <4>1. PICK n : Becomes(p, n) /\ n.pc \in {"migrate2", "migrate3", "create", "check"}
          BY <3>2, PreparesIs
        <4>2. proc'[p].pc \in {"migrate2", "migrate3", "create", "check"}
          BY <4>1, OthersStay
        <4> QED BY <4>2 DEF AloneOK
      <3>3. CASE CheckTables(p) /\ main.health = "ok"
        <4>1. PICK n : Becomes(p, n) /\ n.pc = "recover" /\ n.todo = {s \in Servers : Has(s, "staging")}
          BY <3>3, ListsIs
        <4>2. proc'[p] = n /\ main' = main
          BY <3>3, <4>1, ListsIs, OthersStay
        <4> QED BY <4>1, <4>2 DEF AloneOK, Has, Gens
      <3>4. CASE Probe(p)
        <4>1. main' = main /\ proc[p].pc = "recover"
          BY <3>4, ProbeIs
        <4>2. PICK n : /\ Becomes(p, n)
                       /\ \E s \in Servers :
                            \/ /\ lock[s] # NoProcess /\ n.pc = "recover"
                               /\ n.todo = proc[p].todo \ {s}
                            \/ n.pc = "probe" /\ n.todo = proc[p].todo
          BY <3>4, ProbeIs
        <4>3. proc'[p] = n
          BY <4>2, OthersStay
        <4>4. ASSUME NEW s \in Servers, lock[s] # NoProcess PROVE FALSE
          <5>1. PICK r \in Processes : lock[s] = r
            BY <4>4 DEF Types
          <5>2. Holds(r, s)
            BY <5>1 DEF LockInv
          <5>3. r # p /\ Connected(r)
            BY <4>1, <5>2 DEF Holds, At, Connected
          <5> QED BY <3>0, <5>3
        <4>5. n.pc = "probe" /\ n.todo = proc[p].todo
          BY <4>2, <4>4
        <4> QED BY <3>0, <4>1, <4>3, <4>5 DEF AloneOK, Has, Gens
      <3>5. CASE ProbeEnds(p)
        <4>1. PICK n : Becomes(p, n) /\ n.pc = "note" /\ n.todo = proc[p].todo
          BY <3>5, RecoveryGoto
        <4>2. proc'[p] = n /\ main' = main /\ proc[p].pc = "probe"
          BY <3>5, <4>1, RecoveryGoto, OthersStay
        <4> QED BY <3>0, <4>1, <4>2 DEF AloneOK, Has, Gens
      <3>6. CASE NoteInterruption(p)
        <4>1. PICK n : /\ Becomes(p, n) /\ n.pc = "close" /\ n.todo = proc[p].todo
                       /\ n.listed = proc[p].listed
          BY <3>6, RecoveryGoto
        <4>2. proc'[p] = n /\ proc[p].pc = "note"
          BY <3>6, <4>1, RecoveryGoto, OthersStay
        <4>3. /\ main'.gens = main.gens
              /\ \A s \in Servers : s \in proc[p].listed /\ Has(s, "staging") /\ Has(s, "active")
                                    => main'.noted[s]
          BY <3>1, <3>6, NoteIs
        <4>4. \A s \in Servers : /\ Has(s, "staging")' <=> Has(s, "staging")
                                 /\ Has(s, "active")' <=> Has(s, "active")
          BY <4>3 DEF Has, Gens
        <4>5. proc[p].listed \subseteq Servers
          BY ProcIs
        <4> QED BY <3>0, <4>1, <4>2, <4>3, <4>4, <4>5 DEF AloneOK
      <3>7. CASE CloseInterrupted(p)
        <4>1. PICK n : Becomes(p, n) /\ n.pc = "recover" /\ n.todo = proc[p].todo \ proc[p].listed
          BY <3>7, ClosesIs
        <4>2. proc'[p] = n /\ proc[p].pc = "close"
          BY <3>7, <4>1, ClosesIs, OthersStay
        <4>3. \A s \in Servers : Has(s, "staging")' => Has(s, "staging") /\ s \notin proc[p].listed
          BY <3>1, <3>7, CloseIs DEF Has, Gens
        <4> QED BY <3>0, <4>1, <4>2, <4>3 DEF AloneOK
      <3>8. CASE Opened(p)
        <4>1. PICK n : Becomes(p, n) /\ n.pc = "open"
          BY <3>8, RecoveryGoto
        <4>2. proc'[p] = n
          BY <4>1, OthersStay
        <4> QED BY <4>1, <4>2 DEF AloneOK
      <3>9. ASSUME NEW s \in Servers, StartBuild(p, s) PROVE AloneOK(p)'
        <4>1. PICK n : Becomes(p, n) /\ n.pc = "open"
          BY <3>1, <3>9, StartsIs
        <4>2. proc'[p] = n
          BY <4>1, OthersStay
        <4> QED BY <4>1, <4>2 DEF AloneOK
      <3>10. ASSUME NEW s \in Servers, Promote(p, s) \/ FailBuild(p, s) PROVE AloneOK(p)'
        <4>0. EndBuild(p, s)
          BY <3>10 DEF Promote, FailBuild
        <4>1. PICK n : Becomes(p, n) /\ n.pc = "open"
          BY <4>0, EndsIs
        <4>2. proc'[p] = n
          BY <4>1, OthersStay
        <4> QED BY <4>1, <4>2 DEF AloneOK
      <3>11. ASSUME NEW s \in Servers, SetAutoRefresh(p, s) \/ DeleteIndex(p, s) PROVE AloneOK(p)'
        <4>1. proc' = proc /\ proc[p].pc = "open"
          BY <3>11 DEF SetAutoRefresh, DeleteIndex, At
        <4> QED BY <4>1 DEF AloneOK
      <3> QED BY <2>3, <3>2, <3>3, <3>4, <3>5, <3>6, <3>7, <3>8, <3>9, <3>10, <3>11
              DEF Works, Recovers, Uses
    <2> QED BY <2>1, <2>2, <2>3
  <1> QED BY <1>1, <1>2 DEF AloneInv

(* The invariant is inductive. *)
LEMMA GatewayNext ==
  ASSUME GatewayInv, [Next]_vars
  PROVE  GatewayInv'
  <1>0. Types /\ GateInv /\ LockInv /\ ConnInv /\ FileInv /\ StageInv /\ AloneInv
    BY DEF GatewayInv
  <1>1. Types' /\ GateInv'
    BY <1>0, TypesNext, GateNext
  <1>2. CASE UNCHANGED storageVars
    <2>1. UNCHANGED <<main, files, lock, proc, left, choice>>
      BY <1>2 DEF storageVars
    <2>2. LockInv'
      BY <1>0, <2>1 DEF LockInv, Holds, At
    <2>3. ConnInv'
      BY <1>0, <2>1 DEF ConnInv, Connected, Exists
    <2>4. FileInv'
      BY <1>0, <2>1 DEF FileInv, Right
    <2>5. StageInv'
      BY <1>0, <2>1 DEF StageInv, Built, IsLeft, Exists
    <2>6. AloneInv'
      BY <1>0, <2>1 DEF AloneInv, AloneOK, Has, Gens
    <2> QED BY <1>1, <2>2, <2>3, <2>4, <2>5, <2>6 DEF GatewayInv
  <1>3. ASSUME NEW p \in Processes, StorageNext(p) PROVE GatewayInv'
    BY <1>0, <1>1, <1>3, LockNext, ConnNext, FileNext, StageNext, AloneNext DEF GatewayInv
  <1> QED BY <1>0, <1>2, <1>3, StorageSteps

(* At the first start nothing is open, and the databases found hold choices  *)
(* of nobody the model knows of; staging generations are those of a process  *)
(* that died before.                                                         *)
LEMMA GatewayStart ==
  ASSUME Init PROVE GatewayInv
  <1>0. /\ main \in OldFiles /\ files = 1 /\ lock = [s \in Servers |-> NoProcess]
        /\ proc = [q \in Processes |-> Closed] /\ choice = [s \in Servers |-> NoChoice]
        /\ left = {l \in Generation : l.file = main.id /\ Exists
                     /\ l.gen \in DOMAIN Gens(l.server) /\ Gens(l.server)[l.gen] = "staging"}
        /\ gate = [q \in Processes |-> Down]
    BY DEF Init, StorageInit
  <1>1. main = NoFile \/ (main \in DatabaseFile /\ main.id = 1
          /\ (\A s \in Servers : \A g \in DOMAIN main.gens[s] : main.gens[s][g] # "cut")
          /\ \A s \in Servers : Len(main.gens[s]) <= MaxGens)
    BY <1>0, OldFilesAssumption
  <1>2. \A q \in Processes : proc[q] = Closed
    BY <1>0
  <1>3. \A q \in Processes : /\ proc[q].pc = "closed" /\ proc[q].moved = NoFile
                             /\ proc[q].building = {} /\ ~proc[q].alone
    BY <1>2, ClosedIs
  <1>4. NoChoice \in [file : 0..MaxFiles, set : {"none", "auto", "manual"}] /\ NoChoice.file = 0
    <2>1. 0 \in 0..MaxFiles
      BY StorageAssumption
    <2> QED BY <2>1 DEF NoChoice
  <1>5. Types
    <2>1. Down \in Gate
      BY DEF Down, Gate, Phases, Reports
    <2>2. files \in 1..MaxFiles
      BY <1>0, StorageAssumption
    <2> QED BY <1>0, <1>1, <1>4, <2>1, <2>2, ClosedIs DEF Types, Files
  <1>6. GateInv
    BY <1>3 DEF GateInv
  <1>7. LockInv
    <2>1. \A s \in Servers, q \in Processes : lock[s] # q
      BY <1>0, StorageAssumption
    <2> QED BY <1>3, <2>1 DEF LockInv, Holds, At
  <1>8. ConnInv
    BY <1>3 DEF ConnInv, Connected
  <1>9. FileInv
    <2>1. \A s \in Servers : choice[s].file = 0
      BY <1>0, <1>4
    <2>2. Right(NoFile)
      BY DEF Right
    <2>3. Right(main)
      BY <1>0, <1>1, <2>1 DEF Right
    <2> QED BY <1>0, <1>3, <2>1, <2>2, <2>3 DEF FileInv
  <1>10. StageInv
    <2>1. ASSUME Exists, NEW s \in Servers, NEW g \in DOMAIN main.gens[s],
                 main.gens[s][g] = "staging"
          PROVE  IsLeft(left, main.id, s, g)
      <3>1. /\ main.gens[s] \in Seq(States) /\ Len(main.gens[s]) <= MaxGens
            /\ main.id \in 1..MaxFiles
        BY <1>1, <2>1 DEF Exists, NoFile, DatabaseFile
      <3>2. g \in 1..MaxGens
        BY <2>1, <3>1, StorageAssumption
      <3>3. [file |-> main.id, server |-> s, gen |-> g] \in Generation
        BY <3>1, <3>2 DEF Generation
      <3> QED BY <1>0, <2>1, <3>3 DEF IsLeft, Gens
    <2> QED BY <1>3, <2>1 DEF StageInv
  <1>11. AloneInv
    BY <1>3 DEF AloneInv
  <1> QED BY <1>5, <1>6, <1>7, <1>8, <1>9, <1>10, <1>11 DEF GatewayInv

(* Whatever is found at the first start, whoever dies and wherever, the      *)
(* invariant holds.                                                          *)
LEMMA GatewayHolds == Spec => []GatewayInv
  <1>1. Init => GatewayInv
    BY GatewayStart
  <1>2. GatewayInv /\ [Next]_vars => GatewayInv'
    BY GatewayNext
  <1> QED BY <1>1, <1>2, PTL DEF Spec

-----------------------------------------------------------------------------
(* store.rs, migrate_schema_3_to_4 and open_once: what a user has set stays  *)
(* in force as long as its database is used, for any number of gateways,     *)
(* crashes and files that are moved aside and brought back.                  *)
THEOREM ChoicesAreKept == Spec => []ChoiceKept
  <1>1. GatewayInv => ChoiceKept
    <2> SUFFICES ASSUME GatewayInv, NEW s \in Servers, Exists, choice[s].file = main.id
                 PROVE  main.enrolled[s] = choice[s].set
      BY DEF ChoiceKept
    <2>1. main # NoFile
      BY ExistsIs DEF GatewayInv, Types
    <2> QED BY <2>1 DEF GatewayInv, FileInv, Right
  <1> QED BY <1>1, GatewayHolds, PTL

(* store.rs, open_once: a build that recovery closed is reported by the      *)
(* index it would have replaced, and the recovery of a gateway that has the  *)
(* database to itself leaves no staging generation, however many processes   *)
(* died on the way.                                                          *)
THEOREM InterruptionsAreNoted == Spec => []InterruptionIsNoted
  <1>1. GatewayInv => InterruptionIsNoted
    <2> HAVE GatewayInv
    <2>1. ASSUME NEW s \in Servers, Exists, Has(s, "cut") PROVE main.noted[s]
      <3>1. main # NoFile
        BY <2>1, ExistsIs DEF GatewayInv, Types
      <3> QED BY <2>1, <3>1 DEF GatewayInv, FileInv, Right, Has, Gens
    <2>2. ASSUME NEW p \in Processes, At(p, "recover"), proc[p].alone, proc[p].todo = {},
                 NEW s \in Servers
          PROVE  ~Has(s, "staging")
      BY <2>2 DEF GatewayInv, AloneInv, AloneOK, At
    <2> QED BY <2>1, <2>2 DEF InterruptionIsNoted
  <1> QED BY <1>1, GatewayHolds, PTL

(* run.rs, run_gateway, scheduler.rs, shutdown_background_indexing, and      *)
(* traversal.rs, fail_generation_and_schedule_cleanup: a staging generation  *)
(* has a process that works on it, or exactly its builder died or could not  *)
(* write that it failed; a gateway that stops in order leaves no other, and  *)
(* no file brought back from quarantine holds one.                           *)
THEOREM StagingIsBuilt == Spec => []StagingHasBuilder
  <1>1. GatewayInv => StagingHasBuilder
    BY DEF GatewayInv, StageInv, StagingHasBuilder, Built, IsLeft, Gens
  <1> QED BY <1>1, GatewayHolds, PTL
=============================================================================
