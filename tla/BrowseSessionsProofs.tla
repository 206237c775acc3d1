------------------------ MODULE BrowseSessionsProofs ------------------------
(***************************************************************************)
(* Sessions are bounded, never used after they were closed and never        *)
(* forgotten, for any number of calls, sessions, parents and pages.         *)
(***************************************************************************)
EXTENDS BrowseSessions, FiniteSetTheorems, TLAPS

States == {"none", "open", "lost", "closed", "failed"}

(* How a close may end. *)
Ends == {"closed", "failed"}

(* Idle picks some parent that nobody reads. *)
Locals ==
  [pc : Places, id : Ids \cup {NoId}, key : Keys \cup {Idle.key}, refresh : BOOLEAN,
   temporary : BOOLEAN, search : BOOLEAN, rounds : Int, expired : SUBSET Ids,
   then : {"idle", "sweep", "capacity", "lookup"}]

SessionTypes ==
  /\ live \in SUBSET Ids /\ stale \in SUBSET live
  /\ native \in [Ids -> States]
  /\ lock \in [Ids -> Calls \cup {NoCall}]
  /\ call \in [Calls -> Locals]

(* Places where a call owns a session that is not in the map, holds its     *)
(* operation lock, or has found it in the map.                              *)
Opening == {"insert", "closeExtra"}
Owning == Opening \cup {"closing"}
Locking == {"recheck", "native", "store", "remove", "closing"}
Known == Locking \cup {"await", "awaitClose"}
Sweeping == {"closeExpired", "closingExpired"}

Owns(c, s) == s \in call[c].expired \/ (Mine(c) = s /\ call[c].pc \in Owning)

(* A native session that is open belongs to the map or to one call: what is *)
(* taken out of the map, expired or closed, goes to the call that took it.  *)
OwnInv ==
  /\ \A s \in live : native[s] = "open"
  /\ \A c \in Calls, s \in Ids : Owns(c, s) => native[s] = "open" /\ s \notin live
  /\ \A c, d \in Calls, s \in Ids : Owns(c, s) /\ Owns(d, s) => c = d
  /\ \A c \in Calls : call[c].expired # {} => call[c].pc \in Sweeping
  /\ \A s \in Ids : native[s] = "open" => s \in live \/ \E c \in Calls : Owns(c, s)

(* The lock of a session is held by the call that works on it, and no call  *)
(* works on a session that is still being opened.                           *)
LockInv ==
  /\ \A c \in Calls : call[c].pc \in Locking => lock[Mine(c)] = c
  /\ \A c \in Calls, s \in Ids : lock[s] = c =>
       \/ call[c].pc \in Locking /\ Mine(c) = s
       \/ call[c].pc = "closingExpired" /\ s \in call[c].expired
  /\ \A c \in Calls : call[c].pc \in Known =>
       /\ Mine(c) \in Ids /\ native[Mine(c)] # "none"
       /\ \A d \in Calls : ~(call[d].pc \in Opening /\ Mine(d) = Mine(c))
  /\ \A c \in Calls : call[c].pc \in Opening => Mine(c) \in Ids
  /\ \A c \in Calls, s, t \in Ids : lock[s] = c /\ lock[t] = c => s = t

UseInv ==
  \A c \in Calls : call[c].pc = "native" => native[Mine(c)] \in {"open", "lost"}

SessionInv == SessionTypes /\ OwnInv /\ LockInv /\ UseInv

-----------------------------------------------------------------------------
(* The default locals. *)
LEMMA IdleType ==
  Idle \in Locals /\ Idle.pc = "idle" /\ Idle.expired = {} /\ Idle.id = NoId
  BY DEF Idle, Locals, Places

(* One call gets other locals. *)
LEMMA CallType ==
  ASSUME call \in [Calls -> Locals], NEW c \in Calls, NEW x \in Locals,
         call' = [call EXCEPT ![c] = x]
  PROVE  /\ call' \in [Calls -> Locals] /\ call'[c] = x
         /\ \A d \in Calls \ {c} : call'[d] = call[d]
  OBVIOUS

(* A call goes on at another place, with the rest of its locals. *)
LEMMA GotoIsMove ==
  ASSUME call \in [Calls -> Locals], NEW c \in Calls, NEW p \in Places, Goto(c, p)
  PROVE  \E x \in Locals :
           /\ call' = [call EXCEPT ![c] = x] /\ x.pc = p /\ x.id = call[c].id
           /\ x.expired = call[c].expired
  <1>1. call[c] \in Locals
    OBVIOUS
  <1>2. PICK x \in Locals : x = [call[c] EXCEPT !.pc = p]
    BY <1>1 DEF Locals
  <1>3. x.pc = p /\ x.id = call[c].id /\ x.expired = call[c].expired
    BY <1>1, <1>2 DEF Locals
  <1>4. call' = [call EXCEPT ![c] = x]
    BY <1>2 DEF Goto
  <1> QED BY <1>3, <1>4

-----------------------------------------------------------------------------
(* A call that neither owns a session nor holds a lock moves to a place     *)
(* where it does neither; it comes to wait for a lock only with a session   *)
(* that is in the map.                                                      *)
LEMMA FreeMove ==
  ASSUME SessionInv, NEW c \in Calls, NEW x \in Locals, call' = [call EXCEPT ![c] = x],
         native' = native, lock' = lock, live' = live, stale' \in SUBSET live,
         call[c].expired = {}, call[c].pc \notin Owning \cup Locking \cup {"closingExpired"},
         x.expired = {}, x.pc \notin Owning \cup Locking \cup {"closingExpired"},
         x.pc \in {"await", "awaitClose"} => x.id \in live
  PROVE  SessionInv'
  <1>1. /\ call' \in [Calls -> Locals] /\ call'[c] = x
        /\ \A d \in Calls \ {c} : call'[d] = call[d]
    BY CallType DEF SessionInv, SessionTypes
  <1>2. SessionTypes'
    BY <1>1 DEF SessionInv, SessionTypes
  <1>3. \A d \in Calls, s \in Ids : Owns(d, s)' <=> Owns(d, s)
    BY <1>1 DEF Owns, Mine
  <1>4. OwnInv'
    BY <1>1, <1>3 DEF SessionInv, OwnInv
  <1>5. LockInv'
    <2>1. x.pc \in Known => x.id \in live
      BY DEF Known
    <2>2. x.id \in live => /\ x.id \in Ids /\ native[x.id] # "none"
                           /\ \A d \in Calls : ~(call[d].pc \in Opening /\ Mine(d) = x.id)
      BY DEF SessionInv, SessionTypes, OwnInv, Owns, Owning
    <2> QED BY <1>1, <2>1, <2>2 DEF SessionInv, LockInv, Mine, Owning, Known
  <1>6. UseInv'
    BY <1>1 DEF SessionInv, UseInv, Mine, Locking
  <1> QED BY <1>2, <1>4, <1>5, <1>6 DEF SessionInv

(* A call gets the lock it waits for. *)
LEMMA LockMove ==
  ASSUME SessionInv, NEW c \in Calls, NEW x \in Locals, call' = [call EXCEPT ![c] = x],
         native' = native, live' = live, stale' = stale,
         call[c].pc \in {"await", "awaitClose"}, lock[Mine(c)] = NoCall,
         lock' = [lock EXCEPT ![Mine(c)] = c],
         x.pc \in {"recheck", "remove"}, x.id = Mine(c), x.expired = call[c].expired
  PROVE  SessionInv'
  <1>1. /\ call' \in [Calls -> Locals] /\ call'[c] = x
        /\ \A d \in Calls \ {c} : call'[d] = call[d]
    BY CallType DEF SessionInv, SessionTypes
  <1>2. Mine(c) \in Ids /\ lock \in [Ids -> Calls \cup {NoCall}] /\ NoCall \notin Calls
    BY SessionAssumption DEF SessionInv, SessionTypes, LockInv, Known
  <1>3. SessionTypes'
    BY <1>1, <1>2 DEF SessionInv, SessionTypes
  <1>4. \A d \in Calls, s \in Ids : Owns(d, s)' <=> Owns(d, s)
    BY <1>1 DEF Owns, Mine, Owning, Opening
  <1>5. call[c].expired = {} /\ x.expired = {}
    BY DEF SessionInv, OwnInv, Sweeping
  <1>6. OwnInv'
    BY <1>1, <1>4, <1>5 DEF SessionInv, OwnInv
  <1>7. LockInv'
    <2>1. \A d \in Calls : call'[d].pc \in Locking => lock'[call'[d].id] = d
      BY <1>1, <1>2 DEF SessionInv, LockInv, Mine, Known
    <2>2. \A d \in Calls, s \in Ids : lock'[s] = d =>
            \/ call'[d].pc \in Locking /\ call'[d].id = s
            \/ call'[d].pc = "closingExpired" /\ s \in call'[d].expired
      BY <1>1, <1>2 DEF SessionInv, LockInv, Mine, Locking
    <2>3. \A d \in Calls : call'[d].pc \in Known =>
            /\ call'[d].id \in Ids /\ native[call'[d].id] # "none"
            /\ \A e \in Calls : ~(call'[e].pc \in Opening /\ call'[e].id = call'[d].id)
      BY <1>1 DEF SessionInv, LockInv, Mine, Known, Opening
    <2>4. \A d \in Calls : call'[d].pc \in Opening => call'[d].id \in Ids
      BY <1>1, <1>2 DEF SessionInv, LockInv, Mine
    <2>5. \A d \in Calls, s, t \in Ids : lock'[s] = d /\ lock'[t] = d => s = t
      <3>1. \A s \in Ids : lock[s] # c
        BY DEF SessionInv, LockInv, Locking
      <3> QED BY <1>2, <3>1 DEF SessionInv, LockInv
    <2> QED BY <2>1, <2>2, <2>3, <2>4, <2>5 DEF LockInv, Mine
  <1>8. UseInv'
    BY <1>1 DEF SessionInv, UseInv, Mine
  <1> QED BY <1>3, <1>6, <1>7, <1>8 DEF SessionInv

(* A call gives the lock back and goes where it needs none. *)
LEMMA UnlockMove ==
  ASSUME SessionInv, NEW c \in Calls, NEW x \in Locals, call' = [call EXCEPT ![c] = x],
         native' = native, live' = live, stale' \in SUBSET live,
         call[c].pc \in {"recheck", "native", "store", "remove"},
         lock' = [lock EXCEPT ![Mine(c)] = NoCall],
         x.expired = {}, x.pc \notin Owning \cup Known \cup {"closingExpired"}
  PROVE  SessionInv'
  <1>1. /\ call' \in [Calls -> Locals] /\ call'[c] = x
        /\ \A d \in Calls \ {c} : call'[d] = call[d]
    BY CallType DEF SessionInv, SessionTypes
  <1>2. /\ Mine(c) \in Ids /\ lock \in [Ids -> Calls \cup {NoCall}] /\ NoCall \notin Calls
        /\ lock[Mine(c)] = c
    BY SessionAssumption DEF SessionInv, SessionTypes, LockInv, Known, Locking
  <1>3. SessionTypes'
    BY <1>1, <1>2 DEF SessionInv, SessionTypes
  <1>4. call[c].expired = {}
    BY DEF SessionInv, OwnInv, Sweeping
  <1>5. \A d \in Calls, s \in Ids : Owns(d, s)' <=> Owns(d, s)
    BY <1>1, <1>4 DEF Owns, Mine, Owning, Opening
  <1>6. OwnInv'
    BY <1>1, <1>5 DEF SessionInv, OwnInv
  <1>7. LockInv'
    <2>1. \A d \in Calls : call'[d].pc \in Locking => lock'[call'[d].id] = d
      BY <1>1, <1>2 DEF SessionInv, LockInv, Mine, Known
    <2>2. \A d \in Calls, s \in Ids : lock'[s] = d =>
            \/ call'[d].pc \in Locking /\ call'[d].id = s
            \/ call'[d].pc = "closingExpired" /\ s \in call'[d].expired
      BY <1>1, <1>2 DEF SessionInv, LockInv, Mine
    <2>3. \A d \in Calls : call'[d].pc \in Known =>
            /\ call'[d].id \in Ids /\ native[call'[d].id] # "none"
            /\ \A e \in Calls : ~(call'[e].pc \in Opening /\ call'[e].id = call'[d].id)
      BY <1>1 DEF SessionInv, LockInv, Mine, Owning
    <2>4. \A d \in Calls : call'[d].pc \in Opening => call'[d].id \in Ids
      BY <1>1 DEF SessionInv, LockInv, Mine, Owning
    <2>5. \A d \in Calls, s, t \in Ids : lock'[s] = d /\ lock'[t] = d => s = t
      BY <1>2 DEF SessionInv, LockInv
    <2> QED BY <2>1, <2>2, <2>3, <2>4, <2>5 DEF LockInv, Mine
  <1>8. UseInv'
    BY <1>1 DEF SessionInv, UseInv, Mine, Known, Locking
  <1> QED BY <1>3, <1>6, <1>7, <1>8 DEF SessionInv

(* A call keeps the lock; it goes on to the native session only while that  *)
(* is in the map.                                                           *)
LEMMA KeepMove ==
  ASSUME SessionInv, NEW c \in Calls, NEW x \in Locals, call' = [call EXCEPT ![c] = x],
         native' = native, live' = live, stale' \in SUBSET live, lock' = lock,
         call[c].pc \in {"recheck", "native"}, x.pc \in {"native", "store"},
         x.id = Mine(c), x.expired = call[c].expired, x.pc = "native" => x.id \in live
  PROVE  SessionInv'
  <1>1. /\ call' \in [Calls -> Locals] /\ call'[c] = x
        /\ \A d \in Calls \ {c} : call'[d] = call[d]
    BY CallType DEF SessionInv, SessionTypes
  <1>2. SessionTypes'
    BY <1>1 DEF SessionInv, SessionTypes
  <1>3. call[c].expired = {}
    BY DEF SessionInv, OwnInv, Sweeping
  <1>4. \A d \in Calls, s \in Ids : Owns(d, s)' <=> Owns(d, s)
    BY <1>1, <1>3 DEF Owns, Mine, Owning, Opening
  <1>5. OwnInv'
    BY <1>1, <1>3, <1>4 DEF SessionInv, OwnInv
  <1>6. LockInv'
    BY <1>1 DEF SessionInv, LockInv, Mine, Known, Locking, Opening
  <1>7. UseInv'
    BY <1>1 DEF SessionInv, UseInv, OwnInv, Mine
  <1> QED BY <1>2, <1>5, <1>6, <1>7 DEF SessionInv

-----------------------------------------------------------------------------
(* How a browse ends. *)
LEMMA DoneMove ==
  ASSUME call \in [Calls -> Locals], NEW c \in Calls, call[c].expired = {}, NEW ok \in BOOLEAN,
         Done(c, ok)
  PROVE  \E x \in Locals : /\ call' = [call EXCEPT ![c] = x] /\ x.expired = {}
                           /\ x.pc \in {"close", "idle"}
  <1>1. call[c] \in Locals
    OBVIOUS
  <1>2. PICK y \in Locals : /\ y = [call[c] EXCEPT !.pc = "close"] /\ y.pc = "close"
                            /\ y.expired = {}
    <2>1. "close" \in Places
      BY DEF Places
    <2>2. [call[c] EXCEPT !.pc = "close"] \in Locals
      BY <1>1, <2>1 DEF Locals
    <2> QED BY <1>1, <2>2 DEF Locals
  <1>3. call' = [call EXCEPT ![c] = y] \/ call' = [call EXCEPT ![c] = Idle]
    BY <1>2 DEF Done
  <1> QED BY <1>2, <1>3, IdleType

(* ... and how a page of a search does. *)
LEMMA ReturnMove ==
  ASSUME call \in [Calls -> Locals], NEW c \in Calls, call[c].expired = {}, NEW ok \in BOOLEAN,
         Return(c, ok)
  PROVE  \E x \in Locals : /\ call' = [call EXCEPT ![c] = x] /\ x.expired = {}
                           /\ x.pc \in {"close", "idle", "next", "report"}
  <1>1. CASE Goto(c, "next") \/ Goto(c, "report")
    <2>1. "next" \in Places /\ "report" \in Places
      BY DEF Places
    <2> QED BY <1>1, <2>1, GotoIsMove
  <1>2. CASE Done(c, ok)
    BY <1>2, DoneMove
  <1> QED BY <1>1, <1>2 DEF Return

(* Browse, Search and CloseBrowseSession start with locals of their own. *)
LEMMA InvBegin ==
  ASSUME SessionInv, NEW c \in Calls, Browse(c) \/ Search(c) \/ CloseSession(c)
  PROVE  SessionInv'
  <1>0. /\ call[c].pc = "idle" /\ call[c].expired = {} /\ stale \in SUBSET live
        /\ native' = native /\ lock' = lock /\ live' = live /\ stale' = stale
    BY DEF Browse, Search, CloseSession, Begin, At, SessionInv, SessionTypes, OwnInv, Sweeping
  <1>1. ASSUME NEW r \in Locals, r.pc = "sweep", r.expired = {}, Begin(c, r)
        PROVE  SessionInv'
    <2>1. PICK s \in Ids \cup {NoId}, k \in Keys, f \in BOOLEAN :
            /\ s # NoId => native[s] # "none"
            /\ call' = [call EXCEPT ![c] =
                          [r EXCEPT !.id = s, !.key = k, !.refresh = f, !.temporary = (s = NoId),
                                    !.then = IF s = NoId THEN @ ELSE "lookup"]]
      BY <1>1 DEF Begin
    <2>2. PICK x \in Locals :
            /\ x = [r EXCEPT !.id = s, !.key = k, !.refresh = f, !.temporary = (s = NoId),
                             !.then = IF s = NoId THEN @ ELSE "lookup"]
            /\ x.pc = "sweep" /\ x.expired = {}
      <3>1. k \in Keys \cup {Idle.key} /\ (s = NoId) \in BOOLEAN
        OBVIOUS
      <3>2. (IF s = NoId THEN r.then ELSE "lookup") \in {"idle", "sweep", "capacity", "lookup"}
        BY <1>1 DEF Locals
      <3>3. [r EXCEPT !.id = s, !.key = k, !.refresh = f, !.temporary = (s = NoId),
                      !.then = IF s = NoId THEN @ ELSE "lookup"] \in Locals
        BY <1>1, <3>1, <3>2 DEF Locals
      <3> QED BY <1>1, <3>3 DEF Locals
    <2> QED BY <1>0, <2>1, <2>2, FreeMove DEF Owning, Opening, Locking
  <1>2. CASE Browse(c)
    <2>1. [Idle EXCEPT !.pc = "sweep", !.then = "sweep"] \in Locals
      BY IdleType DEF Locals, Places
    <2> QED BY <1>1, <1>2, <2>1, IdleType DEF Browse, Locals
  <1>3. CASE Search(c)
    <2>1. [Idle EXCEPT !.pc = "sweep", !.then = "capacity", !.search = TRUE,
                       !.rounds = MaxRounds] \in Locals
      <3>1. "sweep" \in Places /\ MaxRounds \in Int
        BY SessionAssumption DEF Places
      <3> QED BY <3>1, IdleType DEF Locals
    <2> QED BY <1>1, <1>3, <2>1, IdleType DEF Search, Locals
  <1>4. CASE CloseSession(c)
    <2>1. PICK s \in Ids : call' = [call EXCEPT ![c] = [Idle EXCEPT !.pc = "close", !.id = s]]
      BY <1>4 DEF CloseSession
    <2>2. PICK x \in Locals : /\ x = [Idle EXCEPT !.pc = "close", !.id = s] /\ x.pc = "close"
                              /\ x.expired = {}
      <3>1. "close" \in Places
        BY DEF Places
      <3>2. [Idle EXCEPT !.pc = "close", !.id = s] \in Locals
        BY <3>1, IdleType DEF Locals
      <3> QED BY <3>2, IdleType DEF Locals
    <2> QED BY <1>0, <2>1, <2>2, FreeMove DEF Owning, Opening, Locking
  <1> QED BY <1>2, <1>3, <1>4

(* The steps of a call that only look: capacity, lookup, the next page. *)
LEMMA InvLook ==
  ASSUME SessionInv, NEW c \in Calls,
         Refuse(c) \/ Capacity(c) \/ Lookup(c) \/ NextPage(c) \/ Report(c) \/ FindSession(c)
  PROVE  SessionInv'
  <1>0. /\ call \in [Calls -> Locals] /\ call[c] \in Locals /\ call[c].expired = {}
        /\ stale \in SUBSET live /\ native' = native /\ lock' = lock /\ live' = live
    BY DEF Refuse, Capacity, Lookup, NextPage, Report, FindSession, At, SessionInv, SessionTypes,
           OwnInv, Sweeping
  <1>1. call[c].pc \in {"closeExpired", "capacity", "lookup", "next", "report", "close"}
    BY DEF Refuse, Capacity, Lookup, NextPage, Report, FindSession, At
  <1>2. stale' \in SUBSET live
    BY <1>0 DEF Refuse, Capacity, Lookup, NextPage, Report, FindSession, Touch
  <1>3. ASSUME NEW x \in Locals, call' = [call EXCEPT ![c] = x], x.expired = {},
               x.pc \in {"idle", "opening", "next", "report", "close", "sweep", "await", "awaitClose"},
               x.pc \in {"await", "awaitClose"} => x.id \in live
        PROVE  SessionInv'
    BY <1>0, <1>1, <1>2, <1>3, FreeMove DEF Owning, Opening, Locking
  <1>4. CASE Refuse(c)
    BY <1>3, <1>4, IdleType DEF Refuse
  <1>5. CASE Capacity(c)
    <2>1. PICK x \in Locals : x = [call[c] EXCEPT !.pc = "opening"] /\ x.pc = "opening"
                              /\ x.expired = {}
      <3>1. "opening" \in Places
        BY DEF Places
      <3>2. [call[c] EXCEPT !.pc = "opening"] \in Locals
        BY <1>0, <3>1 DEF Locals
      <3> QED BY <1>0, <3>2 DEF Locals
    <2>2. call' = [call EXCEPT ![c] = x] \/ call' = [call EXCEPT ![c] = Idle]
      BY <1>5, <2>1 DEF Capacity
    <2> QED BY <1>3, <2>1, <2>2, IdleType
  <1>6. CASE Lookup(c)
    <2>1. CASE Return(c, TRUE) \/ Return(c, FALSE)
      <3>1. PICK x \in Locals : /\ call' = [call EXCEPT ![c] = x] /\ x.expired = {}
                                /\ x.pc \in {"close", "idle", "next", "report"}
        BY <1>0, <2>1, ReturnMove
      <3> QED BY <1>3, <3>1
    <2>2. CASE Mine(c) \in live /\ Goto(c, "await")
      <3>1. PICK x \in Locals : /\ call' = [call EXCEPT ![c] = x] /\ x.pc = "await"
                                /\ x.id = call[c].id /\ x.expired = {}
        BY <1>0, <2>2, GotoIsMove DEF Places
      <3> QED BY <1>3, <2>2, <3>1 DEF Mine
    <2> QED BY <1>6, <2>1, <2>2 DEF Lookup
  <1>7. CASE NextPage(c)
    <2>1. ASSUME NEW k \in Keys,
                 call' = [call EXCEPT ![c].pc = "sweep", ![c].key = k, ![c].refresh = FALSE,
                                      ![c].rounds = @ - 1]
          PROVE  SessionInv'
      <3>1. "sweep" \in Places /\ k \in Keys \cup {Idle.key} /\ call[c].rounds - 1 \in Int
        BY <1>0 DEF Places, Locals
      <3>2. PICK x \in Locals : x = [call[c] EXCEPT !.pc = "sweep", !.key = k,
                                       !.refresh = FALSE, !.rounds = @ - 1]
        BY <1>0, <3>1 DEF Locals
      <3>3. x.pc = "sweep" /\ x.expired = {}
        BY <1>0, <3>2 DEF Locals
      <3>4. call' = [call EXCEPT ![c] = x]
        BY <1>0, <2>1, <3>2
      <3> QED BY <1>3, <3>3, <3>4
    <2>2. CASE Done(c, TRUE)
      BY <1>0, <1>3, <2>2, DoneMove
    <2> QED BY <1>7, <2>1, <2>2 DEF NextPage
  <1>8. CASE FindSession(c)
    <2>1. PICK x \in Locals : /\ x = [call[c] EXCEPT !.pc = "awaitClose"] /\ x.expired = {}
                              /\ x.pc = "awaitClose" /\ x.id = call[c].id
      <3>1. "awaitClose" \in Places
        BY DEF Places
      <3>2. [call[c] EXCEPT !.pc = "awaitClose"] \in Locals
        BY <1>0, <3>1 DEF Locals
      <3> QED BY <1>0, <3>2 DEF Locals
    <2>2. \/ Mine(c) \in live /\ call' = [call EXCEPT ![c] = x]
          \/ call' = [call EXCEPT ![c] = Idle]
      BY <1>8, <2>1 DEF FindSession
    <2> QED BY <1>3, <2>1, <2>2, IdleType DEF Mine
  <1>9. CASE Report(c)
    BY <1>0, <1>3, <1>9, DoneMove DEF Report
  <1> QED BY <1>4, <1>5, <1>6, <1>7, <1>8, <1>9

(* The steps of a call around the operation lock. *)
LEMMA InvLock ==
  ASSUME SessionInv, NEW c \in Calls,
         AwaitLock(c) \/ AwaitClose(c) \/ Recheck(c) \/ NativeBrowse(c) \/ Store(c)
  PROVE  SessionInv'
  <1>0. /\ call \in [Calls -> Locals] /\ call[c] \in Locals /\ call[c].expired = {}
        /\ stale \in SUBSET live /\ native' = native /\ live' = live
    BY DEF AwaitLock, AwaitClose, Recheck, NativeBrowse, Store, At, SessionInv, SessionTypes,
           OwnInv, Sweeping
  <1>1. stale' \in SUBSET live
    BY <1>0 DEF AwaitLock, AwaitClose, Recheck, NativeBrowse, Store, Touch
  <1>2. CASE AwaitLock(c)
    <2>1. PICK x \in Locals : /\ call' = [call EXCEPT ![c] = x] /\ x.pc = "recheck"
                              /\ x.id = call[c].id /\ x.expired = call[c].expired
      BY <1>0, <1>2, GotoIsMove DEF AwaitLock, Places
    <2> QED BY <1>0, <1>2, <2>1, LockMove DEF AwaitLock, At, Mine
  <1>3. CASE AwaitClose(c)
    <2>1. PICK x \in Locals : /\ call' = [call EXCEPT ![c] = x] /\ x.pc = "remove"
                              /\ x.id = call[c].id /\ x.expired = call[c].expired
      BY <1>0, <1>3, GotoIsMove DEF AwaitClose, Places
    <2> QED BY <1>0, <1>3, <2>1, LockMove DEF AwaitClose, At, Mine
  <1>4. ASSUME NEW ok \in BOOLEAN, Return(c, ok), Free(Mine(c)),
               call[c].pc \in {"recheck", "native", "store"}
        PROVE  SessionInv'
    <2>1. PICK x \in Locals : /\ call' = [call EXCEPT ![c] = x] /\ x.expired = {}
                              /\ x.pc \in {"close", "idle", "next", "report"}
      BY <1>0, <1>4, ReturnMove
    <2>2. x.pc \notin Owning \cup Known \cup {"closingExpired"}
      BY <2>1 DEF Owning, Opening, Known, Locking
    <2> QED BY <1>0, <1>1, <1>4, <2>1, <2>2, UnlockMove DEF Free
  <1>5. ASSUME NEW p \in {"native", "store"}, Goto(c, p), UNCHANGED lock,
               call[c].pc \in {"recheck", "native"}, p = "native" => Mine(c) \in live
        PROVE  SessionInv'
    <2>1. PICK x \in Locals : /\ call' = [call EXCEPT ![c] = x] /\ x.pc = p
                              /\ x.id = call[c].id /\ x.expired = call[c].expired
      BY <1>0, <1>5, GotoIsMove DEF Places
    <2> QED BY <1>0, <1>1, <1>5, <2>1, KeepMove DEF Mine
  <1>6. CASE Recheck(c)
    BY <1>4, <1>5, <1>6 DEF Recheck, At
  <1>7. CASE NativeBrowse(c)
    BY <1>4, <1>5, <1>7 DEF NativeBrowse, At
  <1>8. CASE Store(c)
    BY <1>4, <1>8 DEF Store, At
  <1> QED BY <1>2, <1>3, <1>6, <1>7, <1>8

-----------------------------------------------------------------------------
(* remove_expired: what leaves the map becomes the call's. *)
LEMMA InvSweep ==
  ASSUME SessionInv, NEW c \in Calls, Sweep(c)
  PROVE  SessionInv'
  <1>0. /\ call \in [Calls -> Locals] /\ call[c] \in Locals /\ call[c].pc = "sweep"
        /\ call[c].expired = {} /\ stale \in SUBSET live /\ live \in SUBSET Ids
        /\ live' = live \ stale /\ stale' = {} /\ native' = native /\ lock' = lock
    <2>1. call[c].pc = "sweep"
      BY DEF Sweep, At
    <2>2. call[c].expired = {}
      BY <2>1 DEF SessionInv, OwnInv, Sweeping
    <2>3. live' = live \ stale /\ stale' = {} /\ native' = native /\ lock' = lock
      BY DEF Sweep
    <2> QED BY <2>1, <2>2, <2>3 DEF SessionInv, SessionTypes
  <1>1. PICK x \in Locals :
          /\ x = [call[c] EXCEPT !.pc = "closeExpired", !.expired = stale]
          /\ x.pc = "closeExpired" /\ x.id = call[c].id /\ x.expired = stale
    <2>1. "closeExpired" \in Places /\ stale \in SUBSET Ids
      BY <1>0 DEF Places
    <2>2. [call[c] EXCEPT !.pc = "closeExpired", !.expired = stale] \in Locals
      BY <1>0, <2>1 DEF Locals
    <2> QED BY <1>0, <2>2 DEF Locals
  <1>2. call' = [call EXCEPT ![c] = x]
    BY <1>0, <1>1 DEF Sweep
  <1>3. /\ call' \in [Calls -> Locals] /\ call'[c] = x
        /\ \A d \in Calls \ {c} : call'[d] = call[d]
    BY <1>0, <1>2, CallType
  <1>4. SessionTypes'
    BY <1>0, <1>3 DEF SessionInv, SessionTypes
  <1>5. /\ \A d \in Calls \ {c}, s \in Ids : Owns(d, s)' <=> Owns(d, s)
        /\ \A s \in Ids : Owns(c, s)' <=> s \in stale
        /\ \A s \in Ids : ~Owns(c, s)
    BY <1>0, <1>1, <1>3 DEF Owns, Mine, Owning, Opening
  <1>6. OwnInv'
    <2>1. \A d \in Calls, s \in Ids : Owns(d, s)' => native[s] = "open" /\ s \notin live'
      BY <1>0, <1>5 DEF SessionInv, OwnInv
    <2>2. \A d, e \in Calls, s \in Ids : Owns(d, s)' /\ Owns(e, s)' => d = e
      BY <1>0, <1>5 DEF SessionInv, OwnInv
    <2>3. \A d \in Calls : call'[d].expired # {} => call'[d].pc \in Sweeping
      BY <1>1, <1>3 DEF SessionInv, OwnInv, Sweeping
    <2>4. \A s \in Ids : native[s] = "open" => s \in live' \/ \E d \in Calls : Owns(d, s)'
      BY <1>0, <1>5 DEF SessionInv, OwnInv
    <2> QED BY <1>0, <2>1, <2>2, <2>3, <2>4 DEF SessionInv, OwnInv
  <1>7. LockInv'
    <2>1. /\ x.pc \notin Known \cup Locking \cup Opening \cup {"closingExpired"}
          /\ call[c].pc \notin Known \cup Locking \cup Opening \cup {"closingExpired"}
      BY <1>0, <1>1 DEF Known, Locking, Opening
    <2> QED BY <1>0, <1>3, <2>1 DEF SessionInv, LockInv, Mine
  <1>8. UseInv'
    BY <1>0, <1>1, <1>3 DEF SessionInv, UseInv, Mine
  <1> QED BY <1>4, <1>6, <1>7, <1>8 DEF SessionInv

(* close_expired takes the lock of an expired session, or is done. *)
LEMMA InvCloseExpired ==
  ASSUME SessionInv, NEW c \in Calls, CloseExpired(c)
  PROVE  SessionInv'
  <1>0. /\ call \in [Calls -> Locals] /\ call[c] \in Locals /\ call[c].pc = "closeExpired"
        /\ stale' = stale /\ stale \in SUBSET live /\ live' = live /\ native' = native
        /\ lock \in [Ids -> Calls \cup {NoCall}] /\ call[c].expired \in SUBSET Ids
        /\ NoCall \notin Calls
    BY SessionAssumption DEF CloseExpired, At, SessionInv, SessionTypes, Locals
  <1>1. ASSUME NEW t \in call[c].expired, lock[t] = NoCall, lock' = [lock EXCEPT ![t] = c],
               Goto(c, "closingExpired")
        PROVE  SessionInv'
    <2>1. PICK x \in Locals : /\ call' = [call EXCEPT ![c] = x] /\ x.pc = "closingExpired"
                              /\ x.id = call[c].id /\ x.expired = call[c].expired
      BY <1>0, <1>1, GotoIsMove DEF Places
    <2>2. /\ call' \in [Calls -> Locals] /\ call'[c] = x
          /\ \A d \in Calls \ {c} : call'[d] = call[d]
      BY <1>0, <2>1, CallType
    <2>3. t \in Ids /\ SessionTypes'
      BY <1>0, <1>1, <2>2 DEF SessionInv, SessionTypes
    <2>4. \A d \in Calls, s \in Ids : Owns(d, s)' <=> Owns(d, s)
      BY <1>0, <2>1, <2>2 DEF Owns, Mine, Owning, Opening
    <2>5. OwnInv'
      BY <1>0, <2>1, <2>2, <2>4 DEF SessionInv, OwnInv, Sweeping
    <2>6. LockInv'
      <3>1. \A d \in Calls : call'[d].pc \in Locking => lock'[call'[d].id] = d
        BY <1>0, <1>1, <2>1, <2>2, <2>3 DEF SessionInv, LockInv, Mine, Known, Locking
      <3>2. \A d \in Calls, s \in Ids : lock'[s] = d =>
              \/ call'[d].pc \in Locking /\ call'[d].id = s
              \/ call'[d].pc = "closingExpired" /\ s \in call'[d].expired
        BY <1>0, <1>1, <2>1, <2>2, <2>3 DEF SessionInv, LockInv, Mine, Locking
      <3>3. \A d \in Calls : call'[d].pc \in Known =>
              /\ call'[d].id \in Ids /\ native[call'[d].id] # "none"
              /\ \A e \in Calls : ~(call'[e].pc \in Opening /\ call'[e].id = call'[d].id)
        BY <2>1, <2>2 DEF SessionInv, LockInv, Mine, Known, Locking, Opening
      <3>4. \A d \in Calls : call'[d].pc \in Opening => call'[d].id \in Ids
        BY <2>1, <2>2 DEF SessionInv, LockInv, Mine, Opening
      <3>5. \A d \in Calls, s, u \in Ids : lock'[s] = d /\ lock'[u] = d => s = u
        <4>1. \A s \in Ids : lock[s] # c
          BY <1>0 DEF SessionInv, LockInv, Locking
        <4> QED BY <1>0, <1>1, <4>1 DEF SessionInv, LockInv
      <3> QED BY <1>0, <3>1, <3>2, <3>3, <3>4, <3>5 DEF LockInv, Mine
    <2>7. UseInv'
      BY <1>0, <2>1, <2>2 DEF SessionInv, UseInv, Mine
    <2> QED BY <2>3, <2>5, <2>6, <2>7 DEF SessionInv
  <1>2. CASE /\ call[c].expired = {} /\ UNCHANGED lock
             /\ call' = [call EXCEPT ![c].pc = call[c].then,
                           ![c].then = IF @ = "sweep" THEN "capacity" ELSE @]
    <2>1. /\ call[c].then \in {"idle", "sweep", "capacity", "lookup"}
          /\ call[c].then \in Places
      BY <1>0 DEF Locals, Places
    <2>2. (IF call[c].then = "sweep" THEN "capacity" ELSE call[c].then)
            \in {"idle", "sweep", "capacity", "lookup"}
      BY <2>1
    <2>3. PICK x \in Locals :
            x = [call[c] EXCEPT !.pc = call[c].then,
                                !.then = IF @ = "sweep" THEN "capacity" ELSE @]
      BY <1>0, <2>1, <2>2 DEF Locals
    <2>4. x.pc = call[c].then /\ x.expired = {}
      BY <1>0, <1>2, <2>3 DEF Locals
    <2>5. call' = [call EXCEPT ![c] = x]
      BY <1>0, <1>2, <2>3
    <2> QED BY <1>0, <1>2, <2>1, <2>4, <2>5, FreeMove DEF Owning, Opening, Locking
  <1> QED BY <1>1, <1>2 DEF CloseExpired

(* A session is closed by the call that owns it, and the call then has one  *)
(* session less, and no lock on it.                                         *)
LEMMA CloseMove ==
  ASSUME SessionInv, NEW c \in Calls, NEW t \in Ids, Owns(c, t), NEW x \in Locals,
         call' = [call EXCEPT ![c] = x], live' = live, stale' = stale,
         NEW r \in Ends, native' = [native EXCEPT ![t] = r],
         lock[t] \in {NoCall, c}, lock' = [lock EXCEPT ![t] = NoCall],
         \A s \in Ids : s # t => lock[s] # c,
         x.pc \notin Owning \cup Known \cup {"closingExpired"},
         \A s \in Ids : s \in x.expired <=> (s # t /\ Owns(c, s)),
         x.expired # {} => x.pc \in Sweeping
  PROVE  SessionInv'
  <1>0. /\ call \in [Calls -> Locals] /\ native \in [Ids -> States] /\ NoCall \notin Calls
        /\ lock \in [Ids -> Calls \cup {NoCall}] /\ r \in States /\ r \notin {"none", "open"}
    BY SessionAssumption DEF SessionInv, SessionTypes, States, Ends
  <1>1. /\ call' \in [Calls -> Locals] /\ call'[c] = x
        /\ \A d \in Calls \ {c} : call'[d] = call[d]
    BY <1>0, CallType
  <1>2. SessionTypes'
    BY <1>0, <1>1 DEF SessionInv, SessionTypes
  <1>3. /\ \A d \in Calls \ {c}, s \in Ids : Owns(d, s)' <=> Owns(d, s)
        /\ \A s \in Ids : Owns(c, s)' <=> s # t /\ Owns(c, s)
    BY <1>1 DEF Owns, Mine
  <1>4. \A d \in Calls, s \in Ids : Owns(d, s)' => Owns(d, s) /\ s # t
    BY <1>3 DEF SessionInv, OwnInv
  <1>5. t \notin live
    BY DEF SessionInv, OwnInv
  <1>6. OwnInv'
    <2>1. \A s \in live : native'[s] = "open"
      BY <1>0, <1>5 DEF SessionInv, SessionTypes, OwnInv
    <2>2. \A d \in Calls, s \in Ids : Owns(d, s)' => native'[s] = "open" /\ s \notin live
      BY <1>0, <1>4 DEF SessionInv, OwnInv
    <2>3. \A d, e \in Calls, s \in Ids : Owns(d, s)' /\ Owns(e, s)' => d = e
      BY <1>4 DEF SessionInv, OwnInv
    <2>4. \A d \in Calls : call'[d].expired # {} => call'[d].pc \in Sweeping
      BY <1>1 DEF SessionInv, OwnInv
    <2>5. \A s \in Ids : native'[s] = "open" => s \in live \/ \E d \in Calls : Owns(d, s)'
      BY <1>0, <1>3 DEF SessionInv, OwnInv
    <2> QED BY <2>1, <2>2, <2>3, <2>4, <2>5 DEF OwnInv
  <1>7. LockInv'
    <2>1. \A d \in Calls : call'[d].pc \in Locking => lock'[call'[d].id] = d
      BY <1>0, <1>1 DEF SessionInv, LockInv, Mine, Known
    <2>2. \A d \in Calls, s \in Ids : lock'[s] = d =>
            \/ call'[d].pc \in Locking /\ call'[d].id = s
            \/ call'[d].pc = "closingExpired" /\ s \in call'[d].expired
      BY <1>0, <1>1 DEF SessionInv, LockInv, Mine
    <2>3. \A d \in Calls : call'[d].pc \in Known =>
            /\ call'[d].id \in Ids /\ native'[call'[d].id] # "none"
            /\ \A e \in Calls : ~(call'[e].pc \in Opening /\ call'[e].id = call'[d].id)
      BY <1>0, <1>1 DEF SessionInv, LockInv, Mine, Owning
    <2>4. \A d \in Calls : call'[d].pc \in Opening => call'[d].id \in Ids
      BY <1>1 DEF SessionInv, LockInv, Mine, Owning
    <2>5. \A d \in Calls, s, u \in Ids : lock'[s] = d /\ lock'[u] = d => s = u
      BY <1>0 DEF SessionInv, LockInv
    <2> QED BY <2>1, <2>2, <2>3, <2>4, <2>5 DEF LockInv, Mine
  <1>8. UseInv'
    <2>1. ASSUME NEW d \in Calls, call'[d].pc = "native"
          PROVE  native'[call'[d].id] \in {"open", "lost"}
      <3>1. d # c /\ call'[d] = call[d]
        BY <1>1, <2>1 DEF Known, Locking
      <3>2. lock[Mine(d)] = d /\ Mine(d) \in Ids
        BY <2>1, <3>1 DEF SessionInv, LockInv, Known, Locking
      <3>3. Mine(d) # t
        BY <1>0, <3>1, <3>2
      <3>4. native[Mine(d)] \in {"open", "lost"}
        BY <2>1, <3>1 DEF SessionInv, UseInv
      <3> QED BY <1>0, <3>1, <3>2, <3>3, <3>4 DEF Mine
    <2> QED BY <2>1 DEF UseInv, Mine
  <1> QED BY <1>2, <1>6, <1>7, <1>8 DEF SessionInv

(* The locks a call holds. *)
LEMMA LocksOf ==
  ASSUME SessionInv, NEW c \in Calls, NEW s \in Ids, lock[s] = c
  PROVE  \/ call[c].pc \in Locking /\ Mine(c) = s
         \/ call[c].pc = "closingExpired" /\ s \in call[c].expired
  BY DEF SessionInv, LockInv

(* close_expired closes an expired session. *)
LEMMA InvNativeCloseExpired ==
  ASSUME SessionInv, NEW c \in Calls, NativeCloseExpired(c)
  PROVE  SessionInv'
  <1>0. /\ call \in [Calls -> Locals] /\ call[c] \in Locals /\ call[c].pc = "closingExpired"
        /\ live' = live /\ stale' = stale /\ call[c].expired \in SUBSET Ids
    BY DEF NativeCloseExpired, At, SessionInv, SessionTypes, Locals
  <1>1. PICK t \in call[c].expired, r \in Ends :
          /\ lock[t] = c /\ Free(t) /\ native' = [native EXCEPT ![t] = r]
          /\ call' = [call EXCEPT ![c].pc = "closeExpired", ![c].expired = @ \ {t}]
    BY DEF NativeCloseExpired, CloseNative, Ends
  <1>2. PICK x \in Locals :
          /\ x = [call[c] EXCEPT !.pc = "closeExpired", !.expired = @ \ {t}]
          /\ x.pc = "closeExpired" /\ x.expired = call[c].expired \ {t}
    <2>1. "closeExpired" \in Places /\ call[c].expired \ {t} \in SUBSET Ids
      BY <1>0 DEF Places
    <2>2. [call[c] EXCEPT !.pc = "closeExpired", !.expired = @ \ {t}] \in Locals
      BY <1>0, <2>1 DEF Locals
    <2> QED BY <1>0, <2>2 DEF Locals
  <1>3. call' = [call EXCEPT ![c] = x]
    BY <1>0, <1>1, <1>2
  <1>4. t \in Ids /\ Owns(c, t)
    BY <1>0 DEF Owns
  <1>5. \A s \in Ids : s \in x.expired <=> (s # t /\ Owns(c, s))
    BY <1>0, <1>2 DEF Owns, Owning, Opening
  <1>6. \A s \in Ids : s # t => lock[s] # c
    BY <1>1, <1>4 DEF SessionInv, LockInv
  <1>7. x.pc \notin Owning \cup Known \cup {"closingExpired"} /\ x.pc \in Sweeping
    BY <1>2 DEF Owning, Opening, Known, Locking, Sweeping
  <1>8. /\ lock[t] \in {NoCall, c} /\ lock' = [lock EXCEPT ![t] = NoCall]
        /\ native' = [native EXCEPT ![t] = r] /\ live' = live /\ stale' = stale
    BY <1>0, <1>1 DEF Free
  <1> QED BY <1>3, <1>4, <1>5, <1>6, <1>7, <1>8, CloseMove

(* close_session closes what it has taken out of the map. *)
LEMMA InvNativeClose ==
  ASSUME SessionInv, NEW c \in Calls, NativeClose(c)
  PROVE  SessionInv'
  <1>0. /\ call[c].pc = "closing" /\ live' = live /\ stale' = stale
        /\ call' = [call EXCEPT ![c] = Idle] /\ lock' = [lock EXCEPT ![Mine(c)] = NoCall]
    BY DEF NativeClose, At, Free
  <1>5. PICK r \in Ends : native' = [native EXCEPT ![Mine(c)] = r]
    BY DEF NativeClose, CloseNative, Ends
  <1>1. Mine(c) \in Ids /\ Owns(c, Mine(c)) /\ lock[Mine(c)] = c /\ call[c].expired = {}
    BY <1>0 DEF SessionInv, LockInv, OwnInv, Owns, Owning, Opening, Known, Locking, Sweeping
  <1>2. \A s \in Ids : s # Mine(c) => lock[s] # c
    BY <1>0, LocksOf
  <1>3. \A s \in Ids : s \in Idle.expired <=> (s # Mine(c) /\ Owns(c, s))
    BY <1>1, IdleType DEF Owns
  <1>4. Idle.pc \notin Owning \cup Known \cup {"closingExpired"}
    BY IdleType DEF Owning, Opening, Known, Locking
  <1> QED BY <1>0, <1>1, <1>2, <1>3, <1>4, <1>5, IdleType, CloseMove

(* open_session closes the session it has no room for. *)
LEMMA InvCloseExtra ==
  ASSUME SessionInv, NEW c \in Calls, CloseExtra(c)
  PROVE  SessionInv'
  <1>0. /\ call[c].pc = "closeExtra" /\ live' = live /\ stale' = stale /\ lock' = lock
        /\ call' = [call EXCEPT ![c] = Idle]
    BY DEF CloseExtra, At
  <1>9. PICK r \in Ends : native' = [native EXCEPT ![Mine(c)] = r]
    BY DEF CloseExtra, CloseNative, Ends
  <1>1. Mine(c) \in Ids /\ Owns(c, Mine(c)) /\ call[c].expired = {}
    BY <1>0 DEF SessionInv, LockInv, OwnInv, Owns, Owning, Opening, Sweeping
  <1>2. \A s \in Ids : lock[s] # c
    BY <1>0, LocksOf DEF Locking
  <1>3. lock[Mine(c)] = NoCall
    <2>1. ASSUME NEW d \in Calls, lock[Mine(c)] = d PROVE FALSE
      <3>1. d # c
        BY <1>1, <1>2, <2>1
      <3>2. ~(call[d].pc \in Locking /\ Mine(d) = Mine(c))
        BY <1>0 DEF SessionInv, LockInv, Known, Opening
      <3>3. ~(Mine(c) \in call[d].expired)
        BY <1>1, <3>1 DEF SessionInv, OwnInv, Owns
      <3> QED BY <1>1, <2>1, <3>2, <3>3, LocksOf
    <2> QED BY <1>1, <2>1 DEF SessionInv, SessionTypes
  <1>4. lock' = [lock EXCEPT ![Mine(c)] = NoCall]
    BY <1>0, <1>1, <1>3 DEF SessionInv, SessionTypes
  <1>5. \A s \in Ids : s \in Idle.expired <=> (s # Mine(c) /\ Owns(c, s))
    BY <1>1, IdleType DEF Owns
  <1>6. Idle.pc \notin Owning \cup Known \cup {"closingExpired"}
    BY IdleType DEF Owning, Opening, Known, Locking
  <1> QED BY <1>9, <1>0, <1>1, <1>2, <1>3, <1>4, <1>5, <1>6, IdleType, CloseMove

(* open_session: the native session is open before the map knows of it. *)
LEMMA InvNativeOpen ==
  ASSUME SessionInv, NEW c \in Calls, NativeOpen(c)
  PROVE  SessionInv'
  <1>0. /\ call \in [Calls -> Locals] /\ call[c] \in Locals /\ call[c].pc = "opening"
        /\ stale' = stale /\ stale \in SUBSET live /\ live' = live /\ lock' = lock
        /\ native \in [Ids -> States] /\ live \in SUBSET Ids
    BY DEF NativeOpen, At, SessionInv, SessionTypes
  <1>1. call[c].expired = {}
    BY <1>0 DEF SessionInv, OwnInv, Sweeping
  <1>2. CASE call' = [call EXCEPT ![c] = Idle] /\ UNCHANGED native
    BY <1>0, <1>1, <1>2, IdleType, FreeMove DEF Owning, Opening, Locking
  <1>3. ASSUME NEW t \in Ids, native[t] = "none", native' = [native EXCEPT ![t] = "open"],
               call' = [call EXCEPT ![c].pc = "insert", ![c].id = t]
        PROVE  SessionInv'
    <2>1. PICK x \in Locals : /\ x = [call[c] EXCEPT !.pc = "insert", !.id = t]
                              /\ x.pc = "insert" /\ x.id = t /\ x.expired = {}
      <3>1. "insert" \in Places
        BY DEF Places
      <3>2. [call[c] EXCEPT !.pc = "insert", !.id = t] \in Locals
        BY <1>0, <3>1 DEF Locals
      <3> QED BY <1>0, <1>1, <3>2 DEF Locals
    <2>2. call' = [call EXCEPT ![c] = x]
      BY <1>0, <1>3, <2>1
    <2>3. /\ call' \in [Calls -> Locals] /\ call'[c] = x
          /\ \A d \in Calls \ {c} : call'[d] = call[d]
      BY <1>0, <2>2, CallType
    <2>4. SessionTypes'
      BY <1>0, <1>3, <2>3 DEF SessionInv, SessionTypes, States
    <2>5. /\ \A d \in Calls \ {c}, s \in Ids : Owns(d, s)' <=> Owns(d, s)
          /\ \A s \in Ids : Owns(c, s)' <=> s = t
          /\ \A s \in Ids : ~Owns(c, s)
      BY <1>0, <1>1, <2>1, <2>3 DEF Owns, Mine, Owning, Opening
    <2>6. t \notin live /\ \A d \in Calls : ~Owns(d, t)
      BY <1>3 DEF SessionInv, OwnInv
    <2>7. OwnInv'
      <3>1. \A s \in live : native'[s] = "open"
        BY <1>0, <1>3, <2>6 DEF SessionInv, OwnInv
      <3>2. \A d \in Calls, s \in Ids : Owns(d, s)' => native'[s] = "open" /\ s \notin live
        BY <1>0, <1>3, <2>5, <2>6 DEF SessionInv, OwnInv
      <3>3. \A d, e \in Calls, s \in Ids : Owns(d, s)' /\ Owns(e, s)' => d = e
        BY <2>5, <2>6 DEF SessionInv, OwnInv
      <3>4. \A d \in Calls : call'[d].expired # {} => call'[d].pc \in Sweeping
        BY <2>1, <2>3 DEF SessionInv, OwnInv
      <3>5. \A s \in Ids : native'[s] = "open" => s \in live \/ \E d \in Calls : Owns(d, s)'
        BY <1>0, <1>3, <2>5 DEF SessionInv, OwnInv
      <3> QED BY <1>0, <3>1, <3>2, <3>3, <3>4, <3>5 DEF OwnInv
    <2>8. /\ x.pc \notin Known \cup Locking \cup {"closingExpired"} /\ x.pc \in Opening
          /\ call[c].pc \notin Known \cup Locking \cup Opening \cup {"closingExpired"}
      BY <1>0, <2>1 DEF Known, Locking, Opening
    <2>9. LockInv'
      <3>1. \A d \in Calls : call'[d].pc \in Known =>
              /\ call'[d].id \in Ids /\ native'[call'[d].id] # "none"
              /\ \A e \in Calls : ~(call'[e].pc \in Opening /\ call'[e].id = call'[d].id)
        BY <1>0, <1>3, <2>1, <2>3, <2>8 DEF SessionInv, LockInv, Mine
      <3>2. /\ \A d \in Calls : call'[d].pc \in Locking => lock'[call'[d].id] = d
            /\ \A d \in Calls, s \in Ids : lock'[s] = d =>
                 \/ call'[d].pc \in Locking /\ call'[d].id = s
                 \/ call'[d].pc = "closingExpired" /\ s \in call'[d].expired
        BY <1>0, <2>3, <2>8 DEF SessionInv, LockInv, Mine
      <3>3. \A d \in Calls : call'[d].pc \in Opening => call'[d].id \in Ids
        <4>1. call'[c].id \in Ids
          BY <2>1, <2>3
        <4>2. \A d \in Calls \ {c} : call'[d].pc \in Opening => call'[d].id \in Ids
          BY <2>3 DEF SessionInv, LockInv, Mine
        <4> QED BY <4>1, <4>2
      <3> QED BY <1>0, <3>1, <3>2, <3>3 DEF SessionInv, LockInv, Mine
    <2>10. UseInv'
      BY <1>0, <1>3, <2>3, <2>8 DEF SessionInv, UseInv, LockInv, Mine, Known, Locking
    <2> QED BY <2>4, <2>7, <2>9, <2>10 DEF SessionInv
  <1> QED BY <1>2, <1>3 DEF NativeOpen

(* open_session: the session enters the map, or is closed again. *)
LEMMA InvInsert ==
  ASSUME SessionInv, NEW c \in Calls, Insert(c)
  PROVE  SessionInv'
  <1>0. /\ call \in [Calls -> Locals] /\ call[c] \in Locals /\ call[c].pc = "insert"
        /\ stale' = stale /\ stale \in SUBSET live /\ lock' = lock /\ native' = native
        /\ live \in SUBSET Ids
    BY DEF Insert, At, SessionInv, SessionTypes
  <1>1. /\ call[c].expired = {} /\ Mine(c) \in Ids /\ Owns(c, Mine(c))
        /\ native[Mine(c)] = "open" /\ Mine(c) \notin live
    BY <1>0 DEF SessionInv, OwnInv, LockInv, Sweeping, Owns, Owning, Opening
  <1>2. \A d \in Calls \ {c} : ~Owns(d, Mine(c))
    BY <1>1 DEF SessionInv, OwnInv
  <1>3. CASE Goto(c, "closeExtra") /\ UNCHANGED live
    <2>1. PICK x \in Locals : /\ call' = [call EXCEPT ![c] = x] /\ x.pc = "closeExtra"
                              /\ x.id = call[c].id /\ x.expired = {}
      BY <1>0, <1>1, <1>3, GotoIsMove DEF Places
    <2>2. /\ call' \in [Calls -> Locals] /\ call'[c] = x
          /\ \A d \in Calls \ {c} : call'[d] = call[d]
      BY <1>0, <2>1, CallType
    <2>3. SessionTypes'
      BY <1>0, <1>3, <2>2 DEF SessionInv, SessionTypes
    <2>4. \A d \in Calls, s \in Ids : Owns(d, s)' <=> Owns(d, s)
      BY <1>0, <1>1, <2>1, <2>2 DEF Owns, Mine, Owning, Opening
    <2>5. OwnInv'
      BY <1>0, <1>1, <1>3, <2>1, <2>2, <2>4 DEF SessionInv, OwnInv
    <2>6. /\ x.pc \notin Known \cup Locking \cup {"closingExpired"}
          /\ call[c].pc \notin Known \cup Locking \cup {"closingExpired"}
          /\ x.pc \in Opening /\ call[c].pc \in Opening
      BY <1>0, <2>1 DEF Known, Locking, Opening
    <2>7. LockInv'
      BY <1>0, <2>1, <2>2, <2>6 DEF SessionInv, LockInv, Mine
    <2>8. UseInv'
      BY <1>0, <2>1, <2>2 DEF SessionInv, UseInv, Mine
    <2> QED BY <2>3, <2>5, <2>7, <2>8 DEF SessionInv
  <1>4. CASE live' = live \cup {Mine(c)} /\ Opened(c)
    <2>1. PICK p \in {"sweep", "lookup"} :
            call' = [call EXCEPT ![c].pc = p, ![c].then = "lookup"]
      BY <1>4 DEF Opened
    <2>2. PICK x \in Locals : x = [call[c] EXCEPT !.pc = p, !.then = "lookup"]
      <3>1. p \in Places
        BY DEF Places
      <3> QED BY <1>0, <3>1 DEF Locals
    <2>3. x.pc = p /\ x.expired = {}
      BY <1>0, <1>1, <2>2 DEF Locals
    <2>4. call' = [call EXCEPT ![c] = x]
      BY <1>0, <2>1, <2>2
    <2>5. /\ call' \in [Calls -> Locals] /\ call'[c] = x
          /\ \A d \in Calls \ {c} : call'[d] = call[d]
      BY <1>0, <2>4, CallType
    <2>6. SessionTypes'
      BY <1>0, <1>1, <1>4, <2>5 DEF SessionInv, SessionTypes
    <2>7. /\ \A d \in Calls \ {c}, s \in Ids : Owns(d, s)' <=> Owns(d, s)
          /\ \A s \in Ids : ~Owns(c, s)'
          /\ \A s \in Ids : Owns(c, s) => s = Mine(c)
      BY <1>0, <1>1, <2>3, <2>5 DEF Owns, Mine, Owning, Opening
    <2>8. OwnInv'
      <3>1. \A s \in live' : native[s] = "open"
        BY <1>1, <1>4 DEF SessionInv, OwnInv
      <3>2. \A d \in Calls, s \in Ids : Owns(d, s)' => native[s] = "open" /\ s \notin live'
        BY <1>2, <1>4, <2>7 DEF SessionInv, OwnInv
      <3>3. \A d, e \in Calls, s \in Ids : Owns(d, s)' /\ Owns(e, s)' => d = e
        BY <2>7 DEF SessionInv, OwnInv
      <3>4. \A d \in Calls : call'[d].expired # {} => call'[d].pc \in Sweeping
        BY <2>3, <2>5 DEF SessionInv, OwnInv
      <3>5. \A s \in Ids : native[s] = "open" => s \in live' \/ \E d \in Calls : Owns(d, s)'
        BY <1>4, <2>7 DEF SessionInv, OwnInv
      <3> QED BY <1>0, <3>1, <3>2, <3>3, <3>4, <3>5 DEF OwnInv
    <2>9. /\ x.pc \notin Known \cup Locking \cup Opening \cup {"closingExpired"}
          /\ call[c].pc \notin Known \cup Locking \cup {"closingExpired"}
      BY <1>0, <2>3 DEF Known, Locking, Opening
    <2>10. LockInv'
      BY <1>0, <2>5, <2>9 DEF SessionInv, LockInv, Mine
    <2>11. UseInv'
      BY <1>0, <2>3, <2>5 DEF SessionInv, UseInv, Mine
    <2> QED BY <2>6, <2>8, <2>10, <2>11 DEF SessionInv
  <1> QED BY <1>3, <1>4 DEF Insert

(* close_session: the session leaves the map and becomes the call's. *)
LEMMA InvRemove ==
  ASSUME SessionInv, NEW c \in Calls, Remove(c)
  PROVE  SessionInv'
  <1>0. /\ call \in [Calls -> Locals] /\ call[c] \in Locals /\ call[c].pc = "remove"
        /\ stale \in SUBSET live /\ native' = native /\ live \in SUBSET Ids
    BY DEF Remove, At, SessionInv, SessionTypes
  <1>1. call[c].expired = {} /\ Mine(c) \in Ids
    BY <1>0 DEF SessionInv, OwnInv, LockInv, Sweeping, Known, Locking
  <1>2. CASE /\ call' = [call EXCEPT ![c] = Idle] /\ Free(Mine(c)) /\ UNCHANGED <<live, stale>>
    <2>1. Idle.pc \notin Owning \cup Known \cup {"closingExpired"}
      BY IdleType DEF Owning, Opening, Known, Locking
    <2> QED BY <1>0, <1>2, <2>1, IdleType, UnlockMove DEF Free
  <1>3. CASE /\ Mine(c) \in live /\ live' = live \ {Mine(c)} /\ Touch(Mine(c))
             /\ Goto(c, "closing") /\ UNCHANGED lock
    <2>1. PICK x \in Locals : /\ call' = [call EXCEPT ![c] = x] /\ x.pc = "closing"
                              /\ x.id = call[c].id /\ x.expired = {}
      BY <1>0, <1>1, <1>3, GotoIsMove DEF Places
    <2>2. /\ call' \in [Calls -> Locals] /\ call'[c] = x
          /\ \A d \in Calls \ {c} : call'[d] = call[d]
      BY <1>0, <2>1, CallType
    <2>3. SessionTypes'
      BY <1>0, <1>3, <2>2 DEF SessionInv, SessionTypes, Touch
    <2>4. /\ \A d \in Calls \ {c}, s \in Ids : Owns(d, s)' <=> Owns(d, s)
          /\ \A s \in Ids : Owns(c, s)' <=> s = Mine(c)
          /\ \A s \in Ids : ~Owns(c, s)
      BY <1>0, <1>1, <2>1, <2>2 DEF Owns, Mine, Owning, Opening
    <2>5. native[Mine(c)] = "open" /\ \A d \in Calls : ~Owns(d, Mine(c))
      BY <1>1, <1>3 DEF SessionInv, OwnInv
    <2>6. OwnInv'
      <3>1. \A s \in live' : native[s] = "open"
        BY <1>3 DEF SessionInv, OwnInv
      <3>2. \A d \in Calls, s \in Ids : Owns(d, s)' => native[s] = "open" /\ s \notin live'
        BY <1>3, <2>4, <2>5 DEF SessionInv, OwnInv
      <3>3. \A d, e \in Calls, s \in Ids : Owns(d, s)' /\ Owns(e, s)' => d = e
        BY <2>4, <2>5 DEF SessionInv, OwnInv
      <3>4. \A d \in Calls : call'[d].expired # {} => call'[d].pc \in Sweeping
        BY <2>1, <2>2 DEF SessionInv, OwnInv
      <3>5. \A s \in Ids : native[s] = "open" => s \in live' \/ \E d \in Calls : Owns(d, s)'
        BY <1>3, <2>4 DEF SessionInv, OwnInv
      <3> QED BY <1>0, <3>1, <3>2, <3>3, <3>4, <3>5 DEF OwnInv
    <2>7. /\ x.pc \in Known /\ x.pc \in Locking /\ x.pc \notin Opening \cup {"closingExpired"}
          /\ call[c].pc \in Known /\ call[c].pc \in Locking
          /\ call[c].pc \notin Opening \cup {"closingExpired"}
      BY <1>0, <2>1 DEF Known, Locking, Opening
    <2>8. LockInv'
      BY <1>0, <1>3, <2>1, <2>2, <2>7 DEF SessionInv, LockInv, Mine
    <2>9. UseInv'
      BY <1>0, <2>1, <2>2 DEF SessionInv, UseInv, Mine
    <2> QED BY <2>3, <2>6, <2>8, <2>9 DEF SessionInv
  <1> QED BY <1>2, <1>3 DEF Remove

(* A handler is dropped: what it owned is closed or lost, its locks are     *)
(* free, and nobody else's session is touched.                              *)
LEMMA InvAbandon ==
  ASSUME SessionInv, NEW c \in Calls, Abandon(c)
  PROVE  SessionInv'
  <1>0. /\ call \in [Calls -> Locals] /\ live' = live /\ stale' = stale
        /\ native \in [Ids -> States] /\ lock \in [Ids -> Calls \cup {NoCall}]
        /\ call' = [call EXCEPT ![c] = Idle] /\ NoCall \notin Calls
        /\ lock' = [s \in Ids |-> IF lock[s] = c THEN NoCall ELSE lock[s]]
    BY SessionAssumption DEF Abandon, SessionInv, SessionTypes
  <1>1. PICK opened \in {NoId} \cup {s \in Ids : At(c, "opening") /\ native[s] = "none"},
             r \in Ends :
          native' = [s \in Ids |-> IF Closing(c, s) THEN r
                                   ELSE IF s = opened \/ s \in call[c].expired THEN "lost"
                                   ELSE native[s]]
    BY DEF Abandon, Ends
  <1>2. opened \in Ids => native[opened] = "none"
    BY SessionAssumption
  <1>3. call[c].pc # "insert"
    BY DEF Abandon, At
  <1>4. /\ call' \in [Calls -> Locals] /\ call'[c] = Idle
        /\ \A d \in Calls \ {c} : call'[d] = call[d]
    BY <1>0, IdleType, CallType
  <1>5. \A s \in Ids : Closing(c, s) => Owns(c, s)
    BY LocksOf DEF Closing, At, Owns, Owning, Opening, Locking
  <1>6. \A s \in Ids : Owns(c, s) => native'[s] \in Ends \cup {"lost"}
    BY <1>1, <1>3 DEF Owns, Owning, Opening, Closing
  <1>7. \A s \in Ids : ~Owns(c, s) /\ s # opened => native'[s] = native[s]
    BY <1>1, <1>5 DEF Owns
  <1>8. opened \in Ids => native'[opened] \in Ends \cup {"lost"}
    BY <1>1
  <1>9. SessionTypes'
    <2>1. native' \in [Ids -> States]
      BY <1>0, <1>1 DEF States, Ends
    <2>2. lock' \in [Ids -> Calls \cup {NoCall}]
      BY <1>0
    <2> QED BY <1>0, <1>4, <2>1, <2>2 DEF SessionInv, SessionTypes
  <1>10. /\ \A d \in Calls \ {c}, s \in Ids : Owns(d, s)' <=> Owns(d, s)
         /\ \A s \in Ids : ~Owns(c, s)'
    BY <1>4, IdleType DEF Owns, Mine, Owning, Opening
  <1>11. OwnInv'
    <2>1. \A s \in live : s \in Ids /\ native'[s] = "open"
      BY <1>2, <1>7 DEF SessionInv, SessionTypes, OwnInv
    <2>2. \A d \in Calls, s \in Ids : Owns(d, s)' => native'[s] = "open" /\ s \notin live
      BY <1>2, <1>7, <1>10 DEF SessionInv, OwnInv
    <2>3. \A d, e \in Calls, s \in Ids : Owns(d, s)' /\ Owns(e, s)' => d = e
      BY <1>10 DEF SessionInv, OwnInv
    <2>4. \A d \in Calls : call'[d].expired # {} => call'[d].pc \in Sweeping
      BY <1>4, IdleType DEF SessionInv, OwnInv
    <2>5. \A s \in Ids : native'[s] = "open" => s \in live \/ \E d \in Calls : Owns(d, s)'
      <3>1. ASSUME NEW s \in Ids, native'[s] = "open"
            PROVE  ~Owns(c, s) /\ native[s] = "open"
        BY <1>6, <1>7, <1>8, <3>1 DEF Ends
      <3> QED BY <1>10, <3>1 DEF SessionInv, OwnInv
    <2> QED BY <1>0, <2>1, <2>2, <2>3, <2>4, <2>5 DEF OwnInv
  <1>12. Idle.pc \notin Known \cup Locking \cup Opening \cup {"closingExpired"}
    BY IdleType DEF Known, Locking, Opening
  <1>13. LockInv'
    <2>1. \A d \in Calls : call'[d].pc \in Locking => lock'[call'[d].id] = d
      <3>1. \A d \in Calls \ {c} : call[d].pc \in Locking =>
              lock[call[d].id] = d /\ call[d].id \in Ids
        BY DEF SessionInv, LockInv, Mine, Known
      <3> QED BY <1>0, <1>4, <1>12, <3>1
    <2>2. \A d \in Calls, s \in Ids : lock'[s] = d =>
            \/ call'[d].pc \in Locking /\ call'[d].id = s
            \/ call'[d].pc = "closingExpired" /\ s \in call'[d].expired
      BY <1>0, <1>4 DEF SessionInv, LockInv, Mine
    <2>3. \A d \in Calls : call'[d].pc \in Known =>
            /\ call'[d].id \in Ids /\ native'[call'[d].id] # "none"
            /\ \A e \in Calls : ~(call'[e].pc \in Opening /\ call'[e].id = call'[d].id)
      <3>1. \A s \in Ids : native'[s] = "none" => native[s] = "none"
        BY <1>6, <1>7, <1>8 DEF Ends
      <3> QED BY <1>4, <1>12, <3>1 DEF SessionInv, LockInv, Mine
    <2>4. \A d \in Calls : call'[d].pc \in Opening => call'[d].id \in Ids
      BY <1>4, <1>12 DEF SessionInv, LockInv, Mine
    <2>5. \A d \in Calls, s, u \in Ids : lock'[s] = d /\ lock'[u] = d => s = u
      BY <1>0 DEF SessionInv, LockInv
    <2> QED BY <2>1, <2>2, <2>3, <2>4, <2>5 DEF LockInv, Mine
  <1>14. UseInv'
    <2>1. ASSUME NEW d \in Calls, call'[d].pc = "native"
          PROVE  native'[call'[d].id] \in {"open", "lost"}
      <3>1. d # c /\ call'[d] = call[d]
        BY <1>4, <2>1, IdleType
      <3>2. lock[Mine(d)] = d /\ Mine(d) \in Ids /\ native[Mine(d)] \in {"open", "lost"}
        BY <2>1, <3>1 DEF SessionInv, LockInv, UseInv, Known, Locking
      <3>3. ~Closing(c, Mine(d))
        <4>1. ~(call[c].pc = "closing" /\ Mine(c) = Mine(d))
          BY <3>1, <3>2 DEF SessionInv, LockInv, Locking
        <4>2. ~(call[c].pc = "closeExtra" /\ Mine(c) = Mine(d))
          BY <2>1, <3>1 DEF SessionInv, LockInv, Known, Locking, Opening
        <4> QED BY <3>1, <3>2, <4>1, <4>2 DEF Closing
      <3>4. native'[Mine(d)] \in {"lost", native[Mine(d)]}
        BY <1>1, <3>2, <3>3
      <3> QED BY <3>1, <3>2, <3>4 DEF Mine
    <2> QED BY <2>1 DEF UseInv, Mine
  <1> QED BY <1>9, <1>11, <1>13, <1>14 DEF SessionInv

-----------------------------------------------------------------------------
(* A session grows stale; nothing else changes. *)
LEMMA InvQuiet ==
  ASSUME SessionInv, (\E s \in Ids : GrowStale(s)) \/ UNCHANGED vars
  PROVE  SessionInv'
  <1>1. native' = native /\ lock' = lock /\ live' = live /\ call' = call
    BY DEF GrowStale, vars
  <1>2. stale' \in SUBSET live
    BY DEF GrowStale, vars, SessionInv, SessionTypes
  <1>3. SessionTypes'
    BY <1>1, <1>2 DEF SessionInv, SessionTypes
  <1>4. \A c \in Calls, s \in Ids : Owns(c, s)' <=> Owns(c, s)
    BY <1>1 DEF Owns, Mine
  <1> QED BY <1>1, <1>3, <1>4 DEF SessionInv, OwnInv, LockInv, UseInv, Mine

(* Every step keeps the invariant. *)
LEMMA InvNext == SessionInv /\ [Next]_vars => SessionInv'
  <1> SUFFICES ASSUME SessionInv, [Next]_vars PROVE SessionInv'
    OBVIOUS
  <1>1. ASSUME NEW c \in Calls, BrowseStep(c) PROVE SessionInv'
    BY <1>1, InvSweep, InvCloseExpired, InvNativeCloseExpired, InvNativeOpen, InvInsert,
       InvCloseExtra, InvLook, InvLock, InvRemove, InvNativeClose
    DEF BrowseStep, HandlerStep, NativeCall, Deliver
  <1> QED BY <1>1, InvBegin, InvAbandon, InvQuiet DEF Next

(* There is no session at the start. *)
LEMMA InvInit == Init => SessionInv
  <1> SUFFICES ASSUME Init PROVE SessionInv
    OBVIOUS
  <1>1. \A c \in Calls : call[c] = Idle
    BY DEF Init
  <1>2. SessionTypes
    BY IdleType DEF Init, SessionTypes, States
  <1>3. \A c \in Calls, s \in Ids : ~Owns(c, s)
    BY <1>1, IdleType DEF Owns, Owning, Opening
  <1>4. OwnInv
    BY <1>1, <1>3, IdleType DEF Init, OwnInv
  <1>5. Idle.pc \notin Known \cup Locking \cup Opening \cup {"closingExpired"}
    BY IdleType DEF Known, Locking, Opening
  <1>6. LockInv
    <2>1. \A s \in Ids : lock[s] \notin Calls
      BY SessionAssumption DEF Init
    <2> QED BY <1>1, <1>5, <2>1 DEF LockInv
  <1>7. UseInv
    BY <1>1, IdleType DEF UseInv
  <1> QED BY <1>2, <1>4, <1>6, <1>7 DEF SessionInv

(* The native session is open as long as a call browses it: close_session,  *)
(* close_expired and browse_existing take the operation lock, and           *)
(* browse_existing looks at the map again once it has it.                   *)
THEOREM NoSessionIsUsedAfterClose == Spec => []NoUseAfterClose
  <1>1. SessionInv => NoUseAfterClose
    BY DEF SessionInv, UseInv, NoUseAfterClose, At
  <1> QED BY InvInit, InvNext, <1>1, PTL DEF Spec

(* Every open native session is in the map or in the hands of one call that *)
(* will ask for its close, and what is in the map or in such hands is open,  *)
(* whatever opens, expires, is closed or refused at the same time and        *)
(* whichever closes fail: a native session that is still open and belongs to *)
(* nobody was asked to close and refused, or its handler was dropped.        *)
THEOREM NoSessionIsForgotten == Spec => []NativeIsOwned
  <1>1. SessionInv => NativeIsOwned
    BY DEF SessionInv, SessionTypes, OwnInv, NativeIsOwned, Held, Owns, Owning, Opening
  <1> QED BY InvInit, InvNext, <1>1, PTL DEF Spec

-----------------------------------------------------------------------------
BoundInv == IsFiniteSet(live) /\ Cardinality(live) <= MaxSessions

(* A map that shrinks stays within the limit. *)
LEMMA BoundShrinks ==
  ASSUME BoundInv, live' \in SUBSET live
  PROVE  BoundInv'
  <1>1. IsFiniteSet(live') /\ Cardinality(live') <= Cardinality(live)
    BY FS_Subset DEF BoundInv
  <1>2. Cardinality(live') \in Nat /\ Cardinality(live) \in Nat /\ MaxSessions \in Nat
    BY <1>1, FS_CardinalityType, SessionAssumption DEF BoundInv
  <1> QED BY <1>1, <1>2 DEF BoundInv

(* The insert looks at the capacity under the lock it inserts under. *)
LEMMA BoundInsert ==
  ASSUME BoundInv, NEW c \in Calls, Insert(c)
  PROVE  BoundInv'
  <1>1. CASE live' = live
    BY <1>1, BoundShrinks
  <1>2. CASE ~Full /\ live' = live \cup {Mine(c)}
    <2>1. Cardinality(live) \in Nat /\ MaxSessions \in Nat
      BY FS_CardinalityType, SessionAssumption DEF BoundInv
    <2>2. Cardinality(live) + 1 <= MaxSessions
      BY <1>2, <2>1 DEF Full
    <2>3. /\ IsFiniteSet(live \cup {Mine(c)})
          /\ \/ Cardinality(live \cup {Mine(c)}) = Cardinality(live)
             \/ Cardinality(live \cup {Mine(c)}) = Cardinality(live) + 1
      BY FS_AddElement DEF BoundInv
    <2> QED BY <1>2, <2>1, <2>2, <2>3 DEF BoundInv
  <1> QED BY <1>1, <1>2 DEF Insert

(* No other step adds a session. *)
LEMMA BoundNext == BoundInv /\ [Next]_vars => BoundInv'
  <1> SUFFICES ASSUME BoundInv, [Next]_vars PROVE BoundInv'
    OBVIOUS
  <1>1. ASSUME NEW c \in Calls, BrowseStep(c), ~Insert(c) PROVE live' \in SUBSET live
    BY <1>1 DEF BrowseStep, HandlerStep, NativeCall, Deliver, Sweep, CloseExpired, Refuse, NativeCloseExpired, Capacity,
                NativeOpen, CloseExtra, Lookup, AwaitLock, Recheck, NativeBrowse, Store,
                NextPage, Report, FindSession, AwaitClose, Remove, NativeClose
  <1>2. ASSUME NEW c \in Calls, Browse(c) \/ Search(c) \/ CloseSession(c) \/ Abandon(c)
        PROVE  live' = live
    BY <1>2 DEF Browse, Search, Begin, CloseSession, Abandon
  <1>3. ASSUME (\E s \in Ids : GrowStale(s)) \/ UNCHANGED vars PROVE live' = live
    BY <1>3 DEF GrowStale, vars
  <1> QED BY <1>1, <1>2, <1>3, BoundShrinks, BoundInsert DEF Next

(* MAX_ACTIVE_SESSIONS bounds the map, although the capacity is first       *)
(* looked at before the native open: open_session looks again.              *)
THEOREM SessionsAreBounded == Spec => []SessionsBounded
  <1>1. Init => BoundInv
    BY FS_EmptySet, SessionAssumption DEF Init, BoundInv
  <1>2. BoundInv => SessionsBounded
    BY DEF BoundInv, SessionsBounded
  <1> QED BY <1>1, <1>2, BoundNext, PTL DEF Spec
=============================================================================
