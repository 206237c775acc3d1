---------------------------- MODULE BrowseClients ----------------------------
(***************************************************************************)
(* One browse session and those who use it at a time: browse commands that *)
(* page through its root, and a live search, which may have the session    *)
(* for itself.                                                             *)
(***************************************************************************)
EXTENDS BrowseCommand, LiveSearch

ASSUME ClientsAssumption == Searcher \notin Commands

vars == <<pagingVars, cmd, searchVars>>

TypeOK == PagingTypeOK /\ CommandTypeOK /\ SearchTypeOK

Init == PagingInit /\ CommandInit /\ SearchInit

(* Nobody else knows the identifier of a search's own session. *)
Shared == ~search.request.temporary

Next ==
  \/ \E c \in Clients : GatewayStep(c) /\ UNCHANGED <<cmd, searchVars>>
  \/ \E c \in Commands :
       /\ Shared /\ BrowseBegin(c)
       /\ UNCHANGED searchVars
  \/ \E c \in Commands : (BrowseAnswer(c) \/ Interrupt(c)) /\ UNCHANGED searchVars
  \/ SearchStep /\ UNCHANGED cmd
  \/ Read /\ UNCHANGED cmd
  \/ HangUp /\ UNCHANGED cmd
  \/ Vanish /\ UNCHANGED <<cmd, searchVars>>

Spec == Init /\ [][Next]_vars

(* The gateway and the commands run, the OPC server answers, and the lock is *)
(* a fair one.  Nothing makes the client of a search read.                   *)
Fairness ==
  /\ \A c \in Clients : SF_vars(GatewayStep(c) /\ UNCHANGED <<cmd, searchVars>>)
  /\ \A c \in Commands : WF_vars(BrowseAnswer(c) /\ UNCHANGED searchVars)
  /\ SF_vars(SearchStep /\ UNCHANGED cmd)

FairSpec == Spec /\ Fairness
=============================================================================
