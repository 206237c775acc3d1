-------------------------- MODULE MCGatewayProcess --------------------------
EXTENDS GatewayProcess, TLC

CONSTANTS p1, p2, s1

MCServers == {s1}

OldFile(schema, health, gens, enrolled) ==
  [id |-> 1, schema |-> schema, column |-> schema # 2, health |-> health,
   gens |-> [s \in MCServers |-> gens],
   enrolled |-> [s \in MCServers |-> enrolled], noted |-> [s \in MCServers |-> FALSE]]

(* What earlier versions and accidents leave: nothing, the schemas that are  *)
(* migrated, one from the future, a damaged file, tables that disagree.      *)
MCOldFiles ==
  {NoFile,
   OldFile(2, "ok", <<"active">>, "no"), OldFile(3, "ok", <<"failed">>, "no"),
   OldFile(4, "ok", <<"active", "staging">>, "auto"), OldFile(9, "ok", <<"active">>, "auto"),
   OldFile(4, "malformed", <<"active">>, "auto"),
   OldFile(4, "inconsistent", <<"active">>, "manual")}

MCPort == p1 :> 7600 @@ p2 :> 7601
MCCalls == p1 :> 1 @@ p2 :> 0
=============================================================================
