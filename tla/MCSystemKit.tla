----------------------------- MODULE MCSystemKit -----------------------------
(* The five services on small sets.                                         *)
EXTENDS SystemKit

CONSTANTS t1, t2, p1, p2, v1, v2

MCThreads == {t1, t2}
MCOpeners == {t1}
MCPids == {p1, p2}
MCApp == {p1}
MCValues == {v1, v2}

MCVariableNames == {"a", ""}

----------------------------------------------------------------------------
(* The registry: a key with two subkeys, one of which has values *)

MCPaths == {<<"k">>, <<"k", "c">>, <<"k", "d">>}
MCChildren == <<"c", "d">>
MCValued == <<"k", "c">>

Value(name, type, len) == [name |-> name, type |-> type, len |-> len]
MCValueEntries ==
  {Value("v", "SZ", 1), Value("v", "SZ", 2), Value("v", "EXPAND_SZ", 2), Value("v", "DWORD", 1),
   Value("v", "QWORD", 2), Value("v", "BINARY", 1), Value("v", "MULTI_SZ", 1), Value("w", "SZ", 1)}

----------------------------------------------------------------------------
(* The firewall: up to three rules of two names, one of them not ASCII *)

Rule(name, app, ports, action, enabled, remote) ==
  [name |-> name, applicationPath |-> app, localPorts |-> ports, action |-> action,
   enabled |-> enabled, remoteAddresses |-> remote]

game == Rule("game", "app", "any", "allow", "yes", "any")
jeu == Rule("jeu", "app", "80", "block", "no", "lan")

MCPolicies == {<<>>, <<game>>, <<jeu>>, <<game, jeu>>, <<game, game>>, <<game, game, game>>, <<jeu, game, jeu>>}
MCStoredRules == {game, jeu}
MCRuleRequests ==
  {Rule("game", "app2", "81", "block", "no", "wan"), Rule("jeu", "app", "", "allow", "yes", ""),
   Rule("game", "app2", "malformed", "block", "no", "wan"), Rule("game", "", "81", "block", "no", "wan")}
MCNarrow == {"game"}

----------------------------------------------------------------------------
(* The rights: lists of up to two entries and requests of up to two permissions *)

Permission(trustee, rights, action, inheritance) ==
  [trustee |-> trustee, rights |-> rights, action |-> action, inheritance |-> inheritance]
Entry(type, sid, mask, flags) == [type |-> type, sid |-> sid, mask |-> mask, flags |-> flags]
Everything == {"Read", "Write", "Execute", "Delete", "ReadPermissions", "WritePermissions", "ChangeOwner",
               "the other bits"}

MCPermissionRequests ==
  {<<Permission("me", {"Read"}, "Grant", "None"), Permission("you", Everything, "Deny", "Full")>>,
   <<Permission("me", {"Write"}, "Deny", "ContainerOnly"), Permission("me", {"Read"}, "Revoke", "None")>>,
   <<Permission("you", {"Execute", "Delete"}, "Grant", "Descendents")>>,
   <<Permission("you", {"ReadPermissions"}, "Grant", "ThisOnly")>>,
   <<Permission("account", {"Read"}, "Grant", "None")>>}
MCLists ==
  {<<>>, <<Entry("allow", "me", {0, 3, 7, 17, 20}, {})>>,
   <<Entry("deny", "me", {0}, {"CI"}), Entry("allow", "me", {0, 1, 2, 3, 4, 5, 7, 8, 17, 20}, {})>>,
   <<Entry("audit", "me", {0}, {}), Entry("allow", "me", {0, 1, 2, 3, 4, 17, 19, 31}, {"OI", "IO"})>>}
MCSids == {"me", "you"}
=============================================================================
