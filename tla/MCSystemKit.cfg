SPECIFICATION Spec
CONSTANTS
  t1 = t1
  t2 = t2
  p1 = p1
  p2 = p2
  v1 = v1
  v2 = v2
  Threads <- MCThreads
  Openers <- MCOpeners
  Pids <- MCPids
  App <- MCApp
  Values <- MCValues
  VariableNames <- MCVariableNames
  NoName = ""
  Ref = "a"
  MaxLen = 1
  MaxVariableWrites = 1
  Paths <- MCPaths
  Children <- MCChildren
  Valued <- MCValued
  ValueEntries <- MCValueEntries
  MaxWrites = 1
  Policies <- MCPolicies
  StoredRules <- MCStoredRules
  RuleRequests <- MCRuleRequests
  Narrow <- MCNarrow
  MaxRules = 3
  MaxOthers = 1
  PermissionRequests <- MCPermissionRequests
  Lists <- MCLists
  Sids <- MCSids
  Me = "me"
  MaxMeddling = 1
INVARIANTS TypeOK NothingLeft
PROPERTIES CallsEnd    
CHECK_DEADLOCK FALSE
