SPECIFICATION MCSpec
CONSTANTS
  Callers = {"a", "b"}
  Plugins = {"plan"}
  Tools = {"read", "write", "spawn"}
  Policies = {"p1", "p2"}
  Nobody = "nobody"
  ApprovalMode = "strict"
INVARIANT CallsGoverned
INVARIANT ToolsWithin
INVARIANT StatusTruthful
 
