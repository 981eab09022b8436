SPECIFICATION Spec
CONSTANTS
  Policies = {"p1", "p2"}
  Plugins = {"q1", "q2"}
  Unparsable = {"p2"}
  Clis = {"a", "b"}
  Workspaces = {"w1", "w2"}
  Home = "w1"
  Scopes <- MCScopes
INVARIANT ApprovalBacked
INVARIANT LoadedIsGoverned
INVARIANT GuardKept
PROPERTY DecisionsKept
CHECK_DEADLOCK FALSE
