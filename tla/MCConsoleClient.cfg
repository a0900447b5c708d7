SPECIFICATION Spec
CONSTANTS
  Pages = {"nodes", "drops", "users", "domains", "peers", "policies", "rules", "risk"}
  Ids = {x1, x2}
  Seeds = {x1}
  Calls = {s1, s2}
  MaxOthers = 1
INVARIANTS
  PagesShowTheirStore
CHECK_DEADLOCK FALSE
