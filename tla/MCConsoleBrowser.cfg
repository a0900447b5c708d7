SPECIFICATION Spec
CONSTANTS
  root = root
  ann = ann
  t1 = t1
  main = main
  side = side
  p1 = p1
  p2 = p2
  Users = {root, ann}
  FirstUsers = {root}
  Requests = {main, side}
  Replicas = {p1, p2}
  Roles = {"user"}
  Statuses = {"suspended", "active"}
  AccessTTL = 1
  BlacklistTTL = 1
  MaxTokens = 4
  MaxTime = 1
  MaxFaults = 1
  Tabs = {t1}
  Main <- MCMain
  Side <- MCSide
  Scripts = {side}
  MaxScripted = 1
SYMMETRY MCSymmetry
INVARIANTS
  TypeOK
  LoggedOutStaysOut
  BarredStaysOut
  LogoutIsFinal
CHECK_DEADLOCK FALSE
