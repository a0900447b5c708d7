SPECIFICATION ResourcesSpec
CONSTANTS
  root = root
  ann = ann
  n1 = n1
  n2 = n2
  Users = {root, ann}
  Admins = {root}
  Nodes = {n1, n2}
  OwnerOf <- MCOwnerOf
  Apps = {a1}
  Links = {l1, l2}
  Drops = {d1}
  Peers = {p1, p2}
  PCs = {c0, c1}
  Domains = {x0, x1}
  SeedPC = c0
  SeedDomain = x0
  Countries = {be}
  Requests = {r1, r2}
  Areas = {"apps", "drops", "peering", "pcs", "policies"}
  MaxUses = {0, 2}
  MaxTime = 2
  MaxOpened = 3
  MaxIds = 4
INVARIANTS
  RowsOK
  AnswersApply
PROPERTIES
  LinksKeepTheirLimits
CHECK_DEADLOCK FALSE
