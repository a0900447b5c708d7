SPECIFICATION Spec
CONSTANTS
  root = root
  ann = ann
  bea = bea
  cal = cal
  n1 = n1
  n2 = n2
  app = app
  panelSlot = panelSlot
  other = other
  another = another
  Users = {root, ann, bea, cal}
  Newcomers = {bea}
  Admin = root
  Panellists = {root, ann, cal}
  Nodes = {n1, n2}
  Others = {app}
  OwnerOf <- MCOwnerOf
  Requests = {panelSlot, other, another}
  Mine = panelSlot
  Callers = {cal}
  Offered <- MCOffered
  Intervals = {1}
  MaxTime = 2
CONSTRAINT Scene
SYMMETRY MCSymmetry
INVARIANTS
  TypeOK
  WipeLeavesNothing
  CancelledMeansSpared
CHECK_DEADLOCK FALSE
