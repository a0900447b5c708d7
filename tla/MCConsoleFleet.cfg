SPECIFICATION Spec
CONSTANTS
  root = root
  ann = ann
  n1 = n1
  n2 = n2
  agent = agent
  operator = operator
  Nodes = {n1, n2}
  Users = {root, ann}
  Admin = root
  OwnerOf <- MCOwnerOf
  KeyOf <- MCKeyOf
  Quota = 1
  Pool = 3
  Isolated = 1
  Noise = {0}
  Requests = {agent, operator}
  Calls <- MCCalls
  Viewers = {ann}
CONSTRAINT Scene
INVARIANTS
  TypeOK
  FirstAddressIsReserved
  ViewersAreCurrent
CHECK_DEADLOCK FALSE
