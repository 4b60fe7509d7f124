SPECIFICATION FairSpec
CONSTANTS
  p1 = p1  p2 = p2  rs = rs  crd = crd  svc = svc  x = x  y = y
  None = None
  Objs <- MCObjs
  Kind <- MCKind
  Parent <- MCParent
  Addr <- MCAddr
  Ips = {x}
  SyncOrder <- MCOrder
  MaxChanges = 2
  MaxErrors = 1
  MayEnd = {"Pod"}
INVARIANTS TypeOK NamedAboveOwner AttributedToHolder 
PROPERTIES DescriptorsStay 
CHECK_DEADLOCK FALSE
