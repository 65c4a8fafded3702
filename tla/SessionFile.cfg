SPECIFICATION FairSpec
CONSTANTS
  u1 = u1
  u2 = u2
  u3 = u3
  u4 = u4
  u5 = u5
  p1 = p1
  p2 = p2
  p3 = p3
  Updates = {u1, u2, u3, u4, u5}
  Creator = u1
  Sensitive = {u5}
  Processes = {p1, p2, p3}
  Deployments <- MCDeployments
  None = none
  Empty = empty
  Torn = torn
INVARIANTS
  TypeOK
  FileIsWhole
  AcknowledgedStaysStored
  SensitiveStaysInMemory
  LocksHaveHolders
PROPERTIES
  StoreIsAtomic
  UpdatesEnd
