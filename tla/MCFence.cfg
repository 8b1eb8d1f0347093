CONSTANTS
  r1 = r1
  r2 = r2
  p1 = p1
  Replicas <- MCReplicas
  Posts <- OnePost
  PostReplica <- OnReplica1
  Commands <- WithConflict
  Deliveries <- AndConflict
  MaxVersion = 3
SPECIFICATION FairSpec
INVARIANTS
  FenceSafety
PROPERTIES
  FenceHolds 
