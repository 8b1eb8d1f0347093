CONSTANTS
  r1 = r1
  r2 = r2
  p1 = p1
  Replicas <- MCReplicas
  Posts <- OnePost
  PostReplica <- OnReplica1
  Commands <- OpenAndFence
  Deliveries <- OpenTwiceFenceOnce
  MaxVersion = 3
SPECIFICATION Spec
PROPERTIES NoPostingWhileFenced
