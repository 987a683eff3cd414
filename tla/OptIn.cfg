SPECIFICATION Spec
CONSTANTS
  Nil = Nil
  Policies = {1}
  Deployments <- CollidingDeployments
  MaxBaseLen = 2
  Priorities = {0}
  RawScaling <- OneSetting
  Annotations = {"true"}
  UserHPAActs = {}
  UserReplicas = {3}
  MaxEdits = 0
  MaxFaults = 0
  MaxLag = 1
INVARIANTS
  AtRestOptInHonoured
