SPECIFICATION Spec
CONSTANTS
  Nil = Nil
  Policies = {1, 2}
  Deployments <- OneDeployment
  MaxBaseLen = 3
  Priorities = {0, 1}
  RawScaling <- TwoSettings
  Annotations = {"unset"}
  UserHPAActs = {}
  UserReplicas = {3}
  MaxEdits = 1
  MaxFaults = 0
  MaxLag = 1
INVARIANTS
  AtRestFollowsPriority
