SPECIFICATION Spec
CONSTANTS
  Nil = Nil
  Policies = {1}
  Deployments <- OneDeployment
  MaxBaseLen = 3
  Priorities = {0}
  RawScaling <- OneSetting
  Annotations = {"unset", "false"}
  UserHPAActs = {}
  UserReplicas = {3}
  MaxEdits = 1
  MaxFaults = 0
  MaxLag = 1
INVARIANTS
  AtRestOptOutHonoured
