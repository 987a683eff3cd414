SPECIFICATION FairSpec
CONSTANTS
  Nil = Nil
  Policies = {1, 2}
  Deployments <- DottedDeployments
  MaxBaseLen = 2
  Priorities = {0}
  RawScaling <- TwoSettings
  Annotations = {"unset", "invalid"}
  UserHPAActs = {"create", "delete"}
  UserReplicas = {3}
  MaxEdits = 1
  MaxFaults = 1
  MaxLag = 1
PROPERTIES
  EventuallyConverged
  EventuallyAnnounced
