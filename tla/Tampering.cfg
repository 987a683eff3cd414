SPECIFICATION Spec
CONSTANTS
  Nil = Nil
  Policies = {1}
  Deployments <- CollidingDeployments
  MaxBaseLen = 2
  Priorities = {0}
  RawScaling <- NoneFullAndRefused
  Annotations = {"unset", "false", "invalid"}
  UserHPAActs = {"create", "edit", "release", "delete"}
  UserReplicas = {3}
  MaxEdits = 2
  MaxFaults = 1
  MaxLag = 2
INVARIANTS
  AtRestConverged
  ManagedHPARealizable
  AtRestStatusCurrent
PROPERTIES
  AnnouncedOnceServed
  UnmanagedDeletedOnlyBehind
  UnmanagedNeverRewritten
  KeepsContract
