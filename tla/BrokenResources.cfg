SPECIFICATION Spec
CONSTANTS
  Nil = Nil
  Invalid = Invalid
  Policies = {p}
  Profiles = {t}
  InitContainers = {}
  Namespaces = {}
  NumContainers = 1
  Labels = {"team"}
  Resources = {"cpu", "memory"}
  Values = {"x", "y", "z"}
  Quantities = {1, 2, 3}
  PolicySpecs <- BrokenRequest
  ProfileSpecs <- OneProfile
  PodSpecs <- BarePods
INVARIANTS
  BrokenResourcesSkipped
