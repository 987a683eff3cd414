SPECIFICATION Spec
CONSTANTS
  Nil = Nil
  Invalid = Invalid
  Policies = {p, q}
  Profiles = {s, t}
  InitContainers = {}
  Namespaces = {}
  NumContainers = 2
  Labels = {"team"}
  Resources = {"cpu", "memory"}
  Values = {"x", "y", "z"}
  Quantities = {1, 2, 3}
  PolicySpecs <- AFewPolicies
  ProfileSpecs <- AFewProfiles
  PodSpecs <- TwoPods
INVARIANTS
  TypeOK
  OwnSettingsKept
  HighestPriorityWins
  NothingMissed
