SPECIFICATION Spec
CONSTANTS
  Nil = Nil
  Invalid = Invalid
  NaN = NaN
  Policies = {p}
  Profiles = {t}
  Baselines = {b}
  NumContainers = 1
  InitContainers = {i}
  Labels = {"team"}
  Resources = {"cpu"}
  Values = {"x", "x/y", " ", "http://c", "ftp://c", "0.5", "1.5", "NaN"}
  Quantities = {1, 2}
  Namespaces = {"apps", " "}
  Namespace = "apps"
  Blanks = {" "}
  SchemeOf <- Schemes
  RateOf <- Rates
  RawPolicies <- SomePolicies
  RawProfiles <- SomeProfiles
  RawBaselines <- SomeBaselines
  UserPods <- TwoPods
  UserSecurity <- NoSettings
  UserLabels <- NoLabels
  LabelValues = {"x"}
  MaxEdits = 1
  MaxLag = 1
INVARIANTS
  NoneBypass
