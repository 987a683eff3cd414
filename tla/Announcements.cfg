SPECIFICATION FairSpec
CONSTANTS
  Nil = Nil
  BaselineNames = {"restricted"}
  ProfileNames = {"tracing"}
  MaxLag = 2
  MaxEdits = 2
  MaxFaults = 1
INVARIANTS
  TypeOK
  AtRestAnnounced
PROPERTIES
  KeepsContracts
  EventuallyAnnounced
