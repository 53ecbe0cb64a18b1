CONSTANTS
  Processes = {p1, p2, p3}
  Identities = {i1, i2, i3}
  NoIdentity = NoIdentity
  Absent=Absent
  Partial=Partial
SPECIFICATION Spec
INVARIANTS ServingIsPersisted PairedSurvivesRestart
