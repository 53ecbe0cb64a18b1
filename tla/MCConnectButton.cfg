CONSTANTS
  Sessions = {s1, s2, s3, s4}
  NoSession = NoSession
SPECIFICATION Spec
INVARIANTS LiveSessionIsOurs LabelAgrees
PROPERTIES FailedConnectResolves
