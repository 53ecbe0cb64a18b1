CONSTANTS
  Runs = {r1, r2}
  Callers = {c1, c2}
  Pins = {p1, p2}
  NoPin = NoPin
SPECIFICATION Spec
INVARIANTS PinHasRunner SecretOnlyAfterPinProof SingleRun
PROPERTIES PairedSticky InProgressResolves KeepsPromise
