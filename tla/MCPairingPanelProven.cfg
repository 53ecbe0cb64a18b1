CONSTANTS
  Flows = {f1, f2}
  Pins = {p1}
  MaxRefreshes = 1
  NoPin = NoPin
  NoTimer = NoTimer
  Failed = Failed
SPECIFICATION Spec
INVARIANTS PairedIsProven
