CONSTANTS
  Keys = {k1}
  Buttons = {b1}
  Pads = {neutral, p1}
  Neutral = neutral
  NoPad = NoPad
  MaxInFlight = 2
SPECIFICATION Spec
INVARIANTS RememberedPadWasSent
