CONSTANTS
  Handlers = {h1, h2}
  Sessions = {s1, s2}
  NoSession = NoSession
  NoProbe = NoProbe
SPECIFICATION Spec
INVARIANTS RtspIsCurrent MediaIsCurrent OneSessionPerProbe AgreesWithSunshine ProbeHasRunner
PROPERTIES ProbeResolves KeepsSessionPromise
