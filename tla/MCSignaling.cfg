CONSTANTS
  HostCandidates = {h1, h2}
  BrowserCandidates = {b1, b2}
SPECIFICATION Spec
INVARIANTS HostCandidatesArrive BrowserCandidatesArrive
PROPERTIES NegotiationEnds SessionFollowsBrowser FailureIsShown
