CONSTANTS
  MaxPackets = 2
SPECIFICATION CaptureSpec
INVARIANTS CaptureTypeOK VerdictMatchesTraffic PingsCoverCapture
PROPERTIES CaptureEnds
CHECK_DEADLOCK FALSE
