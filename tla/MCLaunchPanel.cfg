CONSTANTS
  Flows = {f1, f2}
  LaunchSessions = {s1, s2}
  NoLaunch = NoLaunch
  Empty = Empty
  Failed = Failed
SPECIFICATION LaunchSpec
INVARIANTS LaunchTypeOK PanelsTellLive LocksHaveOwner
SYMMETRY Symmetry
