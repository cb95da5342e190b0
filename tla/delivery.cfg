SPECIFICATION MCSpec
CONSTANTS
  Events = {"e1"}
  Schemes = {"keyed", "unkeyed", "upgrade"}
  Tolerance = 1
  Skews <- MCSkews
  MaxClock = 3
  MaxNet = 2
  Manifests = {"m1", "m2"}
  MaxEdits = 3
  Services = {"users"}
  RingSize = 2
  MaxRows = 2
  MaxRequests = 3
  MaxRestarts = 1
  MaxFrames = 2
INVARIANTS
  VerifiesExactly
  NoOrphans
  ListIsRecent
PROPERTIES
  ForgottenOnlyIfAccepted
  EveryEventArrives
  EditsAreServed
  DeathIsNoticed
  HealthConverges
CHECK_DEADLOCK FALSE
