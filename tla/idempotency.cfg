SPECIFICATION Spec
CONSTANTS
  a1 = a1
  a2 = a2
  a3 = a3
  east = east
  west = west
  Locations <- MCLocations
  Callers <- MCCallers
  RawKeys <- MCRawKeys
  Fingerprints <- MCFingerprints
  Attempts <- MCAttempts
  Inputs <- MCInputs
  Ttl = 1
  Horizon = 1
SYMMETRY MCSymmetry
PROPERTIES
  KeepsContract
  AnsweredOnce
CHECK_DEADLOCK FALSE
