SPECIFICATION RolloutSpec
CONSTANTS
  NoSecret = NoSecret
  r1 = r1
  r2 = r2
  k1 = k1
  NewSecret = k1
  Requests <- MCRequests
  Identities <- MCIdentities
  Configs <- MCConfigs
  Secrets = {k1}
  GatewaySecrets = {NoSecret, k1}
  Deployments <- MCDeployments
  FlagStates <- MCFlagStates
  MaxDrift = 1
  Horizon = 1
  Ttl = 1
  Skew = 1
SYMMETRY MCSymmetry
INVARIANTS
  RolloutKeepsServing
CHECK_DEADLOCK FALSE
