SPECIFICATION SteadySpec
CONSTANTS
  NoSecret = NoSecret
  r1 = r1
  r2 = r2
  k1 = k1
  k2 = k2
  Identities <- MCIdentities
  Secrets = {k1, k2}
  Requests <- MCTwoRequests
  Configs <- PolicyConfigs
  GatewaySecrets = {k1}
  Deployments <- OneDeployment
  FlagStates <- AllFlagStates
  MaxDrift = 0
  Horizon = 0
  Ttl = 1
  Skew = 0
SYMMETRY MCSymmetry
INVARIANTS
  AuthorizedExecution
  ToolCallsWithinHttpPolicy
CHECK_DEADLOCK FALSE
