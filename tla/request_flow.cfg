SPECIFICATION Spec
CONSTANTS
  NoSecret = NoSecret
  r1 = r1
  r2 = r2
  k1 = k1
  k2 = k2
  Identities <- MCIdentities
  Secrets = {k1, k2}
  Requests <- MCRequests
  Configs <- FlowConfigs
  GatewaySecrets <- MCMaybeSecrets
  Deployments <- MCDeployments
  FlagStates <- AllFlagStates
  MaxDrift = 2
  Horizon = 8
  Ttl = 2
  Skew = 1
CONSTRAINT TrustOrClocks
INVARIANTS
  FreshContext
  TypeOK
  IdentityPreserved
  SignatureEnforced
PROPERTIES
  NoEarlyExpiry
CHECK_DEADLOCK FALSE
