SPECIFICATION MCSpec
CONSTANTS
  r1 = r1
  r2 = r2
  users = users
  billing = billing
  c1 = c1
  c2 = c2
  c3 = c3
  purge = purge
  Requests <- MCRequests
  Services <- MCServices
  Ttl = 1
  MaxFetch = 1
  MaxVersion = 2
  Horizon = 3
  Calls <- MCCalls
  Operations = {purge}
  Mounts = {"admin", "public"}
  Keep <- MCKeep
  Parts = {"cache", "catalog", "pipeline", "shield", "public"}
  CatalogTtl <- OnlyAdminCaches
  Inputs <- PipelineInputs
  Selections <- PipelineSelections
  Schemas <- PipelineSchemas
  Pieces <- PublicPieces
  Parameters <- PublicParameters
  Values <- PublicValues
  Encode <- PublicEncode
  Pages <- PublicPages
  Sites <- EverySite
SYMMETRY MCSymmetry
INVARIANTS
  BoundedStaleness
  MountOptionsHonoured
  OwnDefinitions
  PrunedStandsAlone
  NamesApart
  ShieldSubset
  ServedAsDocumented
PROPERTIES
  CatalogStaleness
CHECK_DEADLOCK FALSE
