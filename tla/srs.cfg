CONSTANTS
  Host <- MCHost
  Domain <- MCDomain
  User <- MCUser
  Lower <- MCLower
  Foreign = {foreign}
  Secret = {"s1", "s2", "s3", "s4"}
  NoTs = NoTs
  server_name <- MCName
  PrimaryDomain <- MCPrimary
  AliasDomain <- MCAlias
  Excluded <- MCExcluded
  Initial <- MCInitial
  Senders <- MCSenders
  Modulus = 3
  validity_days = 2
  MaxDay = 4
  MaxHops = 3
  MaxRotations = 1
  MaxFaults = 1
SPECIFICATION Spec
INVARIANTS BounceHome LossExplained ExpiredRejected
CHECK_DEADLOCK FALSE
