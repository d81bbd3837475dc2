SPECIFICATION Spec
CONSTANTS
  User <- MCUser
  Client <- MCClient
  DomainOf <- MCDomainOf
  PolicyAddrs <- MCPolicyAddrs
  Cidrs <- MCCidrs
  TrustedClient = {}
  Whitelists = {}
  Settings <- ExemptSettings
  SpfPairs = {}
  BypassSPF = TRUE
  SrsDomain = "srs"
  TrainingMode = FALSE
  BlockExpire = 2
  UnauthExpire = 5
  AuthExpire = 2
  Requests <- TwoClients
  BatchLimit = 1
  MaxClock = 8
  MaxRequests = 4
  MaxCleanups = 1
  MaxFailures = 1
INVARIANTS EarnedPass PassedAlone
CHECK_DEADLOCK FALSE
PROPERTIES PassRemembered RetryHeeded
