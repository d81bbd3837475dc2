SPECIFICATION FairSpec
CONSTANTS
  User <- MCUser
  Client <- MCClient
  Account <- MCAccount
  AddressOf <- MCAddressOf
  DomainOf <- MCDomainOf
  PolicyAddrs <- MCPolicyAddrs
  AddrType <- MCAddrType
  Localhost = {}
  TrustedClient = {}
  Bypass = {}
  Settings <- MCSettings
  Requests <- MCRequests
  UniqueTidAccount = FALSE
  MsgsColumn <- AnyNat
  QuotaColumn <- AnyNat
  BatchLimit = 1
  MaxClock = 4
  MaxRequests = 3
  MaxCleanups = 2
INVARIANTS CountersExact MostSpecific
PROPERTIES VerdictExact LossBounded  CleanupTerminates
CHECK_DEADLOCK FALSE
