CONSTANTS
  Admin = {p, q}
  Commands <- MCCommands
  Requests <- MCRequests
  AliasTarget <- MCAliasTarget
  LocalDomains <- MCLocalDomains
  InitLists <- MCInitLists
  InitUsers <- MCInitUsers
  InitMailaddr <- MCInitMailaddr
  BypassOutgoing = FALSE
  MaxCommands = 2
  MaxRequests = 1
  MaxFaults = 1
SPECIFICATION Spec
INVARIANTS ListedAsReported
PROPERTIES VerdictJustified VerdictByPriority
SYMMETRY AdminSymmetry
CHECK_DEADLOCK FALSE
