CONSTANTS
  Admin = {p, q}
  Commands <- MCCommands
  Requests <- MCRequests
  Domain <- MCDomain
  Includes <- MCIncludes
  InitSettings <- MCInitSettings
  InitWhitelists <- MCInitWhitelists
  InitSpf <- MCInitSpf
  InitDomains <- MCInitDomains
  InitPublished <- MCInitPublished
  NewPublished <- MCNewPublished
  MaxCommands = 2
  MaxRequests = 1
  MaxImports = 1
  MaxFailures = 1
SPECIFICATION Spec
INVARIANTS SettingsAsReported GrantedHonoured ImportListed
PROPERTIES JudgedAsReported
SYMMETRY AdminSymmetry
CHECK_DEADLOCK FALSE
