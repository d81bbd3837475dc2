CONSTANTS
  Domain <- MCDomain
  Record <- MCRecord
  A <- MCA
  MX <- MCMX
  NoRecord = NoRecord
  Asked <- MCAsked
  Client <- MCClient
  Containing <- MCContaining
  Recognised <- MCRecognised
  max_queries = 8
  MaxFailures = 2
SPECIFICATION Spec
INVARIANTS BudgetRespected Complete NoFalseAllow
CHECK_DEADLOCK FALSE
