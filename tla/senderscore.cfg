CONSTANTS
  c1 = c1
  c2 = c2
  lan = lan
  Client <- MCClient
  Trusted = {lan}
  Scores = {30, 31, 101}
  reject_score = 30
  CacheDays = 1
  Forever = 9
  QueryLimit = 1
  Commands <- MCCommands
  NoRow = NoRow
  MaxDay = 2
  MaxRequests = 2
  MaxCommands = 2
  MaxCleanups = 1
  MaxFaults = 1
SPECIFICATION ScoreSpec
INVARIANTS WhitelistKeptUnlessRaced WhitelistHeeded RejectedForScore CacheFresh
CHECK_DEADLOCK FALSE
