SPECIFICATION FairChannelSpec
CONSTANTS
  Attributes <- MCAttributes
  Addresses <- MCAddresses
  SuffixOf <- MCSuffixOf
  Messages <- Malformed
  Invalid = {"bad", "cut"}
  Truncated = "cut"
  Undecodable = {"latin-1"}
  Verdicts = {"DUNNO", "OK", "GREYLIST", "REJECT"}
  LogSettings <- MCLogSettings
  MaxSplits = 2
INVARIANTS  LoggedOnce OneVerdictPerRequest
PROPERTIES ServedWhole
CHECK_DEADLOCK FALSE
