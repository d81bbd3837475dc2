SPECIFICATION FairChannelSpec
CONSTANTS
  Attributes <- MCAttributes
  Addresses <- MCAddresses
  SuffixOf <- MCSuffixOf
  Messages <- Single
  Invalid = {"bad", "cut"}
  Truncated = "cut"
  Undecodable = {"latin-1"}
  Verdicts = {"DUNNO", "REJECT"}
  LogSettings <- MCLogSettings
  MaxSplits = 1
PROPERTIES Served
CHECK_DEADLOCK FALSE
