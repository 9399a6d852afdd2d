SPECIFICATION FairSpec
CONSTANTS
  Payload <- MCPayload
  Beyond = {"name", "lf"}
  MaxSearch = 12
  HostMax = 2
  BuffSize = 5
  Prefix = 3
  MaxRetries = 1
INVARIANTS
  PrefixWritten
  OnlyToVerified
  PlainSentIsWhole
  
  
  AllReleased

  
CHECK_DEADLOCK FALSE
