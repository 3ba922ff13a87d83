CONSTANTS
  Orgs = {1, 2}
  PrefixPerOrg = TRUE
  AllOrgs = AllOrgs
  Runs = {1, 2}
  OrgOf <- Alternating
  Streams = {s1}
  Buffer = 1
  TTL = 0
  PerSecond = 1
  MaxTime = 1
  MaxWrites = 1
  Limit = 1
  Free = Free
  NoRun = NoRun
SPECIFICATION FairSpec
INVARIANTS
  TypeOK
  RegisteredChannelsAreOpen
  Findable
  OnFile
PROPERTIES
  KeepsNarration
  StreamsEnd
