CONSTANTS
  Git = {1}
  Added = {2}
  Resolvers = {2}
  Roles = {"console"}
  Passes = {pass}
  Sweeps = {sweep}
  Planners = {plan}
  Views = {v1, v2}
  Ticker = ticker
  TTL = 1
  Backoff = 1
  MaxOutside = 2
  Free = Free
  Nothing = Nothing
SPECIFICATION FairSpec
PROPERTIES
  OneBrokenDirectory
