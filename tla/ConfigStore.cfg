CONSTANTS
  d = d
  g = g
  o = o
  p = p
  t = t
  h1 = h1
  h2 = h2
  Handlers = {h1, h2}
  Dirs = {d, g}
  GitDirs = {g}
  Orgs = {o, p}
  GitOrgs = {p}
  Teams = {t}
  OrgOf <- MCOrgOf
  Menus <- MCMenus
  StartApp <- MCStartApp
  StartDirs <- MCStartDirs
  MaxFlows = 2
  MaxFailures = 1
  Absent = Absent
  Empty = Empty
  Idle = Idle
SPECIFICATION FairSpec
INVARIANTS
  TypeOK
  StandingIsListed
  AsLastAsked
  AppToItsOrg
PROPERTIES
  ConsoleSettles
