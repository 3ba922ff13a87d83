CONSTANTS
  d = d
  g = g
  o = o
  p = p
  t = t
  h1 = h1
  h2 = h2
  Handlers = {h1}
  Dirs = {d, g}
  GitDirs = {g}
  Orgs = {o, p}
  GitOrgs = {p}
  Teams = {t}
  OrgOf <- MCOrgOf
  Menus <- MCEditing
  StartApp <- MCStartApp
  StartDirs <- MCStartDirs
  MaxFlows = 0
  MaxFailures = 0
  Absent = Absent
  Empty = Empty
  Idle = Idle
SPECIFICATION FairSpec
PROPERTY EditsTakeEffect
