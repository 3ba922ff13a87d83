CONSTANTS
  dir = dir
  group = group
  t = t
  Sources = {dir}
  Emails = {1, 2, 3}
  Groups = {group}
  Names = {1, 2, 3}
  Logins = {1, 2, 3}
  Teams = {t}
  Home <- MCHome
  DisplayOnly = {}
  Company = dir
  Pinned = {}
  GroupsOf <- MCGroupsOf
  MembersOf <- MCMembersOf
  Exceptions = {}
  MinAdmins = 1
  NoTeam = NoTeam
  Elsewhere = Elsewhere
  PerPage = 3
  Rest <- MCRest
  Start <- MCStart
  Movers = {3}
  Modes = {"removals"}
SPECIFICATION Spec
INVARIANT SweepGrantsNothing
