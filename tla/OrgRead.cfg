CONSTANTS
  dir = dir
  group = group
  t = t
  Sources = {dir}
  Emails = {1, 2, 3, 4}
  Groups = {group}
  Names = {1, 2, 3, 4}
  Logins = {1, 2, 3, 4}
  Teams = {t}
  Home <- MCHome
  DisplayOnly = {}
  Company = dir
  Pinned = {}
  GroupsOf <- MCGroupsOf
  MembersOf <- MCMembersOf
  Exceptions = {}
  MinAdmins = 1
  NoTeam = NoTeam
  Elsewhere = Elsewhere
  PerPage = 2
  Rest <- MCRest
  Start <- MCStart
  Movers = {3, 4}
  Modes = {"full", "removals"}
SPECIFICATION Spec
INVARIANTS
  TypeOK
  UndisturbedArePlanned
