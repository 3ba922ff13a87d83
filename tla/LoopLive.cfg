CONSTANTS
  git = git
  store = store
  p = p
  owner = owner
  gg = gg
  gs = gs
  t = t
  q = q
  Sources = {git, store}
  Emails = {1, 2}
  Groups = {gg, gs}
  Names = {"P", "P. Long"}
  Logins = {p, owner}
  Teams = {t}
  Home <- MCHome
  DisplayOnly = {}
  Company = git
  Pinned = {}
  GroupsOf <- MCGroupsOf
  MembersOf <- MCMembersOf
  Exceptions = {}
  MinAdmins = 1
  NoTeam = NoTeam
  Elsewhere = Elsewhere
  GitSources = {git}
  Resolvers = {store}
  Probed = {}
  NameOf <- MCNameOf
  Entries <- AnyEntry
  Starts <- AnyStarts
  Modes = {"full", "removals"}
  MaxOutside = 2
  NoSnapshot = NoSnapshot
SPECIFICATION FairSpec
INVARIANTS
  OutageKeepsMembers
PROPERTIES
  LeaverLeaves
  JoinerJoins
  RowsSettle
