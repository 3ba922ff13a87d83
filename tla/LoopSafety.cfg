CONSTANTS
  git = git
  store = store
  p = p
  owner = owner
  gg = gg
  gs = gs
  t = t
  q = q
  Sources = {git, store}
  Emails = {1, 2}
  Groups = {gg, gs}
  Names = {"P", "P. Long"}
  Logins = {p, owner}
  Teams = {t, q}
  Home <- MCHome
  DisplayOnly = {}
  Company = git
  Pinned = {q}
  GroupsOf <- MCGroupsOf
  MembersOf <- MCMembersOf
  Exceptions = {}
  MinAdmins = 1
  NoTeam = NoTeam
  Elsewhere = Elsewhere
  GitSources = {git}
  Resolvers = {store}
  Probed = {git}
  NameOf <- MCNameOf
  Entries <- Dual
  Starts <- DualStarts
  Modes = {"full", "removals"}
  MaxOutside = 3
  NoSnapshot = NoSnapshot
SPECIFICATION Spec
INVARIANTS
  TypeOK
  LiveStays
  LeaverGetsNothing
  Settled
  PlansAreAnnounced
PROPERTIES
  OwnersUntouched
