CONSTANTS
  o1 = o1
  o2 = o2
  Orgs = {o1}
  Logins = {a}
  Planners = {planner}
  Appliers = {}
  Runners = {runner}
  Reconcilers = {reconcile}
  Sweepers = {sweep}
  ConfigEnabled <- MCConfigEnabled
  Switched = {o1}
  SinkUp = FALSE
  MaxOutside = 1
  Free = Free
  NoOrg = NoOrg
SPECIFICATION FairSpec
INVARIANTS
  HeldOrgUntouched
PROPERTIES
  EveryRunEnds
  LockComesBack
