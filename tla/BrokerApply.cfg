CONSTANTS
  o1 = o1
  o2 = o2
  Orgs = {o1}
  Logins = {a}
  Planners = {planner}
  Appliers = {apply}
  Runners = {runner}
  Reconcilers = {}
  Sweepers = {sweep}
  ConfigEnabled <- MCConfigEnabled
  Switched = {}
  SinkUp = FALSE
  MaxOutside = 2
  Free = Free
  NoOrg = NoOrg
SPECIFICATION Spec
INVARIANTS
  TypeOK
  LockedReadStaysTrue
  ApprovedExactly
  NoDoubleApply
  EveryWriteAccounted
