CONSTANTS
  ann = ann
  bob = bob
  octocat = octocat
  hubot = hubot
  carol = carol
  team = team
  ns = ns
  People = {ann, bob, carol}
  Editors = {e1, e2}
  Drafts <- MCDrafts
  Declared = {carol}
  MaxRequests = 2
  Blank = Blank
  Unsure = Unsure
SYMMETRY Operators
SPECIFICATION Spec
INVARIANTS
  TypeOK
  Distinct
  SuccessIsWhole
PROPERTIES
  AssignedForGood
CHECK_DEADLOCK FALSE
