\* Two rules of the same content: merges, recovery and evaluation.
SPECIFICATION Spec
CONSTANTS
  r1 = r1
  r2 = r2
  Rules = {r1, r2}
  NoRule = NoRule
  Evaluators = {e1}
  Users = {}
  Pipelines = {p1}
  Sweepers = {s1}
  Contents <- MCContents
  ContentOf <- SameContent
  ScopeOf <- MCScopeOf
  MaxVersion = 2
\* All rules may end up archived, with nothing left to do.
CHECK_DEADLOCK FALSE
INVARIANTS
  TypeOK
  ReplacementMeansArchived
  SuppressedIsStamped
PROPERTIES
  FollowsStatusGraph
  VetoNeverWeakens
