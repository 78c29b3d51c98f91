\* One rule, two evaluations, a user and a sweep at once, with fairness.
SPECIFICATION FairSpec
CONSTANTS
  r1 = r1
  r2 = r2
  Rules = {r1}
  NoRule = NoRule
  Evaluators = {e1, e2}
  Users = {u1}
  Pipelines = {}
  Sweepers = {s1}
  Contents <- MCContents
  ContentOf <- SameContent
  ScopeOf <- MCScopeOf
  MaxVersion = 4
\* All rules may end up archived, with nothing left to do.
CHECK_DEADLOCK FALSE
PROPERTIES
  DecidesOnCurrentRow
  HarmLeavesThePool
