\* A dismissed rule whose replacement goes is brought back.
SPECIFICATION DismissalSpec
CONSTANTS
  r1 = r1
  r2 = r2
  Rules = {r1, r2}
  NoRule = NoRule
  Evaluators = {e1}
  Users = {}
  Pipelines = {p1}
  Sweepers = {s1}
  Contents <- MCContents
  ContentOf <- MCContentOf
  ScopeOf <- AllGlobal
  MaxVersion = 1
\* All rules may end up archived, with nothing left to do.
CHECK_DEADLOCK FALSE
INVARIANTS
  DismissedStaysRetired
