\* One candidate whose process dies once.
SPECIFICATION Spec
CONSTANTS
  c1 = c1
  c2 = c2
  Candidates <- MCOneCandidate
  Own = Own
  Compilable = {c1}
  AdmissionScores <- Scores
  Plans <- MCPlans
  Traits <- MCTraits
  NewTraits <- MCNewTraits
  Moves = {"trusted"}
  MaxSubRules = 1
  MAX_INGEST_RETRIES = 3
  MaxFaults = 1
  MaxVersion = 1
  MaxRules = 2
  MaxDismissals = 0
INVARIANT InsertedIsCompiled
CHECK_DEADLOCK FALSE
