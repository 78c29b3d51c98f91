\* Two candidates and one fault; the existing rule changes, but not its status.
SPECIFICATION FairSpec
CONSTANTS
  c1 = c1
  c2 = c2
  Candidates <- MCCandidates
  Own = Own
  Compilable = {c1}
  AdmissionScores <- Scores
  Plans <- MCPlans
  Traits <- MCTraits
  NewTraits <- MCNewTraits
  Moves = {"active"}
  MaxSubRules = 2
  MAX_INGEST_RETRIES = 1
  MaxFaults = 1
  MaxVersion = 2
  MaxRules = 4
  MaxDismissals = 1
INVARIANTS
  TypeOK
  ActiveIsEarned
  DisplacedByActiveOnly
  DisplacedAsPlanned
  InsertedTwiceOnlyByFault
PROPERTIES
  EveryCandidateSettles
CHECK_DEADLOCK FALSE
