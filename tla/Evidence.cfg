\* The evidence of one project rule, with three fires and two shadow matches.
SPECIFICATION FairSpec
CONSTANTS
  CANDIDATE_TO_ARCHIVED <- MC_CANDIDATE_TO_ARCHIVED
  CANDIDATE_TO_ACTIVE <- MC_CANDIDATE_TO_ACTIVE
  CANDIDATE_TO_ACTIVE_SINGLE_SESSION <- MC_CANDIDATE_TO_ACTIVE_SINGLE_SESSION
  ACTIVE_TO_SUPPRESSED <- MC_ACTIVE_TO_SUPPRESSED
  ACTIVE_TO_TRUSTED <- MC_ACTIVE_TO_TRUSTED
  TRUSTED_TO_SUPPRESSED <- MC_TRUSTED_TO_SUPPRESSED
  TRUSTED_TO_ACTIVE <- MC_TRUSTED_TO_ACTIVE
  SUPPRESSED_TO_ARCHIVED <- MC_SUPPRESSED_TO_ARCHIVED
  SUPPRESSED_TO_ACTIVE <- MC_SUPPRESSED_TO_ACTIVE
  MINIMUM_RATE_DENOMINATOR = 2
  CROSS_PROJECT_PROMOTION_THRESHOLD = 2
  FireEvents <- MCFireEvents
  ShadowEvents <- MCShadowEvents
  RECENT_EVENT_WINDOW = 3
  SHADOW_EVENT_WINDOW = 2
  LAST = 2
  MaxFires = 3
  InitialScope = "project"
INVARIANTS
  TypeOK
  NoFlapping
PROPERTIES
  HarmNeverDecays
  SuppressionEnds
