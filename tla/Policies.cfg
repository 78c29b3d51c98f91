SPECIFICATION Spec
CONSTANTS
  SMALL_POOL_THRESHOLD = 20
  DYNAMIC_IDF_SMALL_POOL <- MC_IDF_SMALL_POOL
  DYNAMIC_IDF_NORMAL <- MC_IDF_NORMAL
  NEWLY_ACTIVE_COVERAGE_MIN = 15
  NOISE = 30
  GENERIC_TOKENS <- MC_GENERIC_TOKENS
  GENERIC_ACTION_WORDS <- MC_GENERIC_ACTION_WORDS
  PartOf <- MC_PartOf
  TOP_K = 3
  EMBED_POOL = 3
  WARM_HARD_MAX = 3
  CANDIDATE_TO_ARCHIVED <- MC_CANDIDATE_TO_ARCHIVED
  CANDIDATE_TO_ACTIVE <- MC_CANDIDATE_TO_ACTIVE
  CANDIDATE_TO_ACTIVE_SINGLE_SESSION <- MC_CANDIDATE_TO_ACTIVE_SINGLE_SESSION
  ACTIVE_TO_SUPPRESSED <- MC_ACTIVE_TO_SUPPRESSED
  ACTIVE_TO_TRUSTED <- MC_ACTIVE_TO_TRUSTED
  TRUSTED_TO_SUPPRESSED <- MC_TRUSTED_TO_SUPPRESSED
  TRUSTED_TO_ACTIVE <- MC_TRUSTED_TO_ACTIVE
  SUPPRESSED_TO_ARCHIVED <- MC_SUPPRESSED_TO_ARCHIVED
  SUPPRESSED_TO_ACTIVE <- MC_SUPPRESSED_TO_ACTIVE
  MINIMUM_RATE_DENOMINATOR = 2
  CROSS_PROJECT_PROMOTION_THRESHOLD = 2
  Events <- MC_Events
  Own <- MC_Own
  NamesNokori <- MC_NamesNokori
  Rules <- MC_Rules
  Hits <- MC_Hits
  Prompts <- MC_Prompts
  Pools <- MC_Pools
  Trials <- MC_Trials
  Cases <- MC_Cases
  Results <- MC_Results
  MaxResults = 4
  Turns <- MC_Turns
  Tags <- MC_Tags
  Table <- MC_Table
  MaxRules = 3
  Limits <- MC_Limits
  New <- MC_New
  Cosines <- MC_Cosines
  Memory <- MC_Memory
  Flags <- MC_Flags
  SomeStandings <- MC_Standings
  SomeMatches <- MC_Matches
  Doubts <- MC_Doubts
  Budget = 12
  SomeShadow <- MC_Shadow
  SomeFire <- MC_Fire
  MaxTurns = 4
  LARGE_TURN_GAP = 3
  MIN_TOKENS = 3
  SIMILARITY = 15
  RECENT = 2
  FINGERPRINTS = 2
  SomeFiles <- MC_Files
INVARIANTS
  InjectsOnlyOnTrigger
  PassedStaysSilent
  LevelIsMonotone
  SelectionIsFair
  BarriersAgree
  WindowIsTheFires
  NearestAreFound
  UninstallRestores
CHECK_DEADLOCK FALSE
