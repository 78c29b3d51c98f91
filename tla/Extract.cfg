\* One nokori extract, one runner of a fork, a transcript that is resumed.
SPECIFICATION FairSpec
CONSTANTS
  Transcripts = {t}
  Extractors = {e}
  Forkers = {f}
  Nobody = Nobody
  NoJob = NoJob
  MAX_TRANSCRIPT = 1
  MAX_INGEST_RETRIES = 1
  DRAIN_FAILURES = 1
  MaxLength = 2
  MaxFaults = 2
INVARIANTS
  TypeOK
  NoEndIsForgotten
  NothingIsSkipped
PROPERTIES
  OffsetNeverFalls
  JobsAreConsumed
CHECK_DEADLOCK FALSE
