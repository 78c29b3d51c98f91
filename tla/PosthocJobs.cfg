\* Two fires, two session ends, two workers, one crash.
SPECIFICATION FairSpec
CONSTANTS
  f1 = f1
  f2 = f2
  r1 = r1
  Fires = {f1, f2}
  Rules = {r1}
  RuleOf <- MCRuleOf
  Locatable = {f1}
  Enders = {h1, h2}
  Workers = {w1, w2}
  NoWorker = NoWorker
  Verdicts <- MCVerdicts
  POSTHOC_MAX_RETRIES = 2
  MAX_BACKOFF = 1
  LIMIT = 1
  MaxJobs = 2
  MaxCrashes = 1
INVARIANTS
  TypeOK
  OneJobPerFire
  NoFailureIsLost
  UsefulIsStamped
PROPERTIES
  FollowsLedger
  JobsSettle
