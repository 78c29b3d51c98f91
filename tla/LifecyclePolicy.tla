--------------------------- MODULE LifecyclePolicy ---------------------------
(***************************************************************************)
(* The pure policy of the lifecycle: what an evaluation decides from the   *)
(* evidence gathered for one rule.  The thresholds are the records of      *)
(* policy.py, with shorter field names; rates are percentages and are      *)
(* compared by cross-multiplication, which agrees with the floats of the   *)
(* code for the thresholds it has and windows of at most ten events.       *)
(***************************************************************************)
EXTENDS Integers, LifecycleDecisions

CONSTANTS
  CANDIDATE_TO_ARCHIVED,              \* [risky, irrelevant]
  CANDIDATE_TO_ACTIVE,                \* [strong, evaluated, sessions, counterfactual, risky, fp]
  CANDIDATE_TO_ACTIVE_SINGLE_SESSION, \* [quality, strong, evaluated, counterfactual, risky, fp]
  ACTIVE_TO_SUPPRESSED,               \* [harmful, irrelevant, fp]
  ACTIVE_TO_TRUSTED,                  \* [useful, evaluated, sessions, harmful, fp]
  TRUSTED_TO_SUPPRESSED,              \* [harmful, irrelevant, fp]
  TRUSTED_TO_ACTIVE,                  \* [evaluated, useful, irrelevant, harmful, fp]
  SUPPRESSED_TO_ARCHIVED,             \* [risky]
  SUPPRESSED_TO_ACTIVE,               \* [high, sessions, harmful]
  MINIMUM_RATE_DENOMINATOR,
  CROSS_PROJECT_PROMOTION_THRESHOLD

\* What the proofs need of the thresholds; policy.py gives 1 and 1 for harm, 3
\* and 3 for irrelevance, and 15 < 35, 15 < 50 and 30 < 50 for the rates.
ASSUME HarmSuppresses ==
  ACTIVE_TO_SUPPRESSED.harmful = 1 /\ TRUSTED_TO_SUPPRESSED.harmful = 1

ASSUME PromotionIsStricter ==
  /\ ACTIVE_TO_TRUSTED.fp \in Nat /\ TRUSTED_TO_SUPPRESSED.fp \in Nat
  /\ ACTIVE_TO_SUPPRESSED.fp \in Nat /\ TRUSTED_TO_ACTIVE.fp \in Nat
  /\ ACTIVE_TO_SUPPRESSED.irrelevant \in Nat
  /\ ACTIVE_TO_SUPPRESSED.irrelevant = TRUSTED_TO_SUPPRESSED.irrelevant
  /\ ACTIVE_TO_TRUSTED.fp < TRUSTED_TO_SUPPRESSED.fp
  /\ ACTIVE_TO_TRUSTED.fp < TRUSTED_TO_ACTIVE.fp
  /\ TRUSTED_TO_SUPPRESSED.fp <= ACTIVE_TO_SUPPRESSED.fp
  /\ MINIMUM_RATE_DENOMINATOR \in Nat \ {0}

-----------------------------------------------------------------------------
(* Evidence                                                                *)

\* From the fire events: those labelled in the recent window, the harmful ones
\* of the lifetime of the rule, and the projects it has helped in.
FireEvidence ==
  [useful : Nat, usefulTotal : Nat, sessions : Nat, irrelevant : Nat, irrelevantInLast : Nat,
   fp : Nat, total : Nat, harmful : Nat, scope : {"project", "global"}, projects : Nat]

\* From the shadow events of the current version: since the suppression for a
\* suppressed rule, in the recent window for a candidate.
ShadowEvidence ==
  [high : Nat, evaluated : Nat, sessions : Nat, irrelevant : Nat, risky : Nat,
   fp : Nat, tasks : Nat, sessionStrong : Nat, contexts : Nat,
   synthetic : BOOLEAN, quality : Nat, miss : BOOLEAN, replaced : BOOLEAN,
   stamped : BOOLEAN, expired : BOOLEAN, recentHarmful : Nat]

AtLeast(n, d, percent) == 100 * n >= percent * d
AtMost(n, d, percent) == 100 * n <= percent * d

-----------------------------------------------------------------------------
(* Candidates                                                              *)

CandidateFails(e) ==
  \/ e.risky >= CANDIDATE_TO_ARCHIVED.risky
  \/ e.irrelevant >= CANDIDATE_TO_ARCHIVED.irrelevant
  \/ e.replaced

\* Across sessions; this also stands in for the synthetic evaluation.
NormalPath(e) ==
  LET th == CANDIDATE_TO_ACTIVE IN
  /\ e.high >= th.strong /\ e.high >= th.counterfactual
  /\ e.evaluated >= th.evaluated
  /\ e.sessions >= th.sessions
  /\ e.risky <= th.risky
  /\ AtMost(e.fp, e.tasks, th.fp)

SingleSessionPath(e) ==
  LET th == CANDIDATE_TO_ACTIVE_SINGLE_SESSION IN
  /\ e.synthetic
  /\ e.quality >= th.quality
  /\ e.sessionStrong >= th.strong /\ e.sessionStrong >= th.counterfactual
  /\ e.evaluated >= th.evaluated
  /\ e.risky <= th.risky
  /\ AtMost(e.fp, e.tasks, th.fp)
  /\ e.contexts >= 2
  /\ e.miss

EvaluateCandidate(e) ==
  IF CandidateFails(e) THEN "archived"
  ELSE IF NormalPath(e) \/ SingleSessionPath(e) THEN "active"
  ELSE "none"

-----------------------------------------------------------------------------
(* Active and trusted rules                                                *)

\* The downgrade both have, each with its own thresholds.
FireFails(e, th) ==
  \/ e.harmful >= th.harmful
  \/ e.irrelevantInLast >= th.irrelevant
  \/ e.total >= MINIMUM_RATE_DENOMINATOR /\ AtLeast(e.fp, e.total, th.fp)

EarnsTrust(e) ==
  LET th == ACTIVE_TO_TRUSTED IN
  /\ e.total >= th.evaluated /\ e.total >= MINIMUM_RATE_DENOMINATOR
  /\ e.useful >= th.useful
  /\ e.sessions >= th.sessions
  /\ e.harmful <= th.harmful
  /\ AtMost(e.fp, e.total, th.fp)

EvaluateActive(e) ==
  IF FireFails(e, ACTIVE_TO_SUPPRESSED) THEN "suppressed"
  ELSE IF EarnsTrust(e) THEN "trusted"
  ELSE "none"

TrustDecays(e) ==
  LET th == TRUSTED_TO_ACTIVE IN
  /\ e.total >= th.evaluated /\ e.total >= MINIMUM_RATE_DENOMINATOR
  /\ e.usefulTotal <= th.useful
  /\ e.irrelevant >= th.irrelevant
  /\ e.harmful <= th.harmful
  /\ AtLeast(e.fp, e.total, th.fp)

\* Mutant: the decay of trust is looked at before the suppression.
EvaluateTrustedDecayFirst(e) ==
  IF TrustDecays(e) THEN "active"
  ELSE IF FireFails(e, TRUSTED_TO_SUPPRESSED) THEN "suppressed"
  ELSE IF e.scope = "project" /\ e.projects >= CROSS_PROJECT_PROMOTION_THRESHOLD THEN "global"
  ELSE "none"

EvaluateTrusted(e) ==
  IF FireFails(e, TRUSTED_TO_SUPPRESSED) THEN "suppressed"
  ELSE IF TrustDecays(e) THEN "active"
  ELSE IF e.scope = "project" /\ e.projects >= CROSS_PROJECT_PROMOTION_THRESHOLD THEN "global"
  ELSE "none"

-----------------------------------------------------------------------------
(* Suppressed rules                                                        *)

Recovers(e) ==
  LET th == SUPPRESSED_TO_ACTIVE IN
  /\ e.high >= th.high
  /\ e.sessions >= th.sessions
  /\ e.recentHarmful <= th.harmful

\* Mutant: the TTL of a suppression is not looked at.
EvaluateSuppressedWithoutTTL(e) ==
  IF ~e.stamped THEN "none"
  ELSE IF e.risky >= SUPPRESSED_TO_ARCHIVED.risky \/ e.replaced THEN "archived"
  ELSE IF Recovers(e) THEN "active"
  ELSE "none"

\* Without a suppression timestamp the evaluation gives up; after the TTL no
\* evidence helps any more.
EvaluateSuppressed(e) ==
  IF ~e.stamped THEN "none"
  ELSE IF e.risky >= SUPPRESSED_TO_ARCHIVED.risky \/ e.replaced \/ e.expired THEN "archived"
  ELSE IF Recovers(e) THEN "active"
  ELSE "none"
=============================================================================
