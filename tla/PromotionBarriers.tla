-------------------------- MODULE PromotionBarriers --------------------------
(***************************************************************************)
(* What the user is told to be in the way of the next promotion of a rule. *)
(* The code counts the thresholds apart from the policy that decides.      *)
(***************************************************************************)
EXTENDS LifecyclePolicy, SequencesExt

\* Mutant: the active barriers without their rate.
TrustBarriersWithoutRate(e) ==
  LET th == ACTIVE_TO_TRUSTED IN
  <<[name |-> "observed_useful_count", met |-> e.useful >= th.useful],
    [name |-> "evaluated_fire_count", met |-> e.total >= th.evaluated /\ e.total >= MINIMUM_RATE_DENOMINATOR],
    [name |-> "distinct_observed_useful_sessions", met |-> e.sessions >= th.sessions],
    [name |-> "harmful_count", met |-> e.harmful <= th.harmful]>>

CandidateBarriers(e) ==
  LET th == CANDIDATE_TO_ACTIVE IN
  <<[name |-> "shadow_strong_match_count", met |-> e.high >= th.strong],
    [name |-> "evaluated_shadow_match_count", met |-> e.evaluated >= th.evaluated],
    [name |-> "distinct_shadow_sessions", met |-> e.sessions >= th.sessions],
    [name |-> "counterfactual_would_help_high", met |-> e.high >= th.counterfactual],
    [name |-> "risky_or_near_miss_shadow_count", met |-> e.risky <= th.risky],
    [name |-> "shadow_false_positive_rate", met |-> AtMost(e.fp, e.tasks, th.fp)]>>

TrustBarriers(e) ==
  LET th == ACTIVE_TO_TRUSTED IN
  <<[name |-> "observed_useful_count", met |-> e.useful >= th.useful],
    [name |-> "evaluated_fire_count", met |-> e.total >= th.evaluated /\ e.total >= MINIMUM_RATE_DENOMINATOR],
    [name |-> "distinct_observed_useful_sessions", met |-> e.sessions >= th.sessions],
    [name |-> "harmful_count", met |-> e.harmful <= th.harmful],
    [name |-> "recent_false_positive_rate", met |-> AtMost(e.fp, e.total, th.fp)]>>

RecoveryBarriers(e) ==
  LET th == SUPPRESSED_TO_ACTIVE IN
  <<[name |-> "shadow_recovery_would_help_high", met |-> e.high >= th.high],
    [name |-> "distinct_recovery_sessions", met |-> e.sessions >= th.sessions],
    [name |-> "recent_harmful_count", met |-> e.recentHarmful <= th.harmful]>>

Blocking(thresholds) ==
  LET first == SelectInSeq(thresholds, LAMBDA t : ~t.met)
  IN IF first = 0 THEN "nothing" ELSE thresholds[first].name

\* Trusted and archived rules have no next promotion, nor does a suppressed
\* rule without its timestamp.
ComputePromotionBarriers(status, e) ==
  CASE status = "candidate" -> Blocking(CandidateBarriers(e))
    [] status = "active" -> Blocking(TrustBarriers(e))
    [] status = "suppressed" /\ e.stamped -> Blocking(RecoveryBarriers(e))
    [] OTHER -> "no promotion"
=============================================================================
