--------------------------- MODULE MCRuleEvidence ---------------------------
(* A small instance of RuleEvidence for TLC: every threshold is smaller than *)
(* in policy.py, and stands in the same order to the others.                 *)
EXTENDS RuleEvidence

Fired(label, session, strong, fp) ==
  [label |-> label, session |-> session, project |-> session, strong |-> strong, fp |-> fp]

MCFireEvents ==
  {Fired("observed_useful", "s1", TRUE, FALSE), Fired("observed_useful", "s2", TRUE, FALSE),
   Fired("plausible_useful", "s1", FALSE, FALSE), Fired("irrelevant", "s1", FALSE, FALSE),
   Fired("irrelevant", "s2", FALSE, TRUE), Fired("harmful", "s2", FALSE, TRUE)}

Matched(label, session) == [label |-> label, session |-> session, task |-> "t"]

MCShadowEvents ==
  {Matched("would_help_high", "s1"), Matched("would_help_high", "s2"),
   Matched("near_miss", "s1")}

MC_CANDIDATE_TO_ARCHIVED == [risky |-> 2, irrelevant |-> 2]
MC_CANDIDATE_TO_ACTIVE ==
  [strong |-> 2, evaluated |-> 2, sessions |-> 2, counterfactual |-> 1, risky |-> 0, fp |-> 0]
MC_CANDIDATE_TO_ACTIVE_SINGLE_SESSION ==
  [quality |-> 88, strong |-> 2, evaluated |-> 2, counterfactual |-> 2, risky |-> 0, fp |-> 0]
MC_ACTIVE_TO_SUPPRESSED == [harmful |-> 1, irrelevant |-> 2, fp |-> 50]
MC_ACTIVE_TO_TRUSTED == [useful |-> 2, evaluated |-> 2, sessions |-> 2, harmful |-> 0, fp |-> 15]
MC_TRUSTED_TO_SUPPRESSED == [harmful |-> 1, irrelevant |-> 2, fp |-> 35]
MC_TRUSTED_TO_ACTIVE == [evaluated |-> 2, useful |-> 0, irrelevant |-> 1, harmful |-> 0, fp |-> 30]
MC_SUPPRESSED_TO_ARCHIVED == [risky |-> 2]
MC_SUPPRESSED_TO_ACTIVE == [high |-> 2, sessions |-> 2, harmful |-> 0]
=============================================================================
