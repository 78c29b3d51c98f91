--------------------------- MODULE MCPosthocJobs ---------------------------
(* Two fires of one rule, one of them without a locatable prompt, under two *)
(* session-end hooks and two maintenance processes.                         *)
EXTENDS PosthocJobs

CONSTANTS f1, f2, r1

MCRuleOf == [f \in Fires |-> r1]

MCVerdicts ==
  {[label |-> "observed_useful", without |-> "no"],
   [label |-> "observed_useful", without |-> "yes"]}
=============================================================================
