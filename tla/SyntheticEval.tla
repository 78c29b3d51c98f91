---------------------------- MODULE SyntheticEval ----------------------------
(***************************************************************************)
(* The trial of a rule, new or merged: prompts written for it, on which it *)
(* must or must not be injected, go through the matcher and the policy as  *)
(* if it had the status it is meant for and were never noisy.  A case:     *)
(* [kind, prompt, min, max].                                               *)
(***************************************************************************)
EXTENDS Retrieval

Hostile == {"near_miss", "negative", "global_adversarial"}

\* The static threshold alone counts here.
CaseMatch(trigger, prompt, stats) ==
  LET found == EvaluateMatch(trigger, prompt)
  IN [strong |-> found.strong, concepts |-> found.concepts,
      idf |-> IdfSum(found.anchors, stats), coverage |-> found.coverage,
      distinct |-> Cardinality(found.anchors), pool |-> stats.size, dynamic |-> 0,
      excluded |-> found.excluded, override |-> found.override, nearMiss |-> FALSE,
      actionOnly |-> found.actionOnly, searchOnly |-> found.searchOnly,
      embeddingOnly |-> FALSE, hasTool |-> FALSE, tool |-> FALSE]

EvaluateSingleCase(rule, trigger, case, stats) ==
  EvaluateApplicability([status |-> rule.status, severity |-> rule.severity, useful |-> rule.useful, fp |-> 0],
                        CaseMatch(trigger, case.prompt, stats))

CasePasses(case, decision) ==
  CASE case.kind = "positive" -> Rank(decision) >= Rank(case.min)
    [] case.kind = "medium_positive" -> decision = "cold" \/ Rank(decision) <= Rank(case.max)
    [] case.kind \in {"near_miss", "negative"} -> Rank(decision) <= Rank(case.max)
    [] OTHER -> decision = "cold"

\* Mutant: what the case expects is believed, also of a near miss.
RunSyntheticEvalAsExpected(rule, trigger, cases, stats) ==
  /\ \A c \in cases : CasePasses(c, EvaluateSingleCase(rule, trigger, c, stats))
  /\ \E c \in cases : c.kind = "positive"

\* Whatever a hostile case expects, the rule must be cold on it.
RunSyntheticEval(rule, trigger, cases, stats) ==
  /\ \A c \in cases : CasePasses(c, EvaluateSingleCase(rule, trigger, c, stats))
  /\ \A c \in cases : c.kind \in Hostile => EvaluateSingleCase(rule, trigger, c, stats) = "cold"
  /\ \E c \in cases : c.kind = "positive"
=============================================================================
