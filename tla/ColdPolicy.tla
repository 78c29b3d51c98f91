----------------------------- MODULE ColdPolicy -----------------------------
(***************************************************************************)
(* The deterministic gates over the admission judge: what its scores       *)
(* (percentages) admit, and what takes the cold fast lane to active.       *)
(***************************************************************************)
EXTENDS Integers

Dimensions == {"overall", "evidence", "specificity", "scope", "clarity", "safety", "readiness"}

Reach(scores, minimum) == \A d \in DOMAIN minimum : scores[d] >= minimum[d]

AcceptMinimum == [overall |-> 82, evidence |-> 85, specificity |-> 75, scope |-> 75,
                  clarity |-> 70, safety |-> 65, readiness |-> 80]
ReviseMinimum == [overall |-> 55, evidence |-> 70]
FastLaneMinimum == [overall |-> 90, evidence |-> 90, specificity |-> 85, scope |-> 85,
                    clarity |-> 80, safety |-> 75]

\* The decision of the model is overridden by the scores.
EnforceAdmission(scores) ==
  IF Reach(scores, AcceptMinimum) THEN "accept"
  ELSE IF Reach(scores, ReviseMinimum) THEN "revise"
  ELSE "reject"

\* Mutant: what the evaluation said is not asked.
FastLaneUnevaluated(scores, passed, decision, op) ==
  decision = "accept_active" /\ Reach(scores, FastLaneMinimum) /\ op # "split_required"
FastLane(scores, passed, decision, op) ==
  /\ decision = "accept_active"
  /\ Reach(scores, FastLaneMinimum)
  /\ passed
  /\ op # "split_required"
=============================================================================
