------------------------- MODULE LifecycleDecisions -------------------------
(***************************************************************************)
(* What one evaluation of one rule may decide, as far as the concurrent    *)
(* model needs to know it.  LifecyclePolicy computes the decision from the *)
(* evidence counts; this relation keeps of the evidence only the facts     *)
(* that other actors change under the evaluator's feet: a harmful label, a *)
(* replacement, the project scope and the suppression timestamp.           *)
(* RuleEvidence_proofs shows that the policy never leaves it.              *)
(***************************************************************************)

LiveStatuses == {"candidate", "active", "trusted", "suppressed"}

Statuses == LiveStatuses \cup {"archived"}

\* A new status, "none" when nothing changes, "global" for the promotion of
\* the scope of a trusted rule.
Outcomes == {"none", "active", "trusted", "suppressed", "archived", "global"}

\* Mutant: an active or a trusted rule is not suppressed for a harmful label.
MayDecideHarmIgnored(st, harmed, replaced, scope, stamped, d) ==
  st \in LiveStatuses /\ d \in {"none", "active", "trusted"} \ {st}

\* harmed: a lifetime harmful label exists; replaced: replacement_id is set;
\* stamped: suppressed_at is set.
MayDecide(st, harmed, replaced, scope, stamped, d) ==
  \/ /\ st = "candidate"
     /\ d = "archived" \/ (~replaced /\ d \in {"none", "active"})
  \/ /\ st = "active"
     /\ d = "suppressed" \/ (~harmed /\ d \in {"none", "trusted"})
  \/ /\ st = "trusted"
     /\ \/ d = "suppressed"
        \/ ~harmed /\ d \in {"none", "active"}
        \/ ~harmed /\ scope = "project" /\ d = "global"
  \/ /\ st = "suppressed"
     /\ IF stamped THEN d = "archived" \/ (~replaced /\ d \in {"none", "active"})
                   ELSE d = "none"
=============================================================================
