-------------------------- MODULE EvaluationLedger --------------------------
(***************************************************************************)
(* What the posthoc evaluation promises of each fire event: it is queued   *)
(* once, then settled once, with a label or by giving it up, and the       *)
(* settlement stands until the retention deletes the fire.  Label and job  *)
(* change together.                                                        *)
(***************************************************************************)
CONSTANTS Fires, Labels

VARIABLE outcome

Init == outcome = [f \in Fires |-> "absent"]

Record(f) == outcome[f] = "absent" /\ outcome' = [outcome EXCEPT ![f] = "fired"]

Queue(S) ==
  /\ \A f \in S : outcome[f] = "fired"
  /\ outcome' = [f \in Fires |-> IF f \in S THEN "queued" ELSE outcome[f]]

Settle(f) ==
  /\ outcome[f] = "queued"
  /\ \E o \in Labels \cup {"given up"} : outcome' = [outcome EXCEPT ![f] = o]

\* Harm is kept.
Delete(f) ==
  /\ outcome[f] \notin {"absent", "harmful", "deleted"}
  /\ outcome' = [outcome EXCEPT ![f] = "deleted"]

Next ==
  \/ \E S \in SUBSET Fires : Queue(S)
  \/ \E f \in Fires : Record(f) \/ Settle(f) \/ Delete(f)

Spec == Init /\ [][Next]_outcome
=============================================================================
