------------------------ MODULE RuleLifecycle_proofs ------------------------
(***************************************************************************)
(* Safety of RuleLifecycle for any number of rules, evaluators, users,     *)
(* pipelines and sweepers, and without a bound on the versions.            *)
(***************************************************************************)
EXTENDS RuleLifecycle, TLAPS

-----------------------------------------------------------------------------
(* The inductive invariant                                                 *)

\* A new status that an evaluation has decided is an edge of the status graph
\* from the status it has read.
DecisionIsAllowed ==
  \A e \in Evaluators :
    (task[e].pc = "decided" /\ task[e].decision \in Statuses) =>
      <<task[e].status, task[e].decision>> \in Graph!Moves

Reserved(p) == plan[p].pc \in {"planned", "cleared"}

\* The rule of a pipeline that has not inserted it yet is still to be born, and
\* belongs to no other pipeline.
PlannedIsUnborn ==
  \A p \in Pipelines :
    Reserved(p) =>
      /\ status[plan[p].new] = "unborn"
      /\ \A q \in Pipelines : (Reserved(q) /\ plan[q].new = plan[p].new) => q = p

\* What is still to be done after an insertion is aimed at a rule.
TargetIsRule ==
  \A p \in Pipelines :
    /\ plan[p].pc \in {"inserted", "fingerprint"} => plan[p].op # "keep_both"
    /\ plan[p].op # "keep_both" => plan[p].target \in Rules

IInv ==
  /\ TypeOK
  /\ ReplacementMeansArchived
  /\ SuppressedIsStamped
  /\ DecisionIsAllowed
  /\ PlannedIsUnborn
  /\ TargetIsRule
-----------------------------------------------------------------------------
(* Types                                                                   *)

\* The values an actor and an unset entry start from are in their types.
LEMMA Defaults ==
  Idle \in Task /\ NoCommand \in Command /\ NoPlan \in Plan /\ NoVeto \in Veto
  BY DEF Idle, Task, NoCommand, Command, NoPlan, Plan, NoVeto, Veto

\* An evaluation in flight carries a rule and what it read of it.
LEMMA BusyTask ==
  ASSUME NEW t \in Task, t.pc \in {"read", "decided", "fingerprint"}
  PROVE  t \in [pc : {"read", "decided", "fingerprint"}, rule : Rules, status : LiveStatuses,
                version : Nat, scope : Scopes, replaced : BOOLEAN, stamped : BOOLEAN,
                decision : Outcomes]
  BY DEF Task, Idle

\* A pipeline in flight carries a new rule, and what it read of its target.
LEMMA BusyPlan ==
  ASSUME NEW q \in Plan, q.pc \in {"planned", "cleared", "inserted", "fingerprint"}
  PROVE  q \in [pc : {"planned", "cleared", "inserted", "fingerprint"}, new : Rules,
                op : MergeOps, target : Rules \cup {NoRule}, status : LiveStatuses,
                version : Nat]
  BY DEF Plan, NoPlan

\* Every upsert of a rule keeps the entry well formed.
LEMMA RememberType ==
  ASSUME TypeOK, NEW r \in Rules, NEW strength \in Strengths, Remember(r, strength)
  PROVE  veto' \in [Contents -> Veto]
<1>1. ContentOf[r] \in Contents
  BY LifecycleAssumption
<1>2. ASSUME NEW old \in Veto PROVE Upserted(old, r, strength) \in Veto
  BY <1>2 DEF Upserted, Veto, NoVeto, Rank, Strengths
<1>3. [veto EXCEPT ![ContentOf[r]] = Upserted(@, r, strength)] \in [Contents -> Veto]
  BY <1>1, <1>2 DEF TypeOK
<1> QED
  BY <1>3 DEF Remember, TypeOK

\* An unconditional archival writes a status.
LEMMA ArchiveRowType ==
  ASSUME TypeOK, NEW r \in Rules, ArchiveRow(r)
  PROVE  status' \in [Rules -> Statuses \cup {"unborn", "deleted"}]
  BY DEF TypeOK, ArchiveRow, Statuses

\* A write of a status keeps the three columns it touches in their types.
LEMMA WriteStatusType ==
  ASSUME TypeOK, NEW r \in Rules, NEW to \in Statuses, WriteStatus(r, to)
  PROVE  /\ status' \in [Rules -> Statuses \cup {"unborn", "deleted"}]
         /\ version' \in [Rules -> Nat]
         /\ stamped' \in [Rules -> BOOLEAN]
<1>1. status' \in [Rules -> Statuses \cup {"unborn", "deleted"}]
  BY DEF TypeOK, WriteStatus
<1>2. version' \in [Rules -> Nat]
  BY DEF TypeOK, WriteStatus
<1>3. stamped' \in [Rules -> BOOLEAN]
  BY DEF TypeOK, WriteStatus
<1> QED
  BY <1>1, <1>2, <1>3

\* A new row has a status and a version.
LEMMA NewRowType ==
  ASSUME TypeOK, NEW r \in Rules, NEW st \in Statuses, NewRow(r, st)
  PROVE  /\ status' \in [Rules -> Statuses \cup {"unborn", "deleted"}]
         /\ version' \in [Rules -> Nat]
  BY DEF TypeOK, NewRow

\* Every action keeps every variable in its type.
LEMMA TypeStep ==
  ASSUME TypeOK, TargetIsRule, [Next]_vars
  PROVE  TypeOK'
<1> USE DEF TypeOK, rowVars, evidenceVars, actorVars
<1>1. ASSUME NEW e \in Evaluators, NEW r \in Rules, ReadRule(e, r) PROVE TypeOK'
  <2>1. [pc |-> "read", rule |-> r, status |-> status[r], version |-> version[r],
         scope |-> scope[r], replaced |-> replacement[r] # NoRule,
         stamped |-> stamped[r], decision |-> "none"] \in Task
    BY <1>1 DEF ReadRule, Live, Task, Outcomes
  <2> QED
    BY <1>1, <2>1 DEF ReadRule
<1>2. ASSUME NEW e \in Evaluators, Decide(e) PROVE TypeOK'
  <2>1. task[e] \in [pc : {"read", "decided", "fingerprint"}, rule : Rules,
                     status : LiveStatuses, version : Nat, scope : Scopes,
                     replaced : BOOLEAN, stamped : BOOLEAN, decision : Outcomes]
    BY <1>2, BusyTask DEF Decide
  <2>2. PICK d \in Outcomes : task' = [task EXCEPT ![e].pc = "decided", ![e].decision = d]
    BY <1>2 DEF Decide
  <2>3. [task[e] EXCEPT !.pc = "decided", !.decision = d] \in Task
    BY <2>1 DEF Task
  <2>4. task' \in [Evaluators -> Task]
    BY <2>2, <2>3
  <2> QED
    BY <1>2, <2>4 DEF Decide
<1>3. ASSUME NEW e \in Evaluators, DecideNothing(e) PROVE TypeOK'
  BY <1>3, Defaults DEF DecideNothing
<1>4. ASSUME NEW e \in Evaluators, ApplyTransition(e) PROVE TypeOK'
  <2>1. task[e].pc = "decided" /\ task[e].decision \in Statuses
    BY <1>4 DEF ApplyTransition
  <2>2. task[e] \in [pc : {"read", "decided", "fingerprint"}, rule : Rules,
                     status : LiveStatuses, version : Nat, scope : Scopes,
                     replaced : BOOLEAN, stamped : BOOLEAN, decision : Outcomes]
    BY <2>1, BusyTask
  <2>3. [task[e] EXCEPT !.pc = "fingerprint"] \in Task
    BY <2>2 DEF Task
  <2>4. task' \in [Evaluators -> Task]
    BY <1>4, <2>3, Defaults DEF ApplyTransition
  <2>5. /\ status' \in [Rules -> Statuses \cup {"unborn", "deleted"}]
        /\ version' \in [Rules -> Nat]
        /\ stamped' \in [Rules -> BOOLEAN]
    <3>1. CASE WriteStatus(task[e].rule, task[e].decision)
      BY <2>1, <2>2, <3>1, WriteStatusType
    <3>2. CASE UNCHANGED <<status, version, stamped>>
      BY <3>2
    <3> QED
      BY <1>4, <3>1, <3>2 DEF ApplyTransition
  <2> QED
    BY <1>4, <2>4, <2>5 DEF ApplyTransition
<1>5. ASSUME NEW e \in Evaluators, ApplyCrossProjectPromotion(e) PROVE TypeOK'
  <2>1. task' \in [Evaluators -> Task]
    BY <1>5, Defaults DEF ApplyCrossProjectPromotion
  <2>2. scope' \in [Rules -> Scopes] /\ version' \in [Rules -> Nat]
    BY <1>5 DEF ApplyCrossProjectPromotion, Scopes
  <2> QED
    BY <1>5, <2>1, <2>2 DEF ApplyCrossProjectPromotion
<1>6. ASSUME NEW e \in Evaluators, CreateSystemArchiveFingerprint(e) PROVE TypeOK'
  <2>1. task[e].rule \in Rules
    BY <1>6, BusyTask DEF CreateSystemArchiveFingerprint
  <2>2. veto' \in [Contents -> Veto]
    BY <1>6, <2>1, RememberType DEF CreateSystemArchiveFingerprint, Strengths
  <2> QED
    BY <1>6, <2>2, Defaults DEF CreateSystemArchiveFingerprint
<1>7. ASSUME NEW e \in Evaluators, EvaluatorDies(e) PROVE TypeOK'
  BY <1>7, Defaults DEF EvaluatorDies
<1>8. ASSUME NEW u \in Users, NEW r \in Rules, NEW op \in {"dismiss", "edit"},
             CheckNotArchived(u, r, op)
      PROVE  TypeOK'
  BY <1>8 DEF CheckNotArchived, Command
<1>9. ASSUME NEW u \in Users, Dismiss(u) PROVE TypeOK'
  <2>1. command[u].rule \in Rules
    BY <1>9 DEF Dismiss, Command, NoCommand
  <2>2. status' \in [Rules -> Statuses \cup {"unborn", "deleted"}]
    BY <1>9, <2>1, ArchiveRowType DEF Dismiss, ArchiveRule
  <2>3. veto' \in [Contents -> Veto]
    BY <1>9, <2>1, RememberType DEF Dismiss, ArchiveRule, Strengths
  <2> QED
    BY <1>9, <2>2, <2>3, Defaults DEF Dismiss
<1>10. ASSUME NEW u \in Users, EditToArchived(u) PROVE TypeOK'
  <2>1. command[u].rule \in Rules
    BY <1>10 DEF EditToArchived, Command, NoCommand
  <2>2. status' \in [Rules -> Statuses \cup {"unborn", "deleted"}]
    BY <1>10, <2>1, ArchiveRowType DEF EditToArchived
  <2> QED
    BY <1>10, <2>2, Defaults DEF EditToArchived
<1>11. ASSUME NEW r \in Rules, DismissInPrompt(r) PROVE TypeOK'
  <2>1. status' \in [Rules -> Statuses \cup {"unborn", "deleted"}]
    BY <1>11, ArchiveRowType DEF DismissInPrompt, ArchiveRule
  <2>2. veto' \in [Contents -> Veto]
    BY <1>11, RememberType DEF DismissInPrompt, ArchiveRule, Strengths
  <2> QED
    BY <1>11, <2>1, <2>2 DEF DismissInPrompt
<1>12. ASSUME NEW r \in Rules, Add(r) PROVE TypeOK'
  BY <1>12, NewRowType DEF Add, Statuses, LiveStatuses
<1>13. ASSUME NEW r \in Rules, NEW target \in Rules \cup {NoRule}, ImportArchived(r, target)
       PROVE  TypeOK'
  BY <1>13, NewRowType DEF ImportArchived, Statuses, LiveStatuses
<1>14. ASSUME NEW p \in Pipelines, NEW n \in Rules, NEW op \in MergeOps,
              NEW o \in Rules \cup {NoRule}, PlanMerge(p, n, op, o)
       PROVE  TypeOK'
  <2>1. [pc |-> "planned", new |-> n, op |-> op, target |-> o,
         status |-> IF o = NoRule THEN "candidate" ELSE status[o],
         version |-> IF o = NoRule THEN 0 ELSE version[o]] \in Plan
    <3>1. CASE o = NoRule
      BY <3>1 DEF Plan, LiveStatuses
    <3>2. CASE o # NoRule
      BY <1>14, <3>2 DEF PlanMerge, Live, Plan
    <3> QED
      BY <3>1, <3>2
  <2> QED
    BY <1>14, <2>1 DEF PlanMerge
<1>15. ASSUME NEW p \in Pipelines, CheckFingerprint(p) PROVE TypeOK'
  <2>1. [plan[p] EXCEPT !.pc = "cleared"] \in Plan
    BY <1>15, BusyPlan DEF CheckFingerprint, Plan
  <2>2. plan' \in [Pipelines -> Plan]
    BY <1>15, <2>1, Defaults DEF CheckFingerprint
  <2> QED
    BY <1>15, <2>2 DEF CheckFingerprint
<1>16. ASSUME NEW p \in Pipelines, NEW st \in {"candidate", "active"}, InsertRule(p, st)
       PROVE  TypeOK'
  <2>1. [plan[p] EXCEPT !.pc = "inserted"] \in Plan /\ plan[p].new \in Rules
    BY <1>16, BusyPlan DEF InsertRule, Plan
  <2>2. plan' \in [Pipelines -> Plan]
    BY <1>16, <2>1, Defaults DEF InsertRule
  <2> QED
    BY <1>16, <2>1, <2>2, NewRowType DEF InsertRule, Statuses, LiveStatuses
<1>17. ASSUME NEW p \in Pipelines, ApplyMergeSideEffects(p) PROVE TypeOK'
  <2>1. /\ [plan[p] EXCEPT !.pc = "fingerprint"] \in Plan
        /\ plan[p].new \in Rules
    BY <1>17, BusyPlan DEF ApplyMergeSideEffects, Plan
  <2>2. plan[p].target \in Rules
    BY <1>17 DEF ApplyMergeSideEffects, TargetIsRule
  <2>3. plan' \in [Pipelines -> Plan]
    BY <1>17, <2>1, Defaults DEF ApplyMergeSideEffects
  <2>4. /\ status' \in [Rules -> Statuses \cup {"unborn", "deleted"}]
        /\ version' \in [Rules -> Nat]
        /\ stamped' \in [Rules -> BOOLEAN]
        /\ replacement' \in [Rules -> Rules \cup {NoRule}]
    <3>1. CASE Displace(plan[p].new, plan[p].target, plan[p].op)
      BY <2>1, <2>2, <3>1, WriteStatusType DEF Displace, Statuses, LiveStatuses
    <3>2. CASE UNCHANGED <<status, version, replacement, stamped>>
      BY <3>2
    <3> QED
      BY <1>17, <3>1, <3>2 DEF ApplyMergeSideEffects
  <2> QED
    BY <1>17, <2>3, <2>4 DEF ApplyMergeSideEffects
<1>18. ASSUME NEW p \in Pipelines, CreateReplacementFingerprint(p) PROVE TypeOK'
  <2>1. plan[p].target \in Rules
    BY <1>18 DEF CreateReplacementFingerprint, TargetIsRule
  <2>2. veto' \in [Contents -> Veto]
    BY <1>18, <2>1, RememberType DEF CreateReplacementFingerprint, Strengths
  <2> QED
    BY <1>18, <2>2, Defaults DEF CreateReplacementFingerprint
<1>19. ASSUME NEW p \in Pipelines, PipelineDies(p) PROVE TypeOK'
  BY <1>19, Defaults DEF PipelineDies
<1>20. ASSUME NEW r \in Rules, MergeFields(r) PROVE TypeOK'
  BY <1>20 DEF MergeFields
<1>21. ASSUME NEW r \in Rules, CleanupCandidate(r) PROVE TypeOK'
  <2>1. WithoutOwner(r) \in [Contents -> Veto]
    BY Defaults DEF WithoutOwner
  <2> QED
    BY <1>21, <2>1, LifecycleAssumption DEF CleanupCandidate, Scopes
<1>22. ASSUME NEW s \in Sweepers, NEW r \in Rules, FindOrphan(s, r) PROVE TypeOK'
  BY <1>22 DEF FindOrphan
<1>23. ASSUME NEW s \in Sweepers, RestoreOrphan(s) PROVE TypeOK'
  BY <1>23 DEF RestoreOrphan, Restore, Statuses, LiveStatuses
<1>24. ASSUME NEW r \in Rules, Fire(r) \/ LabelHarmful(r) PROVE TypeOK'
  BY <1>24 DEF Fire, LabelHarmful
<1>25. ASSUME UNCHANGED vars PROVE TypeOK'
  BY <1>25 DEF vars
<1> QED
  BY <1>1, <1>2, <1>3, <1>4, <1>5, <1>6, <1>7, <1>8, <1>9, <1>10, <1>11, <1>12, <1>13,
     <1>14, <1>15, <1>16, <1>17, <1>18, <1>19, <1>20, <1>21, <1>22, <1>23, <1>24, <1>25
     DEF Next, Evaluate, UserCommand, Insertion, Pipeline, Maintain
-----------------------------------------------------------------------------
(* Evaluations in flight                                                   *)

\* No step leaves an evaluation with a decision the policy does not allow for
\* the status it has read.
LEMMA DecisionStep ==
  ASSUME TypeOK, DecisionIsAllowed, [Next]_vars
  PROVE  DecisionIsAllowed'
<1> SUFFICES ASSUME NEW e \in Evaluators,
                    task'[e].pc = "decided", task'[e].decision \in Statuses
             PROVE  <<task'[e].status, task'[e].decision>> \in Graph!Moves
  BY DEF DecisionIsAllowed
<1>1. CASE Decide(e)
  <2>1. PICK d \in Outcomes :
          /\ MayDecide(task[e].status, task[e].rule \in harmed, task[e].replaced,
                       task[e].scope, task[e].stamped, d)
          /\ task' = [task EXCEPT ![e].pc = "decided", ![e].decision = d]
    BY <1>1 DEF Decide
  <2>2. task[e] \in [pc : {"read", "decided", "fingerprint"}, rule : Rules,
                     status : LiveStatuses, version : Nat, scope : Scopes,
                     replaced : BOOLEAN, stamped : BOOLEAN, decision : Outcomes]
    BY <1>1, BusyTask DEF Decide, TypeOK
  <2>3. task'[e] = [task[e] EXCEPT !.pc = "decided", !.decision = d]
    BY <2>1 DEF TypeOK
  <2>4. task'[e].status = task[e].status /\ task'[e].decision = d
    BY <2>2, <2>3
  <2>5. <<task[e].status, d>> \in Graph!Moves
    BY <2>1, <2>2, <2>4 DEF MayDecide, LiveStatuses, Statuses, Graph!Moves, Graph!Drawn, Graph!Undrawn
  <2> QED
    BY <2>4, <2>5
<1>2. CASE task'[e] = task[e]
  BY <1>2 DEF DecisionIsAllowed
<1>3. ASSUME NEW d \in Evaluators, Evaluate(d) PROVE task'[e] = task[e] \/ Decide(e)
  <2>1. CASE \E r \in Rules : ReadRule(d, r)
    BY <2>1 DEF ReadRule, TypeOK
  <2>2. CASE Decide(d)
    BY <2>2 DEF Decide, TypeOK
  <2>3. CASE DecideNothing(d) \/ ApplyCrossProjectPromotion(d)
               \/ CreateSystemArchiveFingerprint(d) \/ EvaluatorDies(d)
    BY <2>3 DEF DecideNothing, ApplyCrossProjectPromotion, CreateSystemArchiveFingerprint,
                EvaluatorDies, TypeOK, Idle
  <2>4. CASE ApplyTransition(d)
    <3>1. task[d] \in [pc : {"read", "decided", "fingerprint"}, rule : Rules,
                       status : LiveStatuses, version : Nat, scope : Scopes,
                       replaced : BOOLEAN, stamped : BOOLEAN, decision : Outcomes]
      BY <2>4, BusyTask DEF ApplyTransition, TypeOK
    <3>2. task' = [task EXCEPT ![d] = [task[d] EXCEPT !.pc = "fingerprint"]]
            \/ task' = [task EXCEPT ![d] = Idle]
      BY <2>4 DEF ApplyTransition
    <3> QED
      BY <3>1, <3>2 DEF TypeOK, Idle
  <2> QED
    BY <1>3, <2>1, <2>2, <2>3, <2>4 DEF Evaluate
<1>4. ASSUME NEW u \in Users, UserCommand(u) PROVE task' = task
  BY <1>4 DEF UserCommand, CheckNotArchived, Dismiss, EditToArchived
<1>5. ASSUME NEW p \in Pipelines, Pipeline(p) PROVE task' = task
  BY <1>5 DEF Pipeline, PlanMerge, CheckFingerprint, InsertRule, ApplyMergeSideEffects,
              CreateReplacementFingerprint, PipelineDies
<1>6. ASSUME NEW r \in Rules,
             Insertion(r) \/ DismissInPrompt(r) \/ MergeFields(r)
               \/ Fire(r) \/ LabelHarmful(r)
      PROVE  task' = task
  BY <1>6 DEF Insertion, Add, ImportArchived, DismissInPrompt, MergeFields, Fire,
              LabelHarmful, actorVars
<1>7. ASSUME Maintain PROVE task' = task
  BY <1>7 DEF Maintain, CleanupCandidate, FindOrphan, RestoreOrphan, actorVars
<1>8. ASSUME UNCHANGED vars PROVE task' = task
  BY <1>8 DEF vars
<1> QED
  BY <1>1, <1>2, <1>3, <1>4, <1>5, <1>6, <1>7, <1>8 DEF Next
-----------------------------------------------------------------------------
(* Pipelines in flight                                                     *)

\* Only an insertion of the rule brings it to life.
LEMMA BirthIsInsertion ==
  ASSUME TypeOK, TargetIsRule, [Next]_vars,
         NEW n \in Rules, status[n] = "unborn", status'[n] # "unborn"
  PROVE  \/ Unborn(n)
         \/ \E p \in Pipelines, st \in {"candidate", "active"} :
              InsertRule(p, st) /\ plan[p].new = n
<1> USE DEF TypeOK
<1>1. ASSUME NEW e \in Evaluators, Evaluate(e) PROVE status'[n] = status[n]
  <2>1. CASE ApplyTransition(e)
    <3>1. task[e].rule \in Rules /\ task[e].status \in LiveStatuses
      BY <2>1, BusyTask DEF ApplyTransition
    <3> QED
      BY <2>1, <3>1 DEF ApplyTransition, Unchanged, WriteStatus, LiveStatuses
  <2>2. CASE ~ApplyTransition(e)
    BY <1>1, <2>2 DEF Evaluate, ReadRule, Decide, DecideNothing, ApplyCrossProjectPromotion,
                      CreateSystemArchiveFingerprint, EvaluatorDies, rowVars
  <2> QED
    BY <2>1, <2>2
<1>2. ASSUME NEW u \in Users, UserCommand(u) PROVE status'[n] = status[n]
  BY <1>2 DEF UserCommand, CheckNotArchived, Dismiss, EditToArchived, ArchiveRule,
              ArchiveRow, Row, Statuses, LiveStatuses, rowVars
<1>3. ASSUME NEW p \in Pipelines, Pipeline(p), status'[n] # status[n]
      PROVE  \E st \in {"candidate", "active"} : InsertRule(p, st) /\ plan[p].new = n
  <2>1. CASE \E st \in {"candidate", "active"} : InsertRule(p, st)
    BY <1>3, <2>1 DEF InsertRule, NewRow
  <2>2. CASE ApplyMergeSideEffects(p)
    <3>1. plan[p].status \in LiveStatuses /\ plan[p].target \in Rules
      BY <2>2, BusyPlan DEF ApplyMergeSideEffects, TargetIsRule
    <3>2. status'[n] = status[n]
      BY <2>2, <3>1 DEF ApplyMergeSideEffects, Unchanged, Displace, WriteStatus, LiveStatuses
    <3> QED
      BY <1>3, <3>2
  <2>3. CASE UNCHANGED status
    BY <1>3, <2>3
  <2> QED
    BY <1>3, <2>1, <2>2, <2>3 DEF Pipeline, PlanMerge, CheckFingerprint,
       CreateReplacementFingerprint, PipelineDies, rowVars
<1>4. ASSUME NEW r \in Rules, Insertion(r) PROVE status'[n] = status[n] \/ Unborn(n)
  BY <1>4 DEF Insertion, Add, ImportArchived, NewRow
<1>5. ASSUME NEW r \in Rules, DismissInPrompt(r) PROVE status'[n] = status[n]
  BY <1>5 DEF DismissInPrompt, ArchiveRule, ArchiveRow, Row, Statuses, LiveStatuses
<1>6. ASSUME NEW r \in Rules, MergeFields(r) \/ Fire(r) \/ LabelHarmful(r)
      PROVE  status'[n] = status[n]
  BY <1>6 DEF MergeFields, Fire, LabelHarmful, rowVars
<1>7. ASSUME Maintain PROVE status'[n] = status[n]
  BY <1>7 DEF Maintain, CleanupCandidate, FindOrphan, RestoreOrphan, Restore, rowVars
<1>8. ASSUME UNCHANGED vars PROVE status'[n] = status[n]
  BY <1>8 DEF vars
<1> QED
  BY <1>1, <1>2, <1>3, <1>4, <1>5, <1>6, <1>7, <1>8 DEF Next

\* A pipeline with a destructive operation keeps a rule as its target.
LEMMA TargetStep ==
  ASSUME TypeOK, TargetIsRule, [Next]_vars
  PROVE  TargetIsRule'
<1> USE DEF TypeOK, TargetIsRule
<1>1. ASSUME NEW p \in Pipelines, NEW n \in Rules, NEW op \in MergeOps,
             NEW o \in Rules \cup {NoRule}, PlanMerge(p, n, op, o)
      PROVE  TargetIsRule'
  BY <1>1 DEF PlanMerge
<1>2. ASSUME NEW p \in Pipelines, CheckFingerprint(p) PROVE TargetIsRule'
  BY <1>2, BusyPlan DEF CheckFingerprint, NoPlan
<1>3. ASSUME NEW p \in Pipelines, NEW st \in {"candidate", "active"}, InsertRule(p, st)
      PROVE  TargetIsRule'
  BY <1>3, BusyPlan DEF InsertRule, NoPlan
<1>4. ASSUME NEW p \in Pipelines, ApplyMergeSideEffects(p) PROVE TargetIsRule'
  BY <1>4, BusyPlan DEF ApplyMergeSideEffects, NoPlan
<1>5. ASSUME NEW p \in Pipelines, CreateReplacementFingerprint(p) \/ PipelineDies(p)
      PROVE  TargetIsRule'
  BY <1>5 DEF CreateReplacementFingerprint, PipelineDies, NoPlan
<1>6. CASE UNCHANGED plan
  BY <1>6
<1> QED
  BY <1>1, <1>2, <1>3, <1>4, <1>5, <1>6
     DEF Next, Pipeline, Evaluate, UserCommand, Insertion, Maintain, ReadRule, Decide,
         DecideNothing, ApplyTransition, ApplyCrossProjectPromotion,
         CreateSystemArchiveFingerprint, EvaluatorDies, CheckNotArchived, Dismiss,
         EditToArchived, DismissInPrompt, Add, ImportArchived, MergeFields, Fire,
         LabelHarmful, CleanupCandidate, FindOrphan, RestoreOrphan, actorVars, vars

\* The new rule of a pipeline has no row before the pipeline inserts it.
LEMMA PlannedStep ==
  ASSUME TypeOK, TargetIsRule, PlannedIsUnborn, [Next]_vars
  PROVE  PlannedIsUnborn'
<1> USE DEF TypeOK
\* A rule that is reserved after the step, and was before.
<1>1. ASSUME NEW p \in Pipelines, Reserved(p), Reserved(p)', plan'[p].new = plan[p].new
      PROVE  status'[plan[p].new] = "unborn"
  <2>1. plan[p].new \in Rules /\ status[plan[p].new] = "unborn"
    BY <1>1, BusyPlan DEF Reserved, PlannedIsUnborn
  <2>2. ~Unborn(plan[p].new)
    BY <1>1 DEF Unborn
  <2>3. ASSUME NEW q \in Pipelines, NEW st \in {"candidate", "active"},
               InsertRule(q, st), plan[q].new = plan[p].new
        PROVE  FALSE
    <3>1. q = p
      BY <1>1, <2>3 DEF InsertRule, PlannedIsUnborn, Reserved
    <3>2. plan'[p].pc \in {"inserted", "none"}
      BY <2>3, <3>1, BusyPlan DEF InsertRule, NoPlan
    <3> QED
      BY <1>1, <3>2 DEF Reserved
  <2> QED
    BY <2>1, <2>2, <2>3, BirthIsInsertion
<1>2. CASE \E p \in Pipelines, n \in Rules, op \in MergeOps, o \in Rules \cup {NoRule} :
             PlanMerge(p, n, op, o)
  <2>1. PICK p \in Pipelines, n \in Rules, op \in MergeOps, o \in Rules \cup {NoRule} :
               PlanMerge(p, n, op, o)
    BY <1>2
  <2>2. /\ plan'[p].new = n
        /\ status[n] = "unborn" /\ status' = status
        /\ \A q \in Pipelines : q # p => plan'[q] = plan[q]
        /\ \A q \in Pipelines : plan[q].new # n
    BY <2>1 DEF PlanMerge, Unborn, rowVars
  <2> QED
    BY <2>2 DEF PlannedIsUnborn, Reserved
<1>3. CASE \A p \in Pipelines : Reserved(p)' => Reserved(p) /\ plan'[p].new = plan[p].new
  <2> QED
    BY <1>1, <1>3 DEF PlannedIsUnborn, Reserved
<1>4. ASSUME NEW p \in Pipelines,
             CheckFingerprint(p) \/ ApplyMergeSideEffects(p) \/ CreateReplacementFingerprint(p)
               \/ PipelineDies(p) \/ (\E st \in {"candidate", "active"} : InsertRule(p, st))
      PROVE  \A q \in Pipelines : Reserved(q)' => Reserved(q) /\ plan'[q].new = plan[q].new
  <2>1. ASSUME NEW q \in Pipelines, q # p PROVE plan'[q] = plan[q]
    BY <1>4, <2>1 DEF CheckFingerprint, ApplyMergeSideEffects, CreateReplacementFingerprint,
                      PipelineDies, InsertRule
  <2>2. Reserved(p)' => CheckFingerprint(p)
    BY <1>4, BusyPlan DEF Reserved, ApplyMergeSideEffects, CreateReplacementFingerprint,
                          PipelineDies, InsertRule, NoPlan
  <2>3. (CheckFingerprint(p) /\ Reserved(p)') => Reserved(p) /\ plan'[p].new = plan[p].new
    BY BusyPlan DEF CheckFingerprint, Reserved, NoPlan
  <2> QED
    BY <2>1, <2>2, <2>3 DEF Reserved
<1>5. UNCHANGED plan => \A q \in Pipelines : Reserved(q)' => Reserved(q) /\ plan'[q].new = plan[q].new
  BY DEF Reserved
<1> QED
  BY <1>2, <1>3, <1>4, <1>5
     DEF Next, Pipeline, Evaluate, UserCommand, Insertion, Maintain, ReadRule, Decide,
         DecideNothing, ApplyTransition, ApplyCrossProjectPromotion,
         CreateSystemArchiveFingerprint, EvaluatorDies, CheckNotArchived, Dismiss,
         EditToArchived, DismissInPrompt, Add, ImportArchived, MergeFields, Fire,
         LabelHarmful, CleanupCandidate, FindOrphan, RestoreOrphan, actorVars, vars
-----------------------------------------------------------------------------
(* Rows                                                                    *)

RowsAreSound == ReplacementMeansArchived /\ SuppressedIsStamped

\* No step breaks the two invariants of the rows: each writer of a status
\* also writes, or has no need to write, the columns that go with it.
LEMMA RowStep ==
  ASSUME IInv, [Next]_vars
  PROVE  RowsAreSound'
<1> USE DEF IInv, TypeOK, RowsAreSound, ReplacementMeansArchived, SuppressedIsStamped
<1>1. ASSUME NEW e \in Evaluators, ApplyTransition(e) PROVE RowsAreSound'
  <2>1. task[e].rule \in Rules /\ task[e].status \in LiveStatuses
    BY <1>1, BusyTask DEF ApplyTransition
  <2>2. CASE WriteStatus(task[e].rule, task[e].decision)
              /\ Unchanged(task[e].rule, task[e].status, task[e].version)
    <3>1. replacement[task[e].rule] = NoRule
      BY <2>1, <2>2 DEF Unchanged, LiveStatuses
    <3> QED
      BY <1>1, <2>1, <2>2, <3>1 DEF ApplyTransition, WriteStatus
  <2>3. CASE UNCHANGED <<status, version, stamped>>
    BY <1>1, <2>3 DEF ApplyTransition
  <2> QED
    BY <1>1, <2>2, <2>3 DEF ApplyTransition
<1>2. ASSUME NEW u \in Users, Dismiss(u) \/ EditToArchived(u) PROVE RowsAreSound'
  BY <1>2 DEF Dismiss, EditToArchived, ArchiveRule, ArchiveRow
<1>3. ASSUME NEW r \in Rules, DismissInPrompt(r) PROVE RowsAreSound'
  BY <1>3 DEF DismissInPrompt, ArchiveRule, ArchiveRow
<1>4. ASSUME NEW r \in Rules, Insertion(r) PROVE RowsAreSound'
  BY <1>4 DEF Insertion, Add, ImportArchived, NewRow, Unborn
<1>5. ASSUME NEW p \in Pipelines, NEW st \in {"candidate", "active"}, InsertRule(p, st)
      PROVE  RowsAreSound'
  <2>1. plan[p].new \in Rules /\ status[plan[p].new] = "unborn"
    BY <1>5, BusyPlan DEF InsertRule, PlannedIsUnborn, Reserved
  <2>2. replacement[plan[p].new] = NoRule
    BY <2>1
  <2> QED
    BY <1>5, <2>1, <2>2 DEF InsertRule, NewRow
<1>6. ASSUME NEW p \in Pipelines, ApplyMergeSideEffects(p) PROVE RowsAreSound'
  <2>1. /\ plan[p].new \in Rules /\ plan[p].target \in Rules
        /\ plan[p].status \in LiveStatuses
    BY <1>6, BusyPlan DEF ApplyMergeSideEffects, TargetIsRule
  <2>2. CASE Displace(plan[p].new, plan[p].target, plan[p].op)
              /\ Unchanged(plan[p].target, plan[p].status, plan[p].version)
    <3>1. replacement[plan[p].target] = NoRule
      BY <2>1, <2>2 DEF Unchanged, LiveStatuses
    <3> QED
      BY <1>6, <2>1, <2>2, <3>1 DEF Displace, WriteStatus
  <2>3. CASE UNCHANGED <<status, version, replacement, stamped>>
    BY <2>3
  <2> QED
    BY <1>6, <2>2, <2>3 DEF ApplyMergeSideEffects
<1>7. ASSUME NEW r \in Rules, CleanupCandidate(r) PROVE RowsAreSound'
  BY <1>7 DEF CleanupCandidate
<1>8. ASSUME NEW s \in Sweepers, RestoreOrphan(s) PROVE RowsAreSound'
  BY <1>8 DEF RestoreOrphan, Restore
<1>9. CASE UNCHANGED <<status, replacement, stamped>>
  BY <1>9
<1> QED
  BY <1>1, <1>2, <1>3, <1>4, <1>5, <1>6, <1>7, <1>8, <1>9
     DEF Next, Pipeline, Evaluate, UserCommand, Maintain, ReadRule, Decide, DecideNothing,
         ApplyCrossProjectPromotion, CreateSystemArchiveFingerprint, EvaluatorDies,
         CheckNotArchived, PlanMerge, CheckFingerprint, CreateReplacementFingerprint,
         PipelineDies, MergeFields, Fire, LabelHarmful, FindOrphan, rowVars, vars

\* An empty table satisfies the inductive invariant.
LEMMA InitIInv == Init => IInv
<1> SUFFICES ASSUME Init PROVE IInv
  OBVIOUS
<1>1. TypeOK
  BY Defaults, LifecycleAssumption DEF Init, TypeOK, Scopes
<1>2. ReplacementMeansArchived /\ SuppressedIsStamped
  BY DEF Init, ReplacementMeansArchived, SuppressedIsStamped
<1>3. DecisionIsAllowed /\ PlannedIsUnborn /\ TargetIsRule
  BY DEF Init, DecisionIsAllowed, PlannedIsUnborn, TargetIsRule, Reserved, Idle, NoPlan
<1> QED
  BY <1>1, <1>2, <1>3 DEF IInv

\* Every step preserves the inductive invariant.
LEMMA StepIInv == IInv /\ [Next]_vars => IInv'
  BY TypeStep, RowStep, DecisionStep, PlannedStep, TargetStep DEF IInv, RowsAreSound

\* The inductive invariant holds in every reachable state.
THEOREM Invariance == Spec => []IInv
  BY InitIInv, StepIInv, PTL DEF Spec

\* Every column and every value an actor carries keeps its type.
THEOREM TypeCorrect == Spec => []TypeOK
  BY Invariance, PTL DEF IInv

\* restore_orphaned_archived and _apply_merge_side_effects keep replacement_id
\* and the archived status together, whatever runs between them.
THEOREM ReplacementSafe == Spec => []ReplacementMeansArchived
  BY Invariance, PTL DEF IInv

\* No suppressed rule is without the timestamp its recovery and its TTL need.
THEOREM SuppressionSafe == Spec => []SuppressedIsStamped
  BY Invariance, PTL DEF IInv

-----------------------------------------------------------------------------
(* Refinement of the status graph                                          *)

\* A write of one status along an edge is a step of the graph.
LEMMA MoveIsGraphStep ==
  ASSUME TypeOK, NEW r \in Rules, NEW to \in Statuses \cup {"deleted"},
         status' = [status EXCEPT ![r] = to],
         status[r] = to \/ <<status[r], to>> \in Graph!Moves
  PROVE  [Graph!Next]_status
<1>1. CASE status[r] = to
  BY <1>1 DEF TypeOK
<1>2. CASE Graph!Move(r, to)
  BY <1>2 DEF Graph!Next, Graph!Statuses, Graph!LiveStatuses, Statuses, LiveStatuses
<1> QED
  BY <1>1, <1>2 DEF Graph!Move

\* Every step moves at most one rule, along an edge of the graph.
LEMMA GraphStep ==
  ASSUME IInv, [Next]_vars
  PROVE  [Graph!Next]_status
<1> USE DEF IInv, TypeOK
<1>1. ASSUME NEW e \in Evaluators, ApplyTransition(e) PROVE [Graph!Next]_status
  <2>1. /\ task[e].rule \in Rules /\ task[e].decision \in Statuses
        /\ <<task[e].status, task[e].decision>> \in Graph!Moves
    BY <1>1, BusyTask DEF ApplyTransition, DecisionIsAllowed
  <2>2. CASE WriteStatus(task[e].rule, task[e].decision)
              /\ Unchanged(task[e].rule, task[e].status, task[e].version)
    BY <2>1, <2>2, MoveIsGraphStep DEF WriteStatus, Unchanged
  <2>3. CASE UNCHANGED status
    BY <2>3
  <2> QED
    BY <1>1, <2>2, <2>3 DEF ApplyTransition
<1>2. ASSUME NEW r \in Rules, ArchiveRow(r) PROVE [Graph!Next]_status
  <2>1. CASE Row(r)
    <3>1. status[r] = "archived" \/ <<status[r], "archived">> \in Graph!Moves
      BY <2>1 DEF Row, Statuses, LiveStatuses, Graph!Moves, Graph!Drawn, Graph!Undrawn
    <3> QED
      BY <1>2, <2>1, <3>1, MoveIsGraphStep DEF ArchiveRow, Statuses
  <2> QED
    BY <1>2, <2>1 DEF ArchiveRow
<1>3. ASSUME NEW u \in Users, Dismiss(u) \/ EditToArchived(u) PROVE [Graph!Next]_status
  <2>1. command[u].rule \in Rules /\ ArchiveRow(command[u].rule)
    BY <1>3 DEF Dismiss, EditToArchived, ArchiveRule, Command, NoCommand
  <2> QED
    BY <1>2, <2>1
<1>4. ASSUME NEW r \in Rules, DismissInPrompt(r) PROVE [Graph!Next]_status
  BY <1>2, <1>4 DEF DismissInPrompt, ArchiveRule
<1>5. ASSUME NEW r \in Rules, NEW st \in {"candidate", "active", "archived"},
             status[r] = "unborn", NewRow(r, st)
      PROVE  [Graph!Next]_status
  BY <1>5, MoveIsGraphStep DEF NewRow, Graph!Moves, Graph!Drawn, Graph!Undrawn, Statuses, LiveStatuses
<1>6. ASSUME NEW r \in Rules, Insertion(r) PROVE [Graph!Next]_status
  BY <1>5, <1>6 DEF Insertion, Add, ImportArchived, Unborn
<1>7. ASSUME NEW p \in Pipelines, NEW st \in {"candidate", "active"}, InsertRule(p, st)
      PROVE  [Graph!Next]_status
  <2>1. plan[p].new \in Rules /\ status[plan[p].new] = "unborn"
    BY <1>7, BusyPlan DEF InsertRule, PlannedIsUnborn, Reserved
  <2> QED
    BY <1>5, <1>7, <2>1 DEF InsertRule
<1>8. ASSUME NEW p \in Pipelines, ApplyMergeSideEffects(p) PROVE [Graph!Next]_status
  <2>1. plan[p].target \in Rules /\ plan[p].status \in LiveStatuses
    BY <1>8, BusyPlan DEF ApplyMergeSideEffects, TargetIsRule
  <2>2. ASSUME NEW to \in {"suppressed", "archived"}, WriteStatus(plan[p].target, to),
               Unchanged(plan[p].target, plan[p].status, plan[p].version)
        PROVE  [Graph!Next]_status
    <3>1. status[plan[p].target] = to \/ <<status[plan[p].target], to>> \in Graph!Moves
      BY <2>1, <2>2 DEF Unchanged, LiveStatuses, Graph!Moves, Graph!Drawn, Graph!Undrawn
    <3> QED
      BY <2>1, <2>2, <3>1, MoveIsGraphStep DEF WriteStatus, Statuses, LiveStatuses
  <2>3. CASE UNCHANGED status
    BY <2>3
  <2> QED
    BY <1>8, <2>2, <2>3 DEF ApplyMergeSideEffects, Displace
<1>9. ASSUME NEW r \in Rules, CleanupCandidate(r) PROVE [Graph!Next]_status
  BY <1>9, MoveIsGraphStep DEF CleanupCandidate, Graph!Moves, Graph!Drawn, Graph!Undrawn
<1>10. ASSUME NEW s \in Sweepers, RestoreOrphan(s) PROVE [Graph!Next]_status
  <2>1. sweep[s] \in Rules
    BY <1>10 DEF RestoreOrphan
  <2>2. CASE status[sweep[s]] = "archived"
    BY <1>10, <2>1, <2>2, MoveIsGraphStep
       DEF RestoreOrphan, Restore, Graph!Moves, Graph!Drawn, Graph!Undrawn, Statuses, LiveStatuses
  <2> QED
    BY <1>10, <2>2 DEF RestoreOrphan
<1>11. CASE UNCHANGED status
  BY <1>11
<1> QED
  BY <1>1, <1>3, <1>4, <1>6, <1>7, <1>8, <1>9, <1>10, <1>11
     DEF Next, Pipeline, Evaluate, UserCommand, Maintain, ReadRule, Decide, DecideNothing,
         ApplyCrossProjectPromotion, CreateSystemArchiveFingerprint, EvaluatorDies,
         CheckNotArchived, PlanMerge, CheckFingerprint, CreateReplacementFingerprint,
         PipelineDies, MergeFields, Fire, LabelHarmful, FindOrphan, rowVars, vars

\* Whatever the interleaving of evaluations, commands, pipelines, cleanups and
\* recoveries, RuleLifecycle implements StatusGraph.
THEOREM Refinement == Spec => FollowsStatusGraph
<1>1. Init => Graph!Init
  BY DEF Init, Graph!Init
<1>2. IInv /\ [Next]_vars => [Graph!Next]_status
  BY GraphStep
<1> QED
  BY <1>1, <1>2, Invariance, PTL DEF Spec, FollowsStatusGraph, Graph!Spec

-----------------------------------------------------------------------------
(* Memory of what was archived                                             *)

Kept(c) ==
  \/ veto'[c].owner = veto[c].owner /\ Rank(veto'[c].strength) >= Rank(veto[c].strength)
  \/ status[veto[c].owner] = "candidate" /\ status'[veto[c].owner] = "deleted"

\* An entry keeps its owner and does not lose strength when a rule of the same
\* content, or of another one, is archived.
LEMMA RememberKeeps ==
  ASSUME TypeOK, NEW r \in Rules, NEW strength \in Strengths, Remember(r, strength),
         NEW c \in Contents, veto[c] # NoVeto
  PROVE  veto'[c].owner = veto[c].owner /\ Rank(veto'[c].strength) >= Rank(veto[c].strength)
<1>1. /\ veto[c] \in [strength : Strengths, owner : Rules] /\ ContentOf[r] \in Contents
      /\ veto \in [Contents -> Veto]
  BY LifecycleAssumption DEF TypeOK, Veto
<1>2. Rank(strength) \in 0..2 /\ Rank(veto[c].strength) \in 0..2
  BY <1>1 DEF Rank, Strengths
<1>3. LET new == Upserted(veto[c], r, strength) IN
        new.owner = veto[c].owner /\ Rank(new.strength) >= Rank(veto[c].strength)
  BY <1>1, <1>2 DEF Upserted
<1>4. veto'[c] \in {veto[c], Upserted(veto[c], r, strength)}
  BY <1>1 DEF Remember
<1> QED
  BY <1>2, <1>3, <1>4

\* No step loses an entry, but the one that deletes the rule it belongs to.
LEMMA VetoStep ==
  ASSUME IInv, [Next]_vars, NEW c \in Contents, veto[c] # NoVeto
  PROVE  Kept(c)
<1> USE DEF IInv
<1>1. CASE UNCHANGED veto
  <2>1. veto[c] \in [strength : Strengths, owner : Rules]
    BY DEF TypeOK, Veto
  <2>2. Rank(veto[c].strength) \in 0..2
    BY <2>1 DEF Rank, Strengths
  <2> QED
    BY <1>1, <2>2 DEF Kept
<1>2. ASSUME NEW r \in Rules, NEW strength \in Strengths, Remember(r, strength) PROVE Kept(c)
  BY <1>2, RememberKeeps DEF Kept
<1>3. ASSUME NEW e \in Evaluators, CreateSystemArchiveFingerprint(e) PROVE Kept(c)
  <2>1. task[e].rule \in Rules
    BY <1>3, BusyTask DEF CreateSystemArchiveFingerprint, TypeOK
  <2> QED
    BY <1>2, <1>3, <2>1 DEF CreateSystemArchiveFingerprint, Strengths
<1>4. ASSUME NEW u \in Users, Dismiss(u) PROVE Kept(c)
  <2>1. command[u].rule \in Rules
    BY <1>4 DEF Dismiss, TypeOK, Command, NoCommand
  <2> QED
    BY <1>2, <1>4, <2>1 DEF Dismiss, ArchiveRule, Strengths
<1>5. ASSUME NEW r \in Rules, DismissInPrompt(r) PROVE Kept(c)
  BY <1>2, <1>5 DEF DismissInPrompt, ArchiveRule, Strengths
<1>6. ASSUME NEW p \in Pipelines, CreateReplacementFingerprint(p) PROVE Kept(c)
  <2>1. plan[p].target \in Rules
    BY <1>6 DEF CreateReplacementFingerprint, TargetIsRule
  <2> QED
    BY <1>2, <1>6, <2>1 DEF CreateReplacementFingerprint, Strengths
<1>7. ASSUME NEW r \in Rules, CleanupCandidate(r) PROVE Kept(c)
  <2>1. CASE veto[c].owner = r
    BY <1>7, <2>1 DEF CleanupCandidate, Kept, TypeOK
  <2>2. CASE veto[c].owner # r
    <3>1. veto'[c] = veto[c]
      BY <1>7, <2>2 DEF CleanupCandidate, WithoutOwner
    <3>2. veto[c] \in [strength : Strengths, owner : Rules]
      BY DEF TypeOK, Veto
    <3>3. Rank(veto[c].strength) \in 0..2
      BY <3>2 DEF Rank, Strengths
    <3> QED
      BY <3>1, <3>3 DEF Kept
  <2> QED
    BY <2>1, <2>2
<1> QED
  BY <1>1, <1>3, <1>4, <1>5, <1>6, <1>7
     DEF Next, Pipeline, Evaluate, UserCommand, Insertion, Maintain, ReadRule, Decide,
         DecideNothing, ApplyTransition, ApplyCrossProjectPromotion, EvaluatorDies,
         CheckNotArchived, EditToArchived, Add, ImportArchived, PlanMerge, CheckFingerprint,
         InsertRule, ApplyMergeSideEffects, PipelineDies, MergeFields, Fire, LabelHarmful,
         FindOrphan, RestoreOrphan, vars

\* However archivals of equal content by users, the system and replacements
\* interleave, what has been archived is not forgotten, nor remembered less
\* strongly, unless the rule that created the entry is deleted.
THEOREM VetoesAreKept == Spec => VetoNeverWeakens
<1>1. IInv /\ [Next]_vars =>
        [\A c \in Contents : veto[c] # NoVeto => Kept(c)]_vars
  BY VetoStep
<1> QED
  BY <1>1, Invariance, PTL DEF Spec, VetoNeverWeakens, Kept

-----------------------------------------------------------------------------
(* Evaluations and the rows they have read                                 *)

\* The row an evaluation has read has a later version now, unless the columns
\* its decision rests on are as it has read them.  (The status may change under
\* the same version: a user's archival writes none.)
Holds(t) ==
  /\ status[t.rule] # "unborn"
  /\ Row(t.rule) =>
       /\ t.version <= version[t.rule]
       /\ t.version = version[t.rule] =>
            /\ (replacement[t.rule] # NoRule) = t.replaced
            /\ scope[t.rule] = t.scope
            /\ stamped[t.rule] = t.stamped

SnapshotHolds ==
  \A e \in Evaluators : task[e].pc \in {"read", "decided"} => Holds(task[e])

\* What a step may do to a row that is there.
Versioned(r) ==
  /\ version'[r] >= version[r]
  /\ version'[r] = version[r] =>
       replacement'[r] = replacement[r] /\ scope'[r] = scope[r] /\ stamped'[r] = stamped[r]

\* A deleted identity is not used again, and whatever else is written to a row
\* than an archival comes with a new version.
LEMMA VersionStep ==
  ASSUME IInv, [Next]_vars, NEW r \in Rules, status[r] # "unborn"
  PROVE  status'[r] # "unborn" /\ (Row(r)' => Row(r) /\ Versioned(r))
<1> USE DEF IInv, TypeOK, Row, Versioned
<1> DEFINE Good == status'[r] # "unborn" /\ (Row(r)' => Row(r) /\ Versioned(r))
<1>1. ASSUME NEW o \in Rules, NEW to \in Statuses, WriteStatus(o, to), Row(o),
             UNCHANGED scope, r # o => replacement'[r] = replacement[r]
      PROVE  Good
  BY <1>1 DEF WriteStatus, Statuses, LiveStatuses
<1>2. ASSUME NEW o \in Rules, ArchiveRow(o), UNCHANGED <<version, scope, replacement, stamped>>
      PROVE  Good
  BY <1>2 DEF ArchiveRow
<1>3. ASSUME NEW o \in Rules, status[o] = "unborn", NEW st \in Statuses, NewRow(o, st),
             UNCHANGED <<scope, stamped>>, replacement'[r] = replacement[r]
      PROVE  Good
  BY <1>3 DEF NewRow
<1>4. ASSUME NEW e \in Evaluators, ApplyTransition(e) PROVE Good
  <2>1. task[e].rule \in Rules /\ task[e].status \in LiveStatuses /\ task[e].decision \in Statuses
    BY <1>4, BusyTask DEF ApplyTransition
  <2>2. CASE WriteStatus(task[e].rule, task[e].decision)
              /\ Unchanged(task[e].rule, task[e].status, task[e].version)
    BY <1>1, <1>4, <2>1, <2>2 DEF ApplyTransition, Unchanged, Statuses
  <2>3. CASE UNCHANGED <<status, version, stamped>>
    BY <1>4, <2>3 DEF ApplyTransition
  <2> QED
    BY <1>4, <2>2, <2>3 DEF ApplyTransition
<1>5. ASSUME NEW e \in Evaluators, ApplyCrossProjectPromotion(e) PROVE Good
  BY <1>5 DEF ApplyCrossProjectPromotion
<1>6. ASSUME NEW u \in Users, Dismiss(u) \/ EditToArchived(u) PROVE Good
  <2>1. command[u].rule \in Rules
    BY <1>6 DEF Dismiss, EditToArchived, Command, NoCommand
  <2> QED
    BY <1>2, <1>6, <2>1 DEF Dismiss, EditToArchived, ArchiveRule
<1>7. ASSUME NEW o \in Rules, DismissInPrompt(o) PROVE Good
  BY <1>2, <1>7 DEF DismissInPrompt, ArchiveRule
<1>8. ASSUME NEW o \in Rules, Insertion(o) PROVE Good
  BY <1>3, <1>8 DEF Insertion, Add, ImportArchived, Unborn, Statuses, LiveStatuses
<1>9. ASSUME NEW p \in Pipelines, NEW st \in {"candidate", "active"}, InsertRule(p, st)
      PROVE  Good
  <2>1. plan[p].new \in Rules /\ status[plan[p].new] = "unborn"
    BY <1>9, BusyPlan DEF InsertRule, PlannedIsUnborn, Reserved
  <2> QED
    BY <1>3, <1>9, <2>1 DEF InsertRule, Statuses, LiveStatuses
<1>10. ASSUME NEW p \in Pipelines, ApplyMergeSideEffects(p) PROVE Good
  <2>1. plan[p].target \in Rules /\ plan[p].status \in LiveStatuses
    BY <1>10, BusyPlan DEF ApplyMergeSideEffects, TargetIsRule
  <2>2. CASE Displace(plan[p].new, plan[p].target, plan[p].op)
              /\ Unchanged(plan[p].target, plan[p].status, plan[p].version)
    <3>1. PICK to \in Statuses : WriteStatus(plan[p].target, to)
      BY <2>2 DEF Displace, Statuses, LiveStatuses
    <3>2. r # plan[p].target => replacement'[r] = replacement[r]
      BY <2>2 DEF Displace
    <3> QED
      BY <1>1, <1>10, <2>1, <2>2, <3>1, <3>2 DEF ApplyMergeSideEffects, Unchanged, Statuses
  <2>3. CASE UNCHANGED <<status, version, replacement, stamped>>
    BY <1>10, <2>3 DEF ApplyMergeSideEffects
  <2> QED
    BY <1>10, <2>2, <2>3 DEF ApplyMergeSideEffects
<1>11. ASSUME NEW o \in Rules, MergeFields(o) PROVE Good
  BY <1>11 DEF MergeFields
<1>12. ASSUME NEW o \in Rules, CleanupCandidate(o) PROVE Good
  BY <1>12 DEF CleanupCandidate, Statuses, LiveStatuses
<1>13. ASSUME NEW s \in Sweepers, RestoreOrphan(s) PROVE Good
  BY <1>13 DEF RestoreOrphan, Restore, Statuses, LiveStatuses
<1>14. CASE UNCHANGED rowVars
  BY <1>14 DEF rowVars
<1> QED
  BY <1>4, <1>5, <1>6, <1>7, <1>8, <1>9, <1>10, <1>11, <1>12, <1>13, <1>14
     DEF Next, Pipeline, Evaluate, UserCommand, Maintain, ReadRule, Decide, DecideNothing,
         CreateSystemArchiveFingerprint, EvaluatorDies, CheckNotArchived, PlanMerge,
         CheckFingerprint, CreateReplacementFingerprint, PipelineDies, Fire, LabelHarmful,
         FindOrphan, rowVars, vars

SameRead(t, u) ==
  /\ t.rule = u.rule /\ t.version = u.version
  /\ t.scope = u.scope /\ t.replaced = u.replaced /\ t.stamped = u.stamped

\* What an evaluation in flight has read is what it had read, or the row of now.
LEMMA ReadStep ==
  ASSUME TypeOK, [Next]_vars, NEW e \in Evaluators, task'[e].pc \in {"read", "decided"}
  PROVE  \/ /\ task[e].pc \in {"read", "decided"}
            /\ SameRead(task'[e], task[e])
         \/ \E r \in Rules : ReadRule(e, r)
<1>1. CASE task'[e] = task[e]
  BY <1>1 DEF SameRead
<1>2. CASE Decide(e)
  <2>1. PICK d \in Outcomes : task' = [task EXCEPT ![e].pc = "decided", ![e].decision = d]
    BY <1>2 DEF Decide
  <2>2. task[e] \in [pc : {"read", "decided", "fingerprint"}, rule : Rules,
                     status : LiveStatuses, version : Nat, scope : Scopes,
                     replaced : BOOLEAN, stamped : BOOLEAN, decision : Outcomes]
    BY <1>2, BusyTask DEF Decide, TypeOK
  <2>3. task'[e] = [task[e] EXCEPT !.pc = "decided", !.decision = d]
    BY <2>1 DEF TypeOK
  <2> QED
    BY <1>2, <2>2, <2>3 DEF Decide, SameRead
<1>3. ASSUME NEW d \in Evaluators, Evaluate(d)
      PROVE  task'[e] = task[e] \/ Decide(e) \/ \E r \in Rules : ReadRule(e, r)
  <2>1. CASE \E r \in Rules : ReadRule(d, r)
    BY <2>1 DEF ReadRule, TypeOK
  <2>2. CASE Decide(d)
    <3>1. PICK o \in Outcomes : task' = [task EXCEPT ![d].pc = "decided", ![d].decision = o]
      BY <2>2 DEF Decide
    <3>2. d # e => task'[e] = task[e]
      BY <3>1 DEF TypeOK
    <3> QED
      BY <2>2, <3>2
  <2>3. CASE DecideNothing(d) \/ ApplyCrossProjectPromotion(d)
               \/ CreateSystemArchiveFingerprint(d) \/ EvaluatorDies(d)
    BY <2>3 DEF DecideNothing, ApplyCrossProjectPromotion, CreateSystemArchiveFingerprint,
                EvaluatorDies, Idle, TypeOK
  <2>4. CASE ApplyTransition(d)
    <3>1. task[d] \in [pc : {"read", "decided", "fingerprint"}, rule : Rules,
                       status : LiveStatuses, version : Nat, scope : Scopes,
                       replaced : BOOLEAN, stamped : BOOLEAN, decision : Outcomes]
      BY <2>4, BusyTask DEF ApplyTransition, TypeOK
    <3>2. task' = [task EXCEPT ![d] = [task[d] EXCEPT !.pc = "fingerprint"]]
            \/ task' = [task EXCEPT ![d] = Idle]
      BY <2>4 DEF ApplyTransition
    <3> QED
      BY <3>1, <3>2 DEF Idle, TypeOK
  <2> QED
    BY <1>3, <2>1, <2>2, <2>3, <2>4 DEF Evaluate
<1>4. (\A d \in Evaluators : ~Evaluate(d)) => UNCHANGED task
  BY DEF Next, Pipeline, UserCommand, Insertion, Maintain, CheckNotArchived, Dismiss,
         EditToArchived, DismissInPrompt, Add, ImportArchived, PlanMerge, CheckFingerprint,
         InsertRule, ApplyMergeSideEffects, CreateReplacementFingerprint, PipelineDies,
         MergeFields, Fire, LabelHarmful, CleanupCandidate, FindOrphan, RestoreOrphan,
         actorVars, vars
<1> QED
  BY <1>1, <1>2, <1>3, <1>4

\* Every step keeps what an evaluation has read current, or older by version.
LEMMA SnapshotStep ==
  ASSUME IInv, SnapshotHolds, [Next]_vars
  PROVE  SnapshotHolds'
<1> SUFFICES ASSUME NEW e \in Evaluators, task'[e].pc \in {"read", "decided"}
             PROVE  Holds(task[e])'
  BY DEF SnapshotHolds
<1>1. CASE \E r \in Rules : ReadRule(e, r)
  <2>1. PICK r \in Rules : ReadRule(e, r)
    BY <1>1
  <2>2. /\ task'[e].rule = r /\ task'[e].version = version[r] /\ task'[e].scope = scope[r]
        /\ task'[e].replaced = (replacement[r] # NoRule) /\ task'[e].stamped = stamped[r]
    BY <2>1 DEF ReadRule, IInv, TypeOK
  <2> QED
    BY <2>1, <2>2 DEF ReadRule, Live, LiveStatuses, rowVars, Holds, Row, IInv, TypeOK
<1>2. CASE /\ task[e].pc \in {"read", "decided"}
           /\ SameRead(task'[e], task[e])
  <2> DEFINE t == task[e]
  <2>1. t \in [pc : {"read", "decided", "fingerprint"}, rule : Rules, status : LiveStatuses,
               version : Nat, scope : Scopes, replaced : BOOLEAN, stamped : BOOLEAN,
               decision : Outcomes]
    BY <1>2, BusyTask DEF IInv, TypeOK
  <2>2. /\ task'[e].rule = t.rule /\ task'[e].version = t.version /\ task'[e].scope = t.scope
        /\ task'[e].replaced = t.replaced /\ task'[e].stamped = t.stamped
    BY <1>2 DEF SameRead
  <2>3. Holds(t)
    BY <1>2 DEF SnapshotHolds
  <2>4. PICK r \in Rules : r = t.rule
    BY <2>1
  <2>5. status'[r] # "unborn" /\ (Row(r)' => Row(r) /\ Versioned(r))
    BY <2>3, <2>4, VersionStep DEF Holds
  <2>6. version[r] \in Nat /\ version'[r] \in Nat
    BY TypeStep DEF IInv, TypeOK
  <2> QED
    BY <2>1, <2>2, <2>3, <2>4, <2>5, <2>6 DEF Holds, Versioned, Row
<1> QED
  BY <1>1, <1>2, ReadStep DEF IInv

Decided(e) ==
  LET t == task[e] IN
  (ApplyTransition(e) /\ version' # version) =>
    /\ status[t.rule] = t.status
    /\ (replacement[t.rule] # NoRule) = t.replaced
    /\ scope[t.rule] = t.scope
    /\ stamped[t.rule] = t.stamped

\* The compare of the status and the version is enough: a transition overwrites
\* the very row its decision was computed from, although an archival, the
\* promotion of a scope, a merge, a sweep and other evaluations may have written
\* it meanwhile (lifecycle/transition_apply.py:129).
THEOREM DecidesOnTheRow == Spec => DecidesOnCurrentRow
<1>1. Init => SnapshotHolds
  BY DEF Init, SnapshotHolds, Idle
<1>2. IInv /\ SnapshotHolds /\ [Next]_vars => SnapshotHolds'
  BY SnapshotStep
<1>3. IInv /\ SnapshotHolds /\ [Next]_vars => [\A e \in Evaluators : Decided(e)]_vars
  <2> SUFFICES ASSUME IInv, SnapshotHolds, NEW e \in Evaluators, ApplyTransition(e),
                      version' # version
               PROVE  LET t == task[e] IN
                      /\ status[t.rule] = t.status
                      /\ (replacement[t.rule] # NoRule) = t.replaced
                      /\ scope[t.rule] = t.scope
                      /\ stamped[t.rule] = t.stamped
    BY DEF Decided
  <2>1. task[e].status \in LiveStatuses /\ task[e].pc = "decided"
    BY BusyTask DEF ApplyTransition, IInv, TypeOK
  <2>2. Unchanged(task[e].rule, task[e].status, task[e].version)
    BY DEF ApplyTransition
  <2> QED
    BY <2>1, <2>2 DEF Unchanged, SnapshotHolds, Holds, Row, Statuses
<1> QED
  BY <1>1, <1>2, <1>3, Invariance, PTL DEF Spec, DecidesOnCurrentRow, Decided
=============================================================================
