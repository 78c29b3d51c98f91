---------------------------- MODULE RuleLifecycle ----------------------------
(***************************************************************************)
(* The rules table of nokori under everything that writes it at once:      *)
(* lifecycle evaluators (a maintenance pass, the end of a posthoc or       *)
(* shadow worker), user commands (CLI, web, inline dismiss in a prompt),   *)
(* cold pipelines that insert rules and then replace, suppress or archive  *)
(* older ones, the candidate cleanup and the replacement recovery sweep.   *)
(*                                                                         *)
(* Each SQL transaction is one step.  What the code reads outside of the   *)
(* transaction that uses it is kept between steps in the variable of the   *)
(* actor: task (an evaluation in flight), command (a command that has       *)
(* checked the status), plan (a cold pipeline), sweep (a recovery sweep    *)
(* that has judged a rule an orphan).  A process may die between steps.    *)
(*                                                                         *)
(* runtime_policy_version, the fourth CAS field, is the same constant in   *)
(* every row an installed version writes, and is left out.                 *)
(***************************************************************************)
EXTENDS Naturals, FiniteSets, LifecycleDecisions

CONSTANTS
  Rules,        \* identities of rules; a deleted one is never used again
  NoRule,
  Evaluators,   \* evaluations in flight (one rule each)
  Users,        \* user commands in flight
  Pipelines,    \* cold pipelines, each with one proposed rule
  Sweepers,     \* concurrent runs of restore_orphaned_archived
  Contents,     \* signatures: normalised trigger + action + tags
  ContentOf,    \* the signature of each rule
  ScopeOf,      \* the scope a rule is inserted with: whether it names a project
  MaxVersion    \* bound: no promotion past candidate, no merge of fields into a row this old

ASSUME LifecycleAssumption ==
  /\ NoRule \notin Rules
  /\ ContentOf \in [Rules -> Contents]
  /\ ScopeOf \in [Rules -> {"project", "global"}]
  /\ MaxVersion \in Nat

VARIABLES
  status,       \* column status, or "unborn" / "deleted" when there is no row
  version,      \* column rule_version
  scope,        \* column project_scope
  replacement,  \* column replacement_id
  stamped,      \* suppressed_at is not NULL
  fired,        \* rules with a fire event
  harmed,       \* rules with a fire event labelled harmful
  veto,         \* archived_fingerprints, by signature
  task, command, plan, sweep

rowVars == <<status, version, scope, replacement, stamped>>
evidenceVars == <<fired, harmed>>
actorVars == <<task, command, plan, sweep>>
vars == <<status, version, scope, replacement, stamped, fired, harmed, veto,
          task, command, plan, sweep>>

-----------------------------------------------------------------------------
(* Types                                                                   *)

Scopes == {"project", "global"}
Strengths == {"user", "system", "replacement"}
MergeOps == {"keep_both", "replace_existing", "suppress_existing", "archive_existing"}

NoVeto == [strength |-> "none", owner |-> NoRule]
Veto == [strength : Strengths, owner : Rules] \cup {NoVeto}

Idle == [pc |-> "idle", rule |-> NoRule, status |-> "candidate", version |-> 0,
         scope |-> "global", replaced |-> FALSE, stamped |-> FALSE, decision |-> "none"]
Task == [pc : {"read", "decided", "fingerprint"}, rule : Rules, status : LiveStatuses,
         version : Nat, scope : Scopes, replaced : BOOLEAN, stamped : BOOLEAN,
         decision : Outcomes] \cup {Idle}

NoCommand == [op |-> "none", rule |-> NoRule]
Command == [op : {"dismiss", "edit"}, rule : Rules] \cup {NoCommand}

NoPlan == [pc |-> "none", new |-> NoRule, op |-> "keep_both", target |-> NoRule,
           status |-> "candidate", version |-> 0]
Plan == [pc : {"planned", "cleared", "inserted", "fingerprint"}, new : Rules, op : MergeOps,
         target : Rules \cup {NoRule}, status : LiveStatuses, version : Nat] \cup {NoPlan}

TypeOK ==
  /\ status \in [Rules -> Statuses \cup {"unborn", "deleted"}]
  /\ version \in [Rules -> Nat]
  /\ scope \in [Rules -> Scopes]
  /\ replacement \in [Rules -> Rules \cup {NoRule}]
  /\ stamped \in [Rules -> BOOLEAN]
  /\ fired \in SUBSET Rules
  /\ harmed \in SUBSET Rules
  /\ veto \in [Contents -> Veto]
  /\ task \in [Evaluators -> Task]
  /\ command \in [Users -> Command]
  /\ plan \in [Pipelines -> Plan]
  /\ sweep \in [Sweepers -> Rules \cup {NoRule}]

Row(r) == status[r] \in Statuses
Live(r) == status[r] \in LiveStatuses

Init ==
  /\ status = [r \in Rules |-> "unborn"]
  /\ version = [r \in Rules |-> 0]
  /\ scope = ScopeOf
  /\ replacement = [r \in Rules |-> NoRule]
  /\ stamped = [r \in Rules |-> FALSE]
  /\ fired = {}
  /\ harmed = {}
  /\ veto = [c \in Contents |-> NoVeto]
  /\ task = [e \in Evaluators |-> Idle]
  /\ command = [u \in Users |-> NoCommand]
  /\ plan = [p \in Pipelines |-> NoPlan]
  /\ sweep = [s \in Sweepers |-> NoRule]

-----------------------------------------------------------------------------
(* Archived fingerprints                                                   *)

Rank(strength) ==
  CASE strength = "user" -> 0
    [] strength = "system" -> 1
    [] strength = "replacement" -> 2

\* Mutant: the upsert always takes the strength and the rule of the last archival.
UpsertedByTheLast(old, r, strength) == [strength |-> strength, owner |-> r]

\* The upsert: the first archival owns the entry, a stronger one only raises
\* its strength.
Upserted(old, r, strength) ==
  IF old = NoVeto THEN [strength |-> strength, owner |-> r]
  ELSE IF Rank(strength) > Rank(old.strength) THEN [old EXCEPT !.strength = strength]
  ELSE old

\* The row is read before the transaction that writes the entry: a rule that
\* is deleted in between may leave an entry behind.
Remember(r, strength) ==
  LET entry == [veto EXCEPT ![ContentOf[r]] = Upserted(@, r, strength)] IN
  IF Row(r) THEN veto' = entry ELSE veto' \in {veto, entry}

-----------------------------------------------------------------------------
(* Lifecycle evaluation                                                    *)

ReadRule(e, r) ==
  /\ task[e] = Idle
  /\ Live(r)
  /\ task' = [task EXCEPT ![e] =
       [pc |-> "read", rule |-> r, status |-> status[r], version |-> version[r],
        scope |-> scope[r], replaced |-> replacement[r] # NoRule,
        stamped |-> stamped[r], decision |-> "none"]]
  /\ UNCHANGED <<rowVars, evidenceVars, veto, command, plan, sweep>>

\* Bound of the exploration, not of the code.
MayGrow(v) == v < MaxVersion

Decide(e) ==
  LET t == task[e] IN
  /\ t.pc = "read"
  /\ \E d \in Outcomes :
       /\ MayDecide(t.status, t.rule \in harmed, t.replaced, t.scope, t.stamped, d)
       /\ t.status # "candidate" /\ d \in {"active", "trusted", "global"} => MayGrow(t.version)
       /\ task' = [task EXCEPT ![e].pc = "decided", ![e].decision = d]
  /\ UNCHANGED <<rowVars, evidenceVars, veto, command, plan, sweep>>

\* Mutants: one half of the compare is forgotten.
SameVersion(r, st, v) == Row(r) /\ version[r] = v
SameStatus(r, st, v) == status[r] = st

\* The compare of every compare-and-swap on a rule row.
Unchanged(r, st, v) == status[r] = st /\ version[r] = v

DecideNothing(e) ==
  /\ task[e].pc = "decided" /\ task[e].decision = "none"
  /\ task' = [task EXCEPT ![e] = Idle]
  /\ UNCHANGED <<rowVars, evidenceVars, veto, command, plan, sweep>>

\* Mutant: a writer leaves suppressed_at alone.
WriteStatusUnstamped(r, to) ==
  /\ status' = [status EXCEPT ![r] = to]
  /\ version' = [version EXCEPT ![r] = @ + 1]
  /\ stamped' = stamped

\* The status a transition writes, with the suppression timestamp.
WriteStatus(r, to) ==
  /\ status' = [status EXCEPT ![r] = to]
  /\ version' = [version EXCEPT ![r] = @ + 1]
  /\ stamped' = [stamped EXCEPT ![r] = @ \/ to = "suppressed"]

ApplyTransition(e) ==
  LET t == task[e] IN
  /\ t.pc = "decided" /\ t.decision \in Statuses
  /\ IF Unchanged(t.rule, t.status, t.version)
       THEN /\ WriteStatus(t.rule, t.decision)
            /\ task' = [task EXCEPT ![e] = IF t.decision = "archived"
                                             THEN [t EXCEPT !.pc = "fingerprint"]
                                             ELSE Idle]
       ELSE /\ task' = [task EXCEPT ![e] = Idle]
            /\ UNCHANGED <<status, version, stamped>>
  /\ UNCHANGED <<scope, replacement, evidenceVars, veto, command, plan, sweep>>

\* The promotion of the scope compares the version and the scope only.
ScopeUnchanged(r, v) == Row(r) /\ version[r] = v /\ scope[r] = "project"

ApplyCrossProjectPromotion(e) ==
  LET t == task[e] IN
  /\ t.pc = "decided" /\ t.decision = "global"
  /\ IF ScopeUnchanged(t.rule, t.version)
       THEN /\ scope' = [scope EXCEPT ![t.rule] = "global"]
            /\ version' = [version EXCEPT ![t.rule] = @ + 1]
       ELSE UNCHANGED <<scope, version>>
  /\ task' = [task EXCEPT ![e] = Idle]
  /\ UNCHANGED <<status, replacement, stamped, evidenceVars, veto, command, plan,
                 sweep>>

\* A transaction of its own, after the one that archived the rule.
CreateSystemArchiveFingerprint(e) ==
  /\ task[e].pc = "fingerprint"
  /\ Remember(task[e].rule, "system")
  /\ task' = [task EXCEPT ![e] = Idle]
  /\ UNCHANGED <<rowVars, evidenceVars, command, plan, sweep>>

EvaluatorDies(e) ==
  /\ task[e] # Idle
  /\ task' = [task EXCEPT ![e] = Idle]
  /\ UNCHANGED <<rowVars, evidenceVars, veto, command, plan, sweep>>

-----------------------------------------------------------------------------
(* User commands                                                           *)

\* nokori dismiss, the web endpoints and nokori edit --status archived look at
\* the status first, in a read of its own.
CheckNotArchived(u, r, op) ==
  /\ command[u] = NoCommand
  /\ Live(r)
  /\ command' = [command EXCEPT ![u] = [op |-> op, rule |-> r]]
  /\ UNCHANGED <<rowVars, evidenceVars, veto, task, plan, sweep>>

\* archive_rule: whatever the row has become, and without a new version.
ArchiveRow(r) ==
  status' = IF Row(r) THEN [status EXCEPT ![r] = "archived"] ELSE status

ArchiveRule(r) == ArchiveRow(r) /\ Remember(r, "user")

Dismiss(u) ==
  /\ command[u].op = "dismiss"
  /\ ArchiveRule(command[u].rule)
  /\ command' = [command EXCEPT ![u] = NoCommand]
  /\ UNCHANGED <<version, scope, replacement, stamped, evidenceVars, task, plan,
                 sweep>>

\* The update of nokori edit archives the row but remembers nothing.
EditToArchived(u) ==
  /\ command[u].op = "edit"
  /\ ArchiveRow(command[u].rule)
  /\ command' = [command EXCEPT ![u] = NoCommand]
  /\ UNCHANGED <<version, scope, replacement, stamped, evidenceVars, veto, task,
                 plan, sweep>>

\* "dismiss <short_id>" in a prompt: any row with a recent fire event.
DismissInPrompt(r) ==
  /\ Row(r) /\ r \in fired
  /\ ArchiveRule(r)
  /\ UNCHANGED <<version, scope, replacement, stamped, evidenceVars, actorVars>>

\* The row of a new rule.
NewRow(r, st) ==
  /\ status' = [status EXCEPT ![r] = st]
  /\ version' = [version EXCEPT ![r] = 1]

Unborn(r) == status[r] = "unborn" /\ \A p \in Pipelines : plan[p].new # r

Add(r) ==
  /\ Unborn(r)
  /\ NewRow(r, "candidate")
  /\ UNCHANGED <<scope, replacement, stamped, evidenceVars, veto, actorVars>>

\* A record that was not archived re-enters as a candidate, which is Add; an
\* archived one keeps its status and its replacement_id.  created_at is the
\* one of the file.
ImportArchived(r, target) ==
  /\ Unborn(r)
  /\ NewRow(r, "archived")
  /\ replacement' = [replacement EXCEPT ![r] = target]
  /\ UNCHANGED <<scope, stamped, evidenceVars, veto, actorVars>>

-----------------------------------------------------------------------------
(* Cold pipelines                                                          *)

\* A trusted rule would need a new rule marked synthetic_strictly_improves,
\* and no stage of the pipeline marks one.
Replaceable == {"candidate", "active"}

\* The merge planner: the operation and the row of the rule it is aimed at.
PlanMerge(p, n, op, o) ==
  /\ plan[p] = NoPlan /\ Unborn(n)
  /\ IF op = "keep_both" THEN o = NoRule ELSE o \in Rules /\ Live(o)
  /\ op = "replace_existing" => status[o] \in Replaceable
  /\ plan' = [plan EXCEPT ![p] =
       [pc |-> "planned", new |-> n, op |-> op, target |-> o,
        status |-> IF o = NoRule THEN "candidate" ELSE status[o],
        version |-> IF o = NoRule THEN 0 ELSE version[o]]]
  /\ UNCHANGED <<rowVars, evidenceVars, veto, task, command, sweep>>

\* No stage hands check_fingerprint_block what would override a veto on the
\* same signature, so any entry rejects the rule.
CheckFingerprint(p) ==
  /\ plan[p].pc = "planned"
  /\ plan' = [plan EXCEPT ![p] = IF veto[ContentOf[@.new]] = NoVeto
                                   THEN [@ EXCEPT !.pc = "cleared"] ELSE NoPlan]
  /\ UNCHANGED <<rowVars, evidenceVars, veto, task, command, sweep>>

\* A destructive operation is only valid on the fast lane, which makes the
\* new rule active.
InsertRule(p, st) ==
  LET destructive == plan[p].op # "keep_both" IN
  /\ plan[p].pc = "cleared"
  /\ destructive => st = "active"
  /\ NewRow(plan[p].new, st)
  /\ plan' = [plan EXCEPT ![p] = IF destructive THEN [@ EXCEPT !.pc = "inserted"] ELSE NoPlan]
  /\ UNCHANGED <<scope, replacement, stamped, evidenceVars, veto, task, command, sweep>>

\* Status, version and timestamp of the old rule, and the pointer to the new
\* one when it is a replacement.
Displace(n, o, op) ==
  /\ WriteStatus(o, IF op = "suppress_existing" THEN "suppressed" ELSE "archived")
  /\ replacement' = IF op = "replace_existing" THEN [replacement EXCEPT ![o] = n]
                                               ELSE replacement

ApplyMergeSideEffects(p) ==
  LET q == plan[p] IN
  /\ q.pc = "inserted"
  /\ IF Unchanged(q.target, q.status, q.version)
       THEN /\ Displace(q.new, q.target, q.op)
            /\ plan' = [plan EXCEPT ![p] = IF q.op = "replace_existing"
                                             THEN [q EXCEPT !.pc = "fingerprint"] ELSE NoPlan]
       ELSE /\ plan' = [plan EXCEPT ![p] = NoPlan]
            /\ UNCHANGED <<status, version, replacement, stamped>>
  /\ UNCHANGED <<scope, evidenceVars, veto, task, command, sweep>>

CreateReplacementFingerprint(p) ==
  /\ plan[p].pc = "fingerprint"
  /\ Remember(plan[p].target, "replacement")
  /\ plan' = [plan EXCEPT ![p] = NoPlan]
  /\ UNCHANGED <<rowVars, evidenceVars, task, command, sweep>>

PipelineDies(p) ==
  /\ plan[p] # NoPlan
  /\ plan' = [plan EXCEPT ![p] = NoPlan]
  /\ UNCHANGED <<rowVars, evidenceVars, veto, task, command, sweep>>

\* A non-destructive merge or its revert: new trigger fields on whatever row
\* the target has become, under a new version.
MergeFields(r) ==
  /\ Row(r) /\ MayGrow(version[r])
  /\ version' = [version EXCEPT ![r] = @ + 1]
  /\ UNCHANGED <<status, scope, replacement, stamped, evidenceVars, veto, actorVars>>

-----------------------------------------------------------------------------
(* Maintenance                                                             *)

\* Mutant: ON DELETE SET NULL, the entry stays and loses its rule.
WithOwnerUnset(r) ==
  [c \in Contents |-> IF veto[c].owner = r THEN [veto[c] EXCEPT !.owner = NoRule] ELSE veto[c]]

\* The fingerprints a deleted rule was the first to create go with it.
WithoutOwner(r) == [c \in Contents |-> IF veto[c].owner = r THEN NoVeto ELSE veto[c]]

\* Days pass between maintenance runs: any candidate may have outlived its TTL,
\* the more so as a restored or imported one keeps its old created_at.
CleanupCandidate(r) ==
  /\ status[r] = "candidate"
  /\ status' = [status EXCEPT ![r] = "deleted"]
  /\ version' = [version EXCEPT ![r] = 0]
  /\ scope' = [scope EXCEPT ![r] = ScopeOf[r]]
  /\ stamped' = [stamped EXCEPT ![r] = FALSE]
  /\ fired' = fired \ {r}
  /\ harmed' = harmed \ {r}
  /\ veto' = WithoutOwner(r)
  /\ UNCHANGED <<replacement, actorVars>>

\* run_unmerge_check also counts a target that is there but inactive;
\* run_candidate_cleanup only one that is gone.
Orphan(r) ==
  /\ status[r] = "archived" /\ replacement[r] # NoRule
  /\ status[replacement[r]] \notin {"candidate", "active", "trusted"}

FindOrphan(s, r) ==
  /\ sweep[s] = NoRule
  /\ Orphan(r)
  /\ sweep' = [sweep EXCEPT ![s] = r]
  /\ UNCHANGED <<rowVars, evidenceVars, veto, task, command, plan>>

\* Mutant: the restored rule keeps the pointer to its replacement.
RestoreKeepingReplacement(r) ==
  /\ status' = [status EXCEPT ![r] = "candidate"]
  /\ version' = [version EXCEPT ![r] = @ + 1]
  /\ replacement' = replacement

\* The row a restored rule gets.
Restore(r) ==
  /\ status' = [status EXCEPT ![r] = "candidate"]
  /\ version' = [version EXCEPT ![r] = @ + 1]
  /\ replacement' = [replacement EXCEPT ![r] = NoRule]

\* The update only looks at the status again.
RestoreOrphan(s) ==
  /\ sweep[s] # NoRule
  /\ IF status[sweep[s]] = "archived" THEN Restore(sweep[s])
                                      ELSE UNCHANGED <<status, version, replacement>>
  /\ sweep' = [sweep EXCEPT ![s] = NoRule]
  /\ UNCHANGED <<scope, stamped, evidenceVars, veto, task, command, plan>>

-----------------------------------------------------------------------------
(* Evidence                                                                *)

\* The pool whose rules are injected.
Formal == {"active", "trusted"}

Fire(r) ==
  /\ status[r] \in Formal
  /\ fired' = fired \cup {r}
  /\ UNCHANGED <<rowVars, harmed, veto, actorVars>>

LabelHarmful(r) ==
  /\ r \in fired
  /\ harmed' = harmed \cup {r}
  /\ UNCHANGED <<rowVars, fired, veto, actorVars>>

-----------------------------------------------------------------------------
Evaluate(e) ==
  \/ \E r \in Rules : ReadRule(e, r)
  \/ Decide(e)
  \/ DecideNothing(e)
  \/ ApplyTransition(e)
  \/ ApplyCrossProjectPromotion(e)
  \/ CreateSystemArchiveFingerprint(e)
  \/ EvaluatorDies(e)

UserCommand(u) ==
  \/ \E r \in Rules, op \in {"dismiss", "edit"} : CheckNotArchived(u, r, op)
  \/ Dismiss(u)
  \/ EditToArchived(u)

Insertion(r) ==
  \/ Add(r)
  \/ \E target \in Rules \cup {NoRule} : ImportArchived(r, target)

Pipeline(p) ==
  \/ \E n \in Rules, op \in MergeOps, o \in Rules \cup {NoRule} : PlanMerge(p, n, op, o)
  \/ CheckFingerprint(p)
  \/ \E st \in {"candidate", "active"} : InsertRule(p, st)
  \/ ApplyMergeSideEffects(p)
  \/ CreateReplacementFingerprint(p)
  \/ PipelineDies(p)

Maintain ==
  \/ \E r \in Rules : CleanupCandidate(r)
  \/ \E s \in Sweepers : RestoreOrphan(s) \/ \E r \in Rules : FindOrphan(s, r)

Next ==
  \/ \E e \in Evaluators : Evaluate(e)
  \/ \E u \in Users : UserCommand(u)
  \/ \E p \in Pipelines : Pipeline(p)
  \/ \E r \in Rules :
       \/ Insertion(r) \/ DismissInPrompt(r) \/ MergeFields(r)
       \/ Fire(r) \/ LabelHarmful(r)
  \/ Maintain

Spec == Init /\ [][Next]_vars

\* A maintenance pass evaluates every rule, and a posthoc worker the rules it
\* has labelled, so no live rule is passed over for ever; an evaluator does not
\* die in the same place in every one of infinitely many passes.
FairEvaluation ==
  \A e \in Evaluators :
    /\ \A r \in Rules : SF_vars(ReadRule(e, r))
    /\ SF_vars(Decide(e)) /\ SF_vars(ApplyTransition(e))
    /\ WF_vars(DecideNothing(e) \/ ApplyCrossProjectPromotion(e)
                \/ CreateSystemArchiveFingerprint(e))

FairSpec == Spec /\ FairEvaluation

-----------------------------------------------------------------------------
(* Properties                                                              *)

\* Only an archived rule points to a replacement: replace_existing sets the
\* pointer as it archives, and a recovery clears it as it restores.  So the
\* "covered_by_replacement" branches of the policy are never taken.
ReplacementMeansArchived ==
  \A r \in Rules : replacement[r] # NoRule => status[r] = "archived"

\* A suppressed rule has its suppression timestamp, whoever suppressed it.
\* Without it the evaluation gives up on the rule, which then stays
\* suppressed for ever.
SuppressedIsStamped ==
  \A r \in Rules : status[r] = "suppressed" => stamped[r]

\* The abstract lifecycle of module StatusGraph: stale evaluations, user
\* commands, merges, cleanups and recoveries, interleaved in any way, only
\* make the moves that one of the writers means to make.  In particular no late
\* evaluation brings an archived rule back.  Some of the moves are not those of
\* docs/en/lifecycle.md:9-14: see StatusGraph.
Graph == INSTANCE StatusGraph WITH Rules <- Rules, status <- status
FollowsStatusGraph == Graph!Spec

\* A transition overwrites the very row its decision was computed from: not
\* only the status and the version compared, but everything it was based on.
DecidesOnCurrentRow ==
  [][\A e \in Evaluators :
       LET t == task[e] IN
       (ApplyTransition(e) /\ version' # version) =>
         /\ status[t.rule] = t.status
         /\ (replacement[t.rule] # NoRule) = t.replaced
         /\ scope[t.rule] = t.scope
         /\ stamped[t.rule] = t.stamped]_vars

\* What has been archived is not forgotten, nor remembered less strongly,
\* unless the very rule that created the entry is deleted.
VetoNeverWeakens ==
  [][\A c \in Contents :
       veto[c] # NoVeto =>
         \/ veto'[c].owner = veto[c].owner /\ Rank(veto'[c].strength) >= Rank(veto[c].strength)
         \/ status[veto[c].owner] = "candidate" /\ status'[veto[c].owner] = "deleted"]_vars

\* A rule with a harmful label does not go on being injected: whatever else
\* is written to its row meanwhile, an evaluation suppresses it, or it leaves the
\* formal pool in another way.  (MaxVersion bounds the merges that can defeat the
\* compare-and-swap of an evaluation.)
HarmLeavesThePool ==
  \A r \in Rules :
    (r \in harmed /\ status[r] \in Formal) ~> status[r] \notin Formal
=============================================================================
