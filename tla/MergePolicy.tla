---------------------------- MODULE MergePolicy ----------------------------
(***************************************************************************)
(* The deterministic merge policy: the merge planner, a language model,    *)
(* proposes what to do about a new rule and an existing one; this policy   *)
(* disposes.  Scores are percentages.                                      *)
(***************************************************************************)
EXTENDS Integers, Sequences, FiniteSets, FiniteSetsExt, SequencesExt

Operations == {"merge_into_existing", "update_existing_fields", "replace_existing", "keep_both",
               "reject_new", "suppress_existing", "archive_existing", "split_required"}
Destructive == {"replace_existing", "suppress_existing", "archive_existing"}
Relations == {"equivalent", "new_broader", "new_narrower", "overlap", "complementary",
              "contradiction", "obsolete", "unrelated", "split_required"}
Safeties == {"safe", "unsafe", "uncertain"}
Winners == {"new", "existing", "both", "neither"}

NoRule == [status |-> "none"]

\* planner: [relation, newSafety, opSafety, winner, confidence].
\* existing: NoRule or [status, fingerprints, observed, falsePositive, harmful,
\*   quality, evidence, origin, byUser, stale, action, counts].
\* new: [conflict, improves, userOpposite, evidence, action, counts]; counts are
\*   the numbers of variants, concepts, excluded contexts and near misses.

LowConfidence == 65
DestructiveRelations == {"equivalent", "obsolete", "new_broader", "new_narrower", "contradiction"}

NewEvidenceImproves(e, n) ==
  /\ \A i \in DOMAIN n.counts : n.counts[i] >= e.counts[i]
  /\ \E i \in DOMAIN n.counts : n.counts[i] > e.counts[i]

ActionUnchanged(e, n) == n.action \in {"none", e.action}

WeakHistory(e) == e.observed < 30 \/ e.falsePositive >= 40

SystemHarmfulOrObsolete(e) ==
  /\ e.origin \in {"transcript_extraction", "external_source_material"}
  /\ ~e.byUser
  /\ e.harmful >= 50 \/ e.quality < 30

UsefulnessWeakOrStale(e) == e.stale \/ e.observed < 40

TrustedReplacement(p, e, n) ==
  /\ p.relation \in {"equivalent", "obsolete"} /\ p.winner = "new"
  /\ n.evidence >= e.evidence
  /\ n.improves
  /\ UsefulnessWeakOrStale(e)

\* Rejections and fallbacks that come before any operation on the other rule.
RejectsNew(p, e, n) ==
  \/ n.conflict \/ (e # NoRule /\ e.fingerprints)
  \/ p.newSafety = "unsafe"

KeepsBothFirst(p) ==
  \/ p.relation \in {"complementary", "unrelated"}
  \/ p.relation = "overlap" /\ p.winner = "neither"

\* Mutant: relations are not looked at.
TooUncertainAtAll(p) == FALSE
TooUncertain(p) == p.confidence < LowConfidence /\ p.relation \in DestructiveRelations

Updates(p, e, n) ==
  /\ p.relation \in {"equivalent", "new_narrower"} /\ p.opSafety = "safe"
  /\ e.status \in {"active", "trusted"}
  /\ ActionUnchanged(e, n) /\ NewEvidenceImproves(e, n)

Merges(p) ==
  p.relation = "equivalent" /\ p.opSafety = "safe" /\ p.winner \in {"both", "existing"}

\* Mutant: a trusted rule is replaced like any other.
ReplacesTrustedToo(p, e, n) ==
  /\ p.opSafety = "safe" /\ p.winner = "new"
  /\ p.relation \in {"equivalent", "obsolete", "new_broader"}
Replaces(p, e, n) ==
  /\ p.opSafety = "safe" /\ p.winner = "new"
  /\ \/ /\ e.status \in {"candidate", "active"}
        /\ p.relation \in {"equivalent", "obsolete", "new_broader"}
     \/ e.status = "trusted" /\ TrustedReplacement(p, e, n)

Suppresses(p, e) ==
  p.opSafety = "safe" /\ p.relation = "contradiction" /\ p.winner = "new" /\ WeakHistory(e)

Archives(p, e, n) == p.opSafety = "safe" /\ SystemHarmfulOrObsolete(e) /\ ~n.userOpposite

\* The first clause that applies decides.
ApplyMergePolicy(p, e, n) ==
  IF RejectsNew(p, e, n) THEN "reject_new"
  ELSE IF KeepsBothFirst(p) THEN "keep_both"
  ELSE IF TooUncertain(p) THEN "reject_new"
  ELSE IF p.opSafety = "unsafe" \/ e = NoRule THEN "keep_both"
  ELSE IF Updates(p, e, n) THEN "update_existing_fields"
  ELSE IF Merges(p) THEN "merge_into_existing"
  ELSE IF Replaces(p, e, n) THEN "replace_existing"
  ELSE IF Suppresses(p, e) THEN "suppress_existing"
  ELSE IF Archives(p, e, n) THEN "archive_existing"
  ELSE IF p.relation = "split_required" THEN "split_required"
  ELSE "keep_both"

\* Mutant: the fast lane is not asked for.
ValidUnlessAdmitted(op, synthetic, fingerprintClear, compiled, admitted) ==
  op \in Destructive => synthetic /\ fingerprintClear /\ compiled
\* The last look before a destructive operation touches the other rule.
ValidTransaction(op, synthetic, fingerprintClear, compiled, admitted) ==
  op \in Destructive => synthetic /\ fingerprintClear /\ compiled /\ admitted
=============================================================================
