--------------------------- MODULE Applicability ---------------------------
(***************************************************************************)
(* How far a matched rule may go: from the evidence that the prompt        *)
(* triggers it, its status, its severity and its history, one of the       *)
(* levels cold, warm, hot and gate.  Coverage and the false positive score *)
(* are percentages, sums of IDF are hundredths.                            *)
(***************************************************************************)
EXTENDS Integers

CONSTANTS
  SMALL_POOL_THRESHOLD,
  DYNAMIC_IDF_SMALL_POOL, \* [info, coverage, distinct]
  DYNAMIC_IDF_NORMAL,
  NEWLY_ACTIVE_COVERAGE_MIN,
  NOISE                   \* the score over which a trusted rule is no longer hot

IdfPolicies == [info : Nat, coverage : Nat, distinct : Nat]

ASSUME ThresholdsAreNumbers ==
  /\ SMALL_POOL_THRESHOLD \in Nat
  /\ DYNAMIC_IDF_SMALL_POOL \in IdfPolicies /\ DYNAMIC_IDF_NORMAL \in IdfPolicies
  /\ NEWLY_ACTIVE_COVERAGE_MIN \in Nat /\ NOISE \in Nat

Levels == {"cold", "warm", "hot", "gate"}
Rank(level) ==
  IF level = "cold" THEN 0 ELSE IF level = "warm" THEN 1 ELSE IF level = "hot" THEN 2 ELSE 3

Severities == {"reminder", "high_risk", "gate_eligible"}

\* What the policy looks at of a rule, and of its match with a prompt.  pool is
\* the number of rules behind the IDF, dynamic the threshold derived from them.
Standings ==
  [status : {"candidate", "active", "trusted", "suppressed", "archived"},
   severity : Severities, useful : BOOLEAN, fp : Nat]
Matches ==
  [strong : BOOLEAN, concepts : BOOLEAN, idf : Nat, coverage : Nat, distinct : Nat,
   pool : Nat, dynamic : Nat, excluded : BOOLEAN, override : BOOLEAN, nearMiss : BOOLEAN,
   actionOnly : BOOLEAN, searchOnly : BOOLEAN, embeddingOnly : BOOLEAN,
   hasTool : BOOLEAN, tool : BOOLEAN]

-----------------------------------------------------------------------------
(* Trigger evidence                                                        *)

IdfPolicy(m) == IF m.pool < SMALL_POOL_THRESHOLD THEN DYNAMIC_IDF_SMALL_POOL ELSE DYNAMIC_IDF_NORMAL

\* The dynamic threshold never goes below the static floor.
TriggerInfoMin(m) == IF m.dynamic > IdfPolicy(m).info THEN m.dynamic ELSE IdfPolicy(m).info

\* The sum of IDF reaches the threshold taken half as many times as halves says.
Informative(m, halves) == 2 * m.idf >= halves * TriggerInfoMin(m)
Covered(m) == m.coverage >= IdfPolicy(m).coverage
Distinct(m) == m.distinct >= IdfPolicy(m).distinct

PathA(m) == m.strong /\ m.concepts
Measured(m) == m.pool > 0 /\ m.concepts /\ Distinct(m)

\* Path C does without the coverage at one and a half times the threshold.
TriggerEvidencePasses(m) ==
  PathA(m) \/ (Measured(m) /\ ((Informative(m, 2) /\ Covered(m)) \/ Informative(m, 3)))

StrongTriggerEvidence(m) == PathA(m) \/ (Measured(m) /\ Informative(m, 2) /\ Covered(m))

HighRiskStrongEvidence(m) == PathA(m) \/ (Measured(m) /\ Informative(m, 3) /\ Covered(m))

\* Before rules had concepts: the fields of the rule in which words were found.
MeetsMinEvidence(h) ==
  \/ h.strong
  \/ h.trigger >= 2
  \/ h.trigger >= 1 /\ h.variant >= 1
  \/ ~h.actionOnly /\ ~h.searchOnly /\ h.trigger >= 1 /\ (h.action >= 1 \/ h.search >= 1)

-----------------------------------------------------------------------------
(* Permissions                                                             *)

Disqualified(m) ==
  \/ m.actionOnly \/ m.searchOnly \/ m.embeddingOnly
  \/ (m.excluded \/ m.nearMiss) /\ ~m.override
  \/ ~m.concepts

\* Until it has been useful once an active rule is only observed.
ActiveLevel(r, m) ==
  IF ~r.useful THEN IF m.coverage < NEWLY_ACTIVE_COVERAGE_MIN THEN "cold" ELSE "warm"
  ELSE IF /\ ~m.excluded /\ r.fp = 0
          /\ IF r.severity = "high_risk" THEN HighRiskStrongEvidence(m) ELSE StrongTriggerEvidence(m)
       THEN "hot" ELSE "warm"

\* The override of an excluded context never opens the gate.
MayGate(r, m) ==
  /\ r.severity = "gate_eligible" /\ ~m.excluded
  /\ StrongTriggerEvidence(m)
  /\ m.hasTool => m.tool

TrustedLevel(r, m) == IF MayGate(r, m) THEN "gate" ELSE IF r.fp > NOISE THEN "warm" ELSE "hot"

\* Mutant: a noisy trusted rule is silenced instead of shown less.
EvaluateApplicabilitySilencingNoise(r, m) ==
  IF Disqualified(m) \/ ~TriggerEvidencePasses(m) THEN "cold"
  ELSE IF r.status = "active" THEN ActiveLevel(r, m)
  ELSE IF r.status = "trusted" THEN IF r.fp > NOISE THEN "cold" ELSE TrustedLevel(r, m)
  ELSE "cold"

\* Candidates and suppressed rules are matched for shadow events only.
EvaluateApplicability(r, m) ==
  IF Disqualified(m) \/ ~TriggerEvidencePasses(m) THEN "cold"
  ELSE IF r.status = "active" THEN ActiveLevel(r, m)
  ELSE IF r.status = "trusted" THEN TrustedLevel(r, m)
  ELSE "cold"

EvidencePassed(m) == ~Disqualified(m) /\ TriggerEvidencePasses(m)

-----------------------------------------------------------------------------
(* Properties                                                              *)

\* m has at least the evidence of n, and nothing more against it; the pool is
\* the same, because a larger pool has other thresholds.
Dominates(m, n) ==
  /\ m.pool = n.pool /\ m.dynamic = n.dynamic /\ m.hasTool = n.hasTool
  /\ n.strong => m.strong
  /\ n.concepts => m.concepts
  /\ m.idf >= n.idf /\ m.coverage >= n.coverage /\ m.distinct >= n.distinct
  /\ m.excluded => n.excluded
  /\ m.nearMiss => n.nearMiss
  /\ n.override => m.override
  /\ m.actionOnly => n.actionOnly
  /\ m.searchOnly => n.searchOnly
  /\ m.embeddingOnly => n.embeddingOnly
  /\ n.tool => m.tool

Better(r, m, s, n) == Rank(EvaluateApplicability(r, m)) >= Rank(EvaluateApplicability(s, n))

\* More evidence never lowers a rule, nor does trust, less noise or a history of
\* use; high risk never raises it.
Monotone(r, m, n) ==
  /\ Dominates(m, n) => Better(r, m, r, n)
  /\ r.status = "active" => Better([r EXCEPT !.status = "trusted"], m, r, m)
  /\ Better([r EXCEPT !.fp = 0], m, r, m)
  /\ Better([r EXCEPT !.useful = TRUE], m, r, m)
  /\ Better(r, m, [r EXCEPT !.severity = "high_risk"], m)
=============================================================================
