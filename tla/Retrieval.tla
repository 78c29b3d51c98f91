----------------------------- MODULE Retrieval -----------------------------
(***************************************************************************)
(* The pipeline of a prompt: words and embeddings find rules, the matcher  *)
(* and the policy decide how far each may go, and the selector chooses     *)
(* what is injected.  Utilities are hundredths.                            *)
(***************************************************************************)
EXTENDS Applicability, Matcher, FiniteSetsExt, SequencesExt, Ranks

CONSTANTS
  TOP_K, WARM_HARD_MAX,
  EMBED_POOL    \* the rules from which on embeddings are used unasked, 20 in the code

-----------------------------------------------------------------------------
(* The evidence of one rule.  rule: a standing with [old, observed,        *)
(* trigger]; old says that the rule is from before rules had concepts.     *)

HasConcepts(rule) == rule.trigger.concepts # {} /\ rule.trigger.groups # {}

HasTriggerData(rule) == HasConcepts(rule) \/ (rule.old /\ rule.trigger.canonical # <<>>)

LegacyConcept(canonical) ==
  [id |-> "legacy_trigger", mode |-> "phrase", required |-> TRUE,
   aliases |-> {[text |-> canonical, strength |-> "strong", neighbors |-> {}]}]

\* The canonical trigger is a variant like the others, strong if it has more
\* than one word; primary is what the first group requires.
WithCanonical(t) ==
  LET multi == Len(t.canonical) >= 2
      own == [text |-> t.canonical, kind |-> IF multi THEN "strong_anchor" ELSE "weak_recall",
              requires |-> IF multi THEN t.primary ELSE {}]
      new == t.canonical # <<>> /\ \A v \in t.variants : v.text # t.canonical
  IN [t EXCEPT !.variants = @ \cup (IF new THEN {own} ELSE {}), !.canonical = <<>>]

TriggerData(rule) ==
  LET t == rule.trigger IN
  IF HasConcepts(rule) THEN WithCanonical(t)
  ELSE WithCanonical([t EXCEPT
         !.concepts = {LegacyConcept(t.canonical)},
         !.groups = {[id |-> "legacy_primary", allOf |-> {"legacy_trigger"}]},
         !.primary = {"legacy_trigger"}])

\* stats: [size, dynamic, idf], where idf maps the words of the triggers of the pool.
IdfSum(tokens, stats) ==
  IF stats.size = 0 THEN 0
  ELSE MapThenSumSet(LAMBDA w : stats.idf[w], tokens \cap DOMAIN stats.idf)

MatchOf(rule, hit, p, stats) ==
  LET found == EvaluateMatch(TriggerData(rule), p)
      tokens == hit.tokens \cup found.anchors
  IN [strong |-> found.strong, concepts |-> found.concepts,
      idf |-> IdfSum(tokens, stats), coverage |-> found.coverage, distinct |-> Cardinality(tokens),
      pool |-> stats.size, dynamic |-> stats.dynamic,
      excluded |-> found.excluded, override |-> found.override, nearMiss |-> FALSE,
      actionOnly |-> found.actionOnly, searchOnly |-> found.searchOnly,
      embeddingOnly |-> hit.embeddingOnly, hasTool |-> FALSE, tool |-> FALSE]

LegacyLevel(rule, hit) ==
  IF ~MeetsMinEvidence(hit) THEN "dropped" ELSE IF rule.status = "trusted" THEN "hot" ELSE "warm"

\* A level, "none" for a rule that is matched for shadow events only, and
\* "dropped" for a rule of which nothing is kept.
EvaluateEvidence(rule, hit, p, stats) ==
  LET m == MatchOf(rule, hit, p, stats)
      level == EvaluateApplicability(rule, m)
  IN IF rule.old /\ rule.trigger.concepts = {} /\ rule.trigger.groups = {} THEN LegacyLevel(rule, hit)
     ELSE IF ~HasTriggerData(rule) THEN "dropped"
     ELSE IF ~Compiles(TriggerData(rule)) THEN IF rule.old THEN LegacyLevel(rule, hit) ELSE "dropped"
     ELSE IF level # "cold" THEN level
     ELSE IF rule.status \in {"candidate", "suppressed"} /\ EvidencePassed(m) THEN "none"
     ELSE "dropped"

ComputeBaseUtility(rule, m, eligible) ==
  IF ~eligible THEN 0
  ELSE m.idf + (IF m.strong THEN 100 ELSE 0)
         + (IF rule.status = "trusted" THEN 150 ELSE IF rule.observed > 0 THEN 50 ELSE 0)
         - 2 * rule.fp

-----------------------------------------------------------------------------
(* Selection.  result: [rule, level, utility, tokens, cost, domains,       *)
(* groups, strong]                                                         *)

Percent(a, b) ==
  IF a = {} \/ b = {} THEN 0 ELSE (100 * Cardinality(a \cap b)) \div Cardinality(a \cup b)

\* The penalty of the nearest of those already picked.
ComputeUtility(r, picked) ==
  r.utility - (IF picked = {} THEN 0 ELSE 2 * Max({Percent(r.tokens, s.tokens) : s \in picked}))

\* By utility; equals keep their order.
ByUtility(results) ==
  LET before(i, j) == \/ results[i].utility > results[j].utility
                      \/ results[i].utility = results[j].utility /\ i < j
      order == Sorted(DOMAIN results, before)
  IN [k \in DOMAIN results |-> results[order[k]]]

MayBeHot(results, r) ==
  (\E i \in DOMAIN results : results[i].level # "none") => r.level \in {"hot", "gate"}

HasDistinctDomain(r, picked) ==
  \A s \in picked :
    \/ r.domains # s.domains \/ r.groups # s.groups
    \/ r.domains = {} /\ r.groups = {} /\ Percent(r.tokens, s.tokens) < 30

\* One hot rule, and a second one of another domain that has strong evidence.
SecondHot(results, sorted, first) ==
  LET two == SelectInSeq(sorted, LAMBDA r :
               /\ r # first /\ MayBeHot(results, r) /\ ComputeUtility(r, {first}) > 0
               /\ HasDistinctDomain(r, {first})
               /\ r.strong \/ r.level = "gate")
  IN IF two = 0 THEN {} ELSE {sorted[two]}

Hot(results) ==
  LET sorted == ByUtility(results)
      one == SelectInSeq(sorted, LAMBDA r : MayBeHot(results, r) /\ ComputeUtility(r, {}) > 0)
  IN IF one = 0 THEN {} ELSE {sorted[one]} \cup SecondHot(results, sorted, sorted[one])

NearDuplicate(r, picked) ==
  \E s \in picked :
    /\ r.tokens # {} /\ s.tokens # {}
    /\ 100 * Cardinality(r.tokens \cap s.tokens) > 80 * Cardinality(r.tokens \cup s.tokens)

\* After two warm rules the next one must be worth most of the last.
TakesWarm(r, hot, acc, budget) ==
  LET u == ComputeUtility(r, hot \cup ToSet(acc.warm)) IN
  /\ Len(acc.warm) < WARM_HARD_MAX
  /\ ~NearDuplicate(r, hot \cup ToSet(acc.warm))
  /\ Len(acc.warm) >= 2 => u >= 100 /\ 100 * u >= 80 * acc.last
  /\ acc.chars + r.cost <= budget

NextWarm(results, hot, budget, acc, r) ==
  LET levelled == \E i \in DOMAIN results : results[i].level # "none" IN
  IF r \in hot \/ (levelled /\ r.level = "none") \/ ~TakesWarm(r, hot, acc, budget) THEN acc
  ELSE [warm |-> Append(acc.warm, r), chars |-> acc.chars + r.cost,
        last |-> ComputeUtility(r, hot \cup ToSet(acc.warm))]

Warm(results, hot, budget) ==
  LET sorted == ByUtility(results)
      picked[k \in 0..Len(results)] ==
        IF k = 0 THEN [warm |-> <<>>, chars |-> 0, last |-> 0]
        ELSE NextWarm(results, hot, budget, picked[k - 1], sorted[k])
  IN picked[Len(results)].warm

\* Everything else is a shadow match.
Selection(results, hot, warm) == [hot |-> hot, warm |-> warm, shadow |-> ToSet(results) \ (hot \cup warm)]

SelectInjection(results, budget) ==
  LET hot == Hot(results) IN Selection(results, hot, ToSet(Warm(results, hot, budget)))

-----------------------------------------------------------------------------
(* Retrieval: words and embeddings each return their best TOP_K of all the *)
(* rules, the two rankings are fused by reciprocal ranks, and the formal   *)
(* and the shadow rules are selected apart.                                *)

RRF_K == 60

TopK(ranking) == Best(ranking, TOP_K)

RrfScore(ranking, rule) ==
  LET rank == SelectInSeq(ranking, LAMBDA x : x = rule) IN IF rank = 0 THEN 0 ELSE 1000000 \div (RRF_K + rank)

RrfFuse(words, embeddings) ==
  LET all == words \o Keep(embeddings, LAMBDA x : x \notin ToSet(words))
      found == {[rule |-> all[i], at |-> i, score |-> RrfScore(words, all[i]) + RrfScore(embeddings, all[i])] :
                  i \in DOMAIN all}
      before(c, d) == c.score > d.score \/ (c.score = d.score /\ c.at < d.at)
      fused == Sorted(found, before)
  IN [k \in DOMAIN all |-> fused[k].rule]

\* With an unknown profile a rule that only the embedding found is no match.
EmbeddingOnly(words, known, rule) == ~known /\ rule \notin ToSet(words)

Eligible(words, embeddings, known, result) ==
  LET fused == RrfFuse(TopK(words), TopK(embeddings))
      kept == Keep(fused, LAMBDA x :
                result[x].level # "dropped" /\ ~EmbeddingOnly(TopK(words), known, x))
  IN [k \in DOMAIN kept |-> result[kept[k]]]

\* q: [pool, words, embeddings, enabled, known, result, formal], the rules that
\* are searched, their rankings for the prompt, and what became of each.
UsesEmbeddings(q) == q.enabled \/ Cardinality(q.pool) >= EMBED_POOL

Used(q) == IF UsesEmbeddings(q) THEN q.embeddings ELSE <<>>

\* Mutant: one selection for the formal and the shadow rules.
RetrieveTogether(q, budget) ==
  LET all == SelectInjection(Eligible(q.words, Used(q), q.known, q.result), budget)
      part(isFormal) == [slot \in DOMAIN all |-> {r \in all[slot] : (r.rule \in q.formal) = isFormal}]
  IN [formal |-> part(TRUE), shadow |-> part(FALSE)]
Retrieve(q, budget) ==
  LET eligible == Eligible(q.words, Used(q), q.known, q.result)
      among(of) == SelectInjection(Keep(eligible, LAMBDA r : r.rule \in of), budget)
  IN [formal |-> among(q.formal), shadow |-> among(q.pool \ q.formal)]
=============================================================================
