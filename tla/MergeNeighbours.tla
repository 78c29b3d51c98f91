--------------------------- MODULE MergeNeighbours ---------------------------
(***************************************************************************)
(* The rules that a merge planner is shown for a new rule.  rules is the   *)
(* table in its order; a rule: [id, status, project, trigger, action,      *)
(* variants, search, domains, tools, updated], where project is "global"   *)
(* for a global rule.  Scores are hundredths.                              *)
(***************************************************************************)
EXTENDS Integers, Sequences, FiniteSets, SequencesExt, Ranks

CONSTANTS RECENT, FINGERPRINTS

InScope(rule, project) == rule.project \in {"global", project}

Share(points, mine, others) ==
  IF mine = {} THEN 0 ELSE (points * Cardinality(mine \cap others)) \div Cardinality(mine)

Score(new, rule) ==
  Share(300, ToSet(new.trigger), ToSet(rule.trigger))
  + 200 * Cardinality(new.variants \cap rule.variants)
  + 150 * Cardinality(new.search \cap rule.search)
  + 100 * Cardinality(new.domains \cap rule.domains)
  + 100 * Cardinality(new.tools \cap rule.tools)
  + Share(150, ToSet(new.action), ToSet(rule.action))

\* cosine maps the rules that have an embedding to their similarity, in percent.
Near(rule, cosine) == rule.id \in DOMAIN cosine /\ cosine[rule.id] > 70

Bonus(rule, cosine) == IF Near(rule, cosine) THEN (250 * cosine[rule.id]) \div 100 ELSE 0

\* Mutant: what the embedding finds is taken from every project.
EligibleInAnyProject(rule, project) == rule.status # "archived"
Eligible(rule, project) == rule.status # "archived" /\ InScope(rule, project)

\* Words, embedding and the recent rules that neither has found, with their
\* scores; the recent ones are not compared with the rule that is asked for.
\* via and turn are how and when a rule has been found.
Scored(new, rules, cosine, project) ==
  {[rule |-> r, score |-> Score(new, r) + Bonus(r, cosine),
    via |-> IF Score(new, r) > 0 THEN 1 ELSE 2, turn |-> r.id] :
     r \in {s \in ToSet(rules) : /\ s.id # new.id /\ Eligible(s, project)
                                 /\ Score(new, s) > 0 \/ Near(s, cosine)}}

RecentRules(rules, project, n) ==
  LET live == {r \in ToSet(rules) : r.status \in {"active", "trusted"} /\ InScope(r, project)}
  IN {r \in live : Cardinality({s \in live : s.updated > r.updated}) < n}

Candidates(new, rules, cosine, project, limit) ==
  LET found == Scored(new, rules, cosine, project)
      room == limit - Cardinality(found)
      n == IF room < RECENT THEN room ELSE RECENT
  IN found \cup {[rule |-> r, score |-> 10, via |-> 3, turn |-> -r.updated] :
                   r \in RecentRules(rules, project, n) \ {f.rule : f \in found}}

\* By score; the sort is stable, so that equals stay as they have been found.
Before(c, d) ==
  \/ c.score > d.score
  \/ c.score = d.score /\ (c.via < d.via \/ (c.via = d.via /\ c.turn < d.turn))

\* One text holds another.
Within(a, b) == \E i \in 0..(Len(b) - Len(a)) : \A k \in DOMAIN a : a[k] = b[i + k]

\* The memory of dismissals: the first of the fingerprints archived by a user or
\* the system, where their areas and the texts of a rule hold each other.
Related(rule, fingerprints) ==
  LET strong == Keep(fingerprints, LAMBDA f : f.strength \in {"user", "system"})
  IN {f \in ToSet(Best(strong, FINGERPRINTS)) :
        \/ f.trigger # <<>> /\ Within(f.trigger, rule.trigger)
        \/ f.action # <<>> /\ Within(f.action, rule.action)
        \/ rule.trigger # <<>> /\ Within(rule.trigger, f.trigger)}

\* A row of what is found.
Neighbour(c, fingerprints) ==
  [id |-> c.rule.id, score |-> c.score, fingerprints |-> Related(c.rule, fingerprints)]

FindMergeNeighbors(new, rules, cosine, project, limit, fingerprints) ==
  LET found == Best(Sorted(Candidates(new, rules, cosine, project, limit), Before), limit)
  IN IF new.trigger = <<>> THEN <<>>
     ELSE [k \in DOMAIN found |-> Neighbour(found[k], fingerprints)]
=============================================================================
