--------------------------- MODULE Policies_proofs ---------------------------
(***************************************************************************)
(* What holds of the algorithms for all thresholds and all inputs: of the  *)
(* policy, the barriers, the trial, the windows, the matcher, the          *)
(* selection and the neighbours, and of the installation after any number  *)
(* of commands.                                                            *)
(***************************************************************************)
EXTENDS Policies, Ranks_proofs

-----------------------------------------------------------------------------
(* The levels as numbers                                                   *)

\* The levels in their order.
LEMMA RankValues ==
  Rank("cold") = 0 /\ Rank("warm") = 1 /\ Rank("hot") = 2 /\ Rank("gate") = 3
  BY DEF Rank

\* The policy answers with a level; only a trusted rule is a gate, and none is cold.
LEMMA LevelOf ==
  ASSUME NEW r, NEW m
  PROVE  /\ EvaluateApplicability(r, m) \in Levels
         /\ ActiveLevel(r, m) \in {"cold", "warm", "hot"}
         /\ TrustedLevel(r, m) \in {"warm", "hot", "gate"}
  BY DEF EvaluateApplicability, ActiveLevel, TrustedLevel, Levels

\* The same in numbers.
LEMMA RankOf ==
  ASSUME NEW r, NEW m
  PROVE  /\ Rank(EvaluateApplicability(r, m)) \in 0..3
         /\ Rank(ActiveLevel(r, m)) \in 0..2
         /\ Rank(TrustedLevel(r, m)) \in 1..3
  BY LevelOf, RankValues DEF Levels

-----------------------------------------------------------------------------
(* Evidence                                                                *)

\* The thresholds depend on the pool alone.
LEMMA SamePolicy ==
  ASSUME NEW m \in Matches, NEW n \in Matches, Dominates(m, n)
  PROVE  /\ IdfPolicy(m) = IdfPolicy(n) /\ IdfPolicy(m) \in IdfPolicies
         /\ TriggerInfoMin(m) = TriggerInfoMin(n) /\ TriggerInfoMin(m) \in Nat
  BY ThresholdsAreNumbers DEF Dominates, IdfPolicy, TriggerInfoMin, IdfPolicies, Matches

\* More evidence opens no path less (trigger_evidence_passes and its stronger forms).
LEMMA MoreEvidence ==
  ASSUME NEW m \in Matches, NEW n \in Matches, Dominates(m, n)
  PROVE  /\ TriggerEvidencePasses(n) => TriggerEvidencePasses(m)
         /\ StrongTriggerEvidence(n) => StrongTriggerEvidence(m)
         /\ HighRiskStrongEvidence(n) => HighRiskStrongEvidence(m)
  <1>1. /\ m.idf \in Nat /\ n.idf \in Nat /\ m.coverage \in Nat /\ n.coverage \in Nat
        /\ m.distinct \in Nat /\ n.distinct \in Nat
        BY DEF Matches
  <1>2. PathA(n) => PathA(m)
        BY DEF Dominates, PathA
  <1>3. (Informative(n, 2) => Informative(m, 2)) /\ (Informative(n, 3) => Informative(m, 3))
        BY <1>1, SamePolicy DEF Dominates, Informative
  <1>4. Covered(n) => Covered(m)
        BY <1>1, SamePolicy DEF Dominates, Covered, IdfPolicies
  <1>5. Measured(n) => Measured(m)
        BY <1>1, SamePolicy DEF Dominates, Measured, Distinct, IdfPolicies
  <1> QED BY <1>2, <1>3, <1>4, <1>5
          DEF TriggerEvidencePasses, StrongTriggerEvidence, HighRiskStrongEvidence

\* What a high risk rule needs is strong evidence.
LEMMA HighRiskIsStrong ==
  ASSUME NEW m \in Matches, HighRiskStrongEvidence(m)
  PROVE  StrongTriggerEvidence(m)
  <1>1. m.idf \in Nat /\ TriggerInfoMin(m) \in Nat
        BY ThresholdsAreNumbers DEF Matches, TriggerInfoMin, IdfPolicy, IdfPolicies
  <1>2. Informative(m, 3) => Informative(m, 2)
        BY <1>1 DEF Informative
  <1> QED BY <1>2 DEF HighRiskStrongEvidence, StrongTriggerEvidence

\* Less against a rule disqualifies it no more.
LEMMA LessAgainst ==
  ASSUME NEW m \in Matches, NEW n \in Matches, Dominates(m, n)
  PROVE  Disqualified(m) => Disqualified(n)
  BY DEF Dominates, Disqualified, Matches

-----------------------------------------------------------------------------
(* The five parts of Monotone                                              *)

\* An active rule with more evidence ranks no lower.
LEMMA ActiveByEvidence ==
  ASSUME NEW r \in Standings, NEW m \in Matches, NEW n \in Matches, Dominates(m, n)
  PROVE  Rank(ActiveLevel(r, m)) >= Rank(ActiveLevel(r, n))
  <1>1. n.coverage >= NEWLY_ACTIVE_COVERAGE_MIN => m.coverage >= NEWLY_ACTIVE_COVERAGE_MIN
        BY ThresholdsAreNumbers DEF Dominates, Matches
  <1>2. m.coverage < NEWLY_ACTIVE_COVERAGE_MIN => n.coverage < NEWLY_ACTIVE_COVERAGE_MIN
        BY ThresholdsAreNumbers DEF Dominates, Matches
  <1>3. m.excluded => n.excluded
        BY DEF Dominates
  <1> QED BY <1>2, <1>3, MoreEvidence, RankValues DEF ActiveLevel

\* Nor does a trusted one.
LEMMA TrustedByEvidence ==
  ASSUME NEW r \in Standings, NEW m \in Matches, NEW n \in Matches, Dominates(m, n)
  PROVE  Rank(TrustedLevel(r, m)) >= Rank(TrustedLevel(r, n))
  <1>1. MayGate(r, n) => MayGate(r, m)
        BY MoreEvidence DEF MayGate, Dominates
  <1> QED BY <1>1, RankValues DEF TrustedLevel

\* Nor does any rule.
LEMMA ByEvidence ==
  ASSUME NEW r \in Standings, NEW m \in Matches, NEW n \in Matches, Dominates(m, n)
  PROVE  Better(r, m, r, n)
  BY LessAgainst, MoreEvidence, ActiveByEvidence, TrustedByEvidence, RankOf, RankValues
  DEF Better, EvaluateApplicability

\* Trust does not lower an active rule.
LEMMA ByTrust ==
  ASSUME NEW r \in Standings, NEW m \in Matches, r.status = "active"
  PROVE  Better([r EXCEPT !.status = "trusted"], m, r, m)
  <1> DEFINE t == [r EXCEPT !.status = "trusted"]
  <1>1. t.status = "trusted" /\ t.severity = r.severity /\ t.fp = r.fp /\ r.fp \in Nat
        BY DEF Standings
  <1>2. ActiveLevel(r, m) = "hot" => r.fp = 0
        BY DEF ActiveLevel
  <1>3. Rank(TrustedLevel(t, m)) >= Rank(ActiveLevel(r, m))
        <2>1. ~(0 > NOISE)
              BY ThresholdsAreNumbers
        <2>2. CASE ActiveLevel(r, m) = "hot"
              BY <1>1, <1>2, <2>1, <2>2, RankValues DEF TrustedLevel
        <2>3. CASE ActiveLevel(r, m) # "hot"
              BY <2>3, LevelOf, RankOf, RankValues
        <2> QED BY <2>2, <2>3
  <1> HIDE DEF t
  <1> QED BY <1>1, <1>3, RankValues DEF Better, EvaluateApplicability, t

\* Less noise does not lower a rule.
LEMMA ByLessNoise ==
  ASSUME NEW r \in Standings, NEW m \in Matches
  PROVE  Better([r EXCEPT !.fp = 0], m, r, m)
  <1> DEFINE t == [r EXCEPT !.fp = 0]
  <1>1. /\ t.status = r.status /\ t.severity = r.severity /\ t.useful = r.useful
        /\ t.fp = 0 /\ ~(t.fp > NOISE)
        BY ThresholdsAreNumbers DEF Standings
  <1> HIDE DEF t
  <1>2. Rank(ActiveLevel(t, m)) >= Rank(ActiveLevel(r, m))
        BY <1>1, RankValues DEF ActiveLevel
  <1>3. Rank(TrustedLevel(t, m)) >= Rank(TrustedLevel(r, m))
        BY <1>1, RankValues DEF TrustedLevel, MayGate
  <1> QED BY <1>1, <1>2, <1>3, RankValues DEF Better, EvaluateApplicability, t

\* A history of use does not lower a rule.
LEMMA ByUse ==
  ASSUME NEW r \in Standings, NEW m \in Matches
  PROVE  Better([r EXCEPT !.useful = TRUE], m, r, m)
  <1> DEFINE t == [r EXCEPT !.useful = TRUE]
  <1>1. t.status = r.status /\ t.severity = r.severity /\ t.useful = TRUE /\ t.fp = r.fp
        BY DEF Standings
  <1> HIDE DEF t
  <1>2. Rank(ActiveLevel(t, m)) >= Rank(ActiveLevel(r, m))
        BY <1>1, RankValues DEF ActiveLevel
  <1>3. TrustedLevel(t, m) = TrustedLevel(r, m)
        BY <1>1 DEF TrustedLevel, MayGate
  <1> QED BY <1>1, <1>2, <1>3, RankOf, RankValues DEF Better, EvaluateApplicability, t

\* High risk does not raise a rule.
LEMMA ByLessRisk ==
  ASSUME NEW r \in Standings, NEW m \in Matches
  PROVE  Better(r, m, [r EXCEPT !.severity = "high_risk"], m)
  <1> DEFINE t == [r EXCEPT !.severity = "high_risk"]
  <1>1. t.status = r.status /\ t.severity = "high_risk" /\ t.useful = r.useful /\ t.fp = r.fp
        BY DEF Standings
  <1> HIDE DEF t
  <1>2. Rank(ActiveLevel(r, m)) >= Rank(ActiveLevel(t, m))
        BY <1>1, HighRiskIsStrong, RankValues DEF ActiveLevel
  <1>3. Rank(TrustedLevel(r, m)) >= Rank(TrustedLevel(t, m))
        BY <1>1, RankValues DEF TrustedLevel, MayGate
  <1> QED BY <1>1, <1>2, <1>3, RankValues DEF Better, EvaluateApplicability, t

\* Whatever the thresholds, the policy is monotone in the evidence, in trust, in
\* noise, in use and in severity.  (search/applicability.py, evaluate_applicability)
THEOREM AlwaysMonotone ==
  ASSUME NEW r \in Standings, NEW m \in Matches, NEW n \in Matches
  PROVE  Monotone(r, m, n)
  BY ByEvidence, ByTrust, ByLessNoise, ByUse, ByLessRisk DEF Monotone

-----------------------------------------------------------------------------
(* The questions                                                           *)

\* The table of the question: rule k is in place k and was updated as the k-th.
IsTable(rules, n) ==
  DOMAIN rules = 1..n /\ \A k \in 1..n : rules[k].id = k /\ rules[k].updated = k

\* A ranking names no rule twice.
IsRanking(s, S) == s \in Seq(S) /\ \A i, k \in DOMAIN s : s[i] = s[k] => i = k

\* The same rules without those that are not formal, in whatever order.
RanksAlone(alone, words, formal, S) ==
  /\ IsRanking(alone, S) /\ ToSet(alone) = ToSet(words) \cap formal
  /\ Len(words) \in Nat /\ Len(alone) <= Len(words)

\* The results of a selection: the k-th is that of rule k.
AreResults(result, n) ==
  DOMAIN result = 1..n /\ \A k \in 1..n : result[k].rule = k /\ result[k].utility \in Int /\ result[k].cost \in Nat

\* What is asked about is what the constants offer.
Questions ==
  /\ question.about = "level" => question.standing \in SomeStandings /\ question.match \in SomeMatches
  /\ question.about = "barriers" => question.status \in {"candidate", "active", "suppressed"}
  /\ question.about = "trial" => question.rule \in Trials
  /\ question.about = "window" => \E n \in 1..MaxTurns : question.turns \in [1..n -> Turns]
  /\ question.about = "match" => question.rule \in Rules /\ question.prompt \in Prompts
  /\ question.about = "neighbours" =>
       /\ \E n \in Nat : IsTable(question.rules, n)
       /\ \A i \in DOMAIN question.cosine : question.cosine[i] \in Int
       /\ question.limit \in Nat \ {0}
  /\ question.about = "selection" =>
       /\ {"pool", "words", "embeddings"} \subseteq DOMAIN question
       /\ \E n \in Nat :
            /\ AreResults(question.result, n)
            /\ IsRanking(question.words, 1..n) /\ IsRanking(question.embeddings, 1..n)
            /\ RanksAlone(question.alone, question.words, question.formal, 1..n)

\* The results and the rankings of a question about the selection.
LEMMA RankingsAsked ==
  ASSUME NEW n \in Nat \ {0}, NEW r \in [1..n -> Results],
         NEW skip \in 0..1, NEW far \in 0..1, NEW last \in 0..n
  PROVE  LET words == [k \in 1..(n - skip) |-> k + skip]
             alone == [k \in 1..(last - skip) |-> last + 1 - k]
             embeddings == [k \in 1..(n - far) |-> n + 1 - k]
         IN /\ AreResults([k \in 1..n |-> [r[k] EXCEPT !.rule = k]], n)
            /\ IsRanking(words, 1..n) /\ IsRanking(embeddings, 1..n)
            /\ RanksAlone(alone, words, 1..last, 1..n)
<1> DEFINE words == [k \in 1..(n - skip) |-> k + skip]
           alone == [k \in 1..(last - skip) |-> last + 1 - k]
           embeddings == [k \in 1..(n - far) |-> n + 1 - k]
           m == IF last < skip THEN 0 ELSE last - skip
<1>1. AreResults([k \in 1..n |-> [r[k] EXCEPT !.rule = k]], n)
  <2>1. ASSUME NEW k \in 1..n
        PROVE  LET s == [r[k] EXCEPT !.rule = k] IN s.rule = k /\ s.utility \in Int /\ s.cost \in Nat
    <3>1. "rule" \in DOMAIN r[k] /\ r[k].utility \in Int /\ r[k].cost \in Nat
      BY ResultsAreTyped
    <3> QED
      BY <3>1
  <2> QED
    BY <2>1 DEF AreResults
<1>2. n - skip \in Nat /\ n - far \in Nat /\ m \in Nat /\ 1..(last - skip) = 1..m
  OBVIOUS
<1>3. alone = [k \in 1..m |-> last + 1 - k]
  BY <1>2
<1>4. IsRanking(words, 1..n) /\ Len(words) = n - skip
  <2>1. words \in [1..(n - skip) -> 1..n]
    OBVIOUS
  <2> HIDE DEF words
  <2>2. words \in Seq(1..n) /\ Len(words) = n - skip
    BY <1>2, <2>1
  <2>3. \A i \in 1..(n - skip) : words[i] = i + skip
    BY DEF words
  <2> QED
    BY <2>1, <2>2, <2>3 DEF IsRanking
<1>5. IsRanking(embeddings, 1..n)
  <2>1. embeddings \in [1..(n - far) -> 1..n]
    OBVIOUS
  <2> HIDE DEF embeddings
  <2>2. embeddings \in Seq(1..n)
    BY <1>2, <2>1
  <2>3. \A i \in 1..(n - far) : embeddings[i] = n + 1 - i
    BY DEF embeddings
  <2> QED
    BY <2>1, <2>2, <2>3 DEF IsRanking
<1>6. IsRanking(alone, 1..n) /\ Len(alone) = m
  <2>1. alone \in [1..m -> 1..n]
    BY <1>3
  <2> HIDE DEF alone
  <2>2. alone \in Seq(1..n) /\ Len(alone) = m
    BY <1>2, <2>1
  <2>3. \A i \in 1..m : alone[i] = last + 1 - i
    BY <1>3
  <2> QED
    BY <1>2, <2>1, <2>2, <2>3 DEF IsRanking
<1>7. ToSet(alone) = ToSet(words) \cap (1..last)
  <2>1. \A x : x \in ToSet(words) <=> x \in (skip + 1)..n
    <3>1. \A x : x \in ToSet(words) <=> \E k \in 1..(n - skip) : x = k + skip
      BY DEF ToSet
    <3>2. \A x \in (skip + 1)..n : x - skip \in 1..(n - skip) /\ x = (x - skip) + skip
      OBVIOUS
    <3>3. \A k \in 1..(n - skip) : k + skip \in (skip + 1)..n
      OBVIOUS
    <3> QED
      BY <3>1, <3>2, <3>3
  <2>2. \A x : x \in ToSet(alone) <=> x \in (skip + 1)..last
    <3>1. \A x : x \in ToSet(alone) <=> \E k \in 1..(last - skip) : x = last + 1 - k
      BY DEF ToSet
    <3>2. \A x \in (skip + 1)..last : last + 1 - x \in 1..(last - skip) /\ x = last + 1 - (last + 1 - x)
      OBVIOUS
    <3>3. \A k \in 1..(last - skip) : last + 1 - k \in (skip + 1)..last
      OBVIOUS
    <3> QED
      BY <3>1, <3>2, <3>3
  <2> HIDE DEF words, alone
  <2>3. \A x : x \in (skip + 1)..last <=> x \in (skip + 1)..n /\ x \in 1..last
    OBVIOUS
  <2> QED
    BY <2>1, <2>2, <2>3
<1>8. m <= n - skip
  OBVIOUS
<1> HIDE DEF words, alone, embeddings
<1>9. RanksAlone(alone, words, 1..last, 1..n)
  BY <1>2, <1>4, <1>6, <1>7, <1>8 DEF RanksAlone
<1> QED
  BY <1>1, <1>4, <1>5, <1>9 DEF words, alone, embeddings

\* A behaviour asks one question, and keeps it.
LEMMA QuestionsAsked == Spec => []Questions
<1>1. Init => Questions
  BY DEF Init, Questions
<1>2. Questions /\ [Next]_question => Questions'
  <2> SUFFICES ASSUME Questions, [Next]_question
               PROVE  Questions'
    OBVIOUS
  <2>1. CASE AskMatch
    BY <2>1 DEF AskMatch, Ask, Questions
  <2>2. CASE AskTrial
    BY <2>2 DEF AskTrial, Ask, Questions
  <2>3. CASE AskLevel
    BY <2>3 DEF AskLevel, Ask, Questions
  <2>4. CASE AskBarriers
    BY <2>4 DEF AskBarriers, Ask, Questions
  <2>5. CASE AskWindow
    BY <2>5 DEF AskWindow, Ask, Questions
  <2>6. CASE AskSelection
    <3>1. PICK n \in 2..MaxResults :
            \E r \in [1..n -> Results], skip \in 0..1, far \in 0..1, last \in (n - 2)..n,
               known \in BOOLEAN, enabled \in BOOLEAN :
              Ask([about |-> "selection", pool |-> 1..n, formal |-> 1..last, known |-> known, enabled |-> enabled,
                   words |-> [k \in 1..(n - skip) |-> k + skip],
                   alone |-> [k \in 1..(last - skip) |-> last + 1 - k],
                   embeddings |-> [k \in 1..(n - far) |-> n + 1 - k],
                   result |-> [k \in 1..n |-> [r[k] EXCEPT !.rule = k]]])
      BY <2>6 DEF AskSelection
    <3>2. PICK r \in [1..n -> Results], skip \in 0..1, far \in 0..1, last \in (n - 2)..n,
               known \in BOOLEAN, enabled \in BOOLEAN :
            question' = [about |-> "selection", pool |-> 1..n, formal |-> 1..last, known |-> known, enabled |-> enabled,
                         words |-> [k \in 1..(n - skip) |-> k + skip],
                         alone |-> [k \in 1..(last - skip) |-> last + 1 - k],
                         embeddings |-> [k \in 1..(n - far) |-> n + 1 - k],
                         result |-> [k \in 1..n |-> [r[k] EXCEPT !.rule = k]]]
      BY <3>1 DEF Ask
    <3>3. n \in Nat \ {0} /\ last \in 0..n
      BY ResultsAreTyped
    <3>4. /\ AreResults(question'.result, n)
          /\ IsRanking(question'.words, 1..n) /\ IsRanking(question'.embeddings, 1..n)
          /\ RanksAlone(question'.alone, question'.words, question'.formal, 1..n)
      BY <3>2, <3>3, RankingsAsked
    <3>5. {"pool", "words", "embeddings"} \subseteq DOMAIN question' /\ question'.about = "selection"
      BY <3>2
    <3> QED
      BY <3>3, <3>4, <3>5 DEF Questions
  <2>7. CASE AskNeighbours
    <3>1. PICK n \in 1..MaxRules, c \in Cosines, limit \in Limits :
            \E t \in [1..n -> Table] :
              question' = [about |-> "neighbours", rules |-> [k \in 1..n |-> [t[k] EXCEPT !.id = k, !.updated = k]],
                           cosine |-> c, limit |-> limit]
      BY <2>7 DEF AskNeighbours, Ask
    <3>2. PICK t \in [1..n -> Table] :
            question' = [about |-> "neighbours", rules |-> [k \in 1..n |-> [t[k] EXCEPT !.id = k, !.updated = k]],
                         cosine |-> c, limit |-> limit]
      BY <3>1
    <3>3. \A k \in 1..n : {"id", "updated"} \subseteq DOMAIN t[k]
      BY NeighboursAreTyped
    <3>4. IsTable([k \in 1..n |-> [t[k] EXCEPT !.id = k, !.updated = k]], n)
      BY <3>3 DEF IsTable
    <3>5. n \in Nat /\ limit \in Nat \ {0} /\ \A i \in DOMAIN c : c[i] \in Int
      BY NeighboursAreTyped
    <3> QED
      BY <3>2, <3>4, <3>5 DEF Questions
  <2>8. CASE AskInstall
    BY <2>8 DEF AskInstall, Ask, Questions
  <2>9. CASE Command
    BY <2>9 DEF Command, Questions
  <2>10. CASE UNCHANGED question
    BY <2>10 DEF Questions
  <2> QED
    BY <2>1, <2>2, <2>3, <2>4, <2>5, <2>6, <2>7, <2>8, <2>9, <2>10 DEF Next
<1> QED
  BY <1>1, <1>2, PTL DEF Spec

\* No question about a level has an answer that is not monotone.
THEOREM LevelsAreMonotone ==
  Spec => []LevelIsMonotone
  <1>1. Questions => LevelIsMonotone
    <2> SUFFICES ASSUME Questions, question.about = "level", NEW d \in Doubts
                 PROVE  LET n == d @@ question.match IN
                          Monotone(question.standing, question.match, n)
                            /\ Monotone(question.standing, n, question.match)
        BY DEF LevelIsMonotone
    <2>1. question.standing \in Standings /\ question.match \in Matches
            /\ d @@ question.match \in Matches
          BY QuestionsAreTyped DEF Questions
    <2> QED BY <2>1, AlwaysMonotone
  <1> QED BY <1>1, QuestionsAsked, PTL

-----------------------------------------------------------------------------
(* The first position with a property                                      *)

\* A set of positions has a least one.
LEMMA LeastPosition ==
  ASSUME NEW I \in SUBSET Nat, I # {}
  PROVE  Min(I) \in I /\ \A k \in I : Min(I) <= k
<1>1. PICK i \in I : \A k \in I : ~(<<k, i>> \in OpToRel(<, Nat))
  BY NatLessThanWellFounded, WFMin
<1>2. \A k \in I : i <= k
  <2> SUFFICES ASSUME NEW k \in I
               PROVE  i <= k
    OBVIOUS
  <2>1. k \in Nat /\ i \in Nat /\ <<k, i>> \in Nat \X Nat
    OBVIOUS
  <2>2. ~(k < i)
    BY <1>1, <2>1 DEF OpToRel
  <2> QED
    BY <2>1, <2>2
<1> QED
  BY <1>2 DEF Min

-----------------------------------------------------------------------------
(* The barriers                                                            *)

\* Nothing is in the way if and only if every threshold is met.
LEMMA NothingBlocks ==
  ASSUME NEW n \in Nat, NEW thresholds, Len(thresholds) = n,
         \A i \in 1..n : thresholds[i].name # "nothing"
  PROVE  Blocking(thresholds) = "nothing" <=> \A i \in 1..n : thresholds[i].met
<1> DEFINE I == {i \in 1..n : ~thresholds[i].met}
           first == IF I # {} THEN Min(I) ELSE 0
<1>1. Blocking(thresholds) = IF first = 0 THEN "nothing" ELSE thresholds[first].name
  BY DEF Blocking, SelectInSeq
<1>2. CASE I = {}
  BY <1>1, <1>2
<1>3. CASE I # {}
  <2>1. first \in I
    BY <1>3, LeastPosition
  <2>2. first \in 1..n /\ first # 0 /\ ~(\A i \in 1..n : thresholds[i].met)
    BY <2>1
  <2> HIDE DEF first
  <2> QED
    BY <1>1, <2>2
<1> QED
  BY <1>2, <1>3

\* What is shown to be in the way of a candidate is what the path across
\* sessions asks for.
LEMMA CandidateIsTold ==
  ASSUME NEW e
  PROVE  ComputePromotionBarriers("candidate", e) = "nothing" <=> NormalPath(e)
<1> DEFINE ts == CandidateBarriers(e)
<1>1. ComputePromotionBarriers("candidate", e) = Blocking(ts)
  BY DEF ComputePromotionBarriers
<1>2. Len(ts) = 6 /\ \A i \in 1..6 : ts[i].name # "nothing"
  BY DEF CandidateBarriers
<1>3. NormalPath(e) <=> \A i \in 1..6 : ts[i].met
  <2>1. /\ ts[1].met = (e.high >= CANDIDATE_TO_ACTIVE.strong)
        /\ ts[2].met = (e.evaluated >= CANDIDATE_TO_ACTIVE.evaluated)
        /\ ts[3].met = (e.sessions >= CANDIDATE_TO_ACTIVE.sessions)
        /\ ts[4].met = (e.high >= CANDIDATE_TO_ACTIVE.counterfactual)
        /\ ts[5].met = (e.risky <= CANDIDATE_TO_ACTIVE.risky)
        /\ ts[6].met = (AtMost(e.fp, e.tasks, CANDIDATE_TO_ACTIVE.fp))
    BY DEF CandidateBarriers
  <2> HIDE DEF ts
  <2>2. (\A i \in 1..6 : ts[i].met) <=> ts[1].met /\ ts[2].met /\ ts[3].met /\ ts[4].met /\ ts[5].met /\ ts[6].met
    OBVIOUS
  <2> QED
    BY <2>1, <2>2 DEF NormalPath
<1> HIDE DEF ts
<1> QED
  BY <1>1, <1>2, <1>3, NothingBlocks

\* The same of the trust of an active rule.
LEMMA ActiveIsTold ==
  ASSUME NEW e
  PROVE  ComputePromotionBarriers("active", e) = "nothing" <=> EarnsTrust(e)
<1> DEFINE ts == TrustBarriers(e)
<1>1. ComputePromotionBarriers("active", e) = Blocking(ts)
  BY DEF ComputePromotionBarriers
<1>2. Len(ts) = 5 /\ \A i \in 1..5 : ts[i].name # "nothing"
  BY DEF TrustBarriers
<1>3. EarnsTrust(e) <=> \A i \in 1..5 : ts[i].met
  <2>1. /\ ts[1].met = (e.useful >= ACTIVE_TO_TRUSTED.useful)
        /\ ts[2].met = (e.total >= ACTIVE_TO_TRUSTED.evaluated /\ e.total >= MINIMUM_RATE_DENOMINATOR)
        /\ ts[3].met = (e.sessions >= ACTIVE_TO_TRUSTED.sessions)
        /\ ts[4].met = (e.harmful <= ACTIVE_TO_TRUSTED.harmful)
        /\ ts[5].met = (AtMost(e.fp, e.total, ACTIVE_TO_TRUSTED.fp))
    BY DEF TrustBarriers
  <2> HIDE DEF ts
  <2>2. (\A i \in 1..5 : ts[i].met) <=> ts[1].met /\ ts[2].met /\ ts[3].met /\ ts[4].met /\ ts[5].met
    OBVIOUS
  <2> QED
    BY <2>1, <2>2 DEF EarnsTrust
<1> HIDE DEF ts
<1> QED
  BY <1>1, <1>2, <1>3, NothingBlocks

\* The same of the recovery of a suppressed rule that has its timestamp.
LEMMA SuppressedIsTold ==
  ASSUME NEW e
  PROVE  ComputePromotionBarriers("suppressed", e) = "nothing" <=> e.stamped /\ Recovers(e)
<1> DEFINE ts == RecoveryBarriers(e)
<1>1. ComputePromotionBarriers("suppressed", e) = IF e.stamped THEN Blocking(ts) ELSE "no promotion"
  BY DEF ComputePromotionBarriers
<1>2. Len(ts) = 3 /\ \A i \in 1..3 : ts[i].name # "nothing"
  BY DEF RecoveryBarriers
<1>3. Recovers(e) <=> \A i \in 1..3 : ts[i].met
  <2>1. /\ ts[1].met = (e.high >= SUPPRESSED_TO_ACTIVE.high)
        /\ ts[2].met = (e.sessions >= SUPPRESSED_TO_ACTIVE.sessions)
        /\ ts[3].met = (e.recentHarmful <= SUPPRESSED_TO_ACTIVE.harmful)
    BY DEF RecoveryBarriers
  <2> HIDE DEF ts
  <2>2. (\A i \in 1..3 : ts[i].met) <=> ts[1].met /\ ts[2].met /\ ts[3].met
    OBVIOUS
  <2> QED
    BY <2>1, <2>2 DEF Recovers
<1> HIDE DEF ts
<1> QED
  BY <1>1, <1>2, <1>3, NothingBlocks

\* Whatever the evidence and the thresholds, what the user is told to be in the
\* way of a promotion is what the next evaluation finds in its way
\* (compute_promotion_barriers with evaluate_transition).
THEOREM BarriersAreReal == Spec => []BarriersAgree
<1>1. Questions => BarriersAgree
  <2> SUFFICES ASSUME Questions, question.about = "barriers"
               PROVE  BarriersAgree
    BY DEF BarriersAgree
  <2> DEFINE e == question.evidence
  <2>1. CASE question.status = "candidate"
    BY <2>1, CandidateIsTold DEF BarriersAgree, EvaluateCandidate
  <2>2. CASE question.status = "active"
    <3>1. EvaluateActive(e) = "trusted" <=> ~FireFails(e, ACTIVE_TO_SUPPRESSED) /\ EarnsTrust(e)
      BY DEF EvaluateActive
    <3>2. ComputePromotionBarriers(question.status, e) = "nothing" <=> EarnsTrust(e)
      BY <2>2, ActiveIsTold
    <3> QED
      BY <2>2, <3>1, <3>2 DEF BarriersAgree
  <2>3. CASE question.status = "suppressed"
    BY <2>3, SuppressedIsTold DEF BarriersAgree, EvaluateSuppressed
  <2> QED
    BY <2>1, <2>2, <2>3 DEF Questions
<1> QED
  BY <1>1, QuestionsAsked, PTL

-----------------------------------------------------------------------------
(* The trials                                                              *)

\* What is cold as a rule in service that covers enough is disqualified, or
\* lacks the evidence, whatever its standing.
LEMMA ColdForAll ==
  ASSUME NEW m, NEW r, NEW s, r.status \in {"active", "trusted"},
         EvaluateApplicability(r, m) = "cold", ~(m.coverage < NEWLY_ACTIVE_COVERAGE_MIN)
  PROVE  EvaluateApplicability(s, m) = "cold"
<1>1. ActiveLevel(r, m) # "cold"
  BY DEF ActiveLevel
<1>2. TrustedLevel(r, m) # "cold"
  BY DEF TrustedLevel
<1>3. Disqualified(m) \/ ~TriggerEvidencePasses(m)
  BY <1>1, <1>2 DEF EvaluateApplicability
<1> QED
  BY <1>3 DEF EvaluateApplicability

\* A rule that passes its trial is silent on the hostile prompts of the trial
\* with every later standing: for all rules, prompts and pools
\* (run_synthetic_eval with evaluate_applicability).
THEOREM TrialsBindForLife == Spec => []PassedStaysSilent
<1>1. Questions => PassedStaysSilent
  <2> SUFFICES ASSUME Questions, question.about = "trial",
                      RunSyntheticEval(question.rule, question.rule.trigger,
                                       question.cases, question.stats),
                      NEW c \in question.cases, NEW s \in SomeStandings, c.kind \in Hostile,
                      ~(CaseMatch(question.rule.trigger, c.prompt, question.stats).coverage
                          < NEWLY_ACTIVE_COVERAGE_MIN)
               PROVE  EvaluateApplicability(
                        s, CaseMatch(question.rule.trigger, c.prompt, question.stats)) = "cold"
    BY DEF PassedStaysSilent
  <2> DEFINE rule == question.rule
             m == CaseMatch(rule.trigger, c.prompt, question.stats)
             r == [status |-> rule.status, severity |-> rule.severity, useful |-> rule.useful, fp |-> 0]
  <2>1. rule.status \in {"active", "trusted"}
    BY TrialsAreOfServedRules DEF Questions
  <2>2. EvaluateApplicability(r, m) = "cold"
    BY DEF RunSyntheticEval, EvaluateSingleCase
  <2> HIDE DEF m
  <2>3. r.status \in {"active", "trusted"}
    BY <2>1
  <2> HIDE DEF r, rule
  <2>4. ~(m.coverage < NEWLY_ACTIVE_COVERAGE_MIN)
    BY DEF m, rule
  <2>5. EvaluateApplicability(s, m) = "cold"
    BY <2>2, <2>3, <2>4, ColdForAll
  <2> QED
    BY <2>5 DEF m, rule
<1> QED
  BY <1>1, QuestionsAsked, PTL

-----------------------------------------------------------------------------
(* The windows                                                             *)

\* Where the window of a fire stops.
Stops(turns, start, tags, embeds, i) ==
  \/ i = Len(turns)
  \/ Windows!TopicShift(turns, start, i + 1, tags, embeds)
  \/ i > start /\ Windows!Ends(turns, i)

\* The window ends at the first turn at which it stops, and there is one: the
\* last turn of the transcript.
LEMMA WindowStops ==
  ASSUME NEW turns, NEW n \in Nat, Len(turns) = n, NEW start \in 1..n, NEW tags, NEW embeds
  PROVE  LET last == Windows!LastOfWindow(turns, start, tags, embeds) IN
         /\ last \in start..n
         /\ Stops(turns, start, tags, embeds, last)
         /\ \A j \in start..(last - 1) : ~Stops(turns, start, tags, embeds, j)
<1> DEFINE stops(i) == Stops(turns, start, tags, embeds, i)
           I == {i \in start..n : stops(i)}
<1>1. n \in I
  BY DEF Stops
<1>2. I \in SUBSET Nat
  OBVIOUS
<1>3. Min(I) \in I /\ \A k \in I : Min(I) <= k
  BY <1>1, <1>2, LeastPosition
<1> DEFINE first == Min(I)
<1>4. first \in start..n /\ stops(first) /\ \A j \in start..(first - 1) : ~stops(j)
  <2>1. first \in start..n /\ stops(first) /\ \A k \in start..n : stops(k) => first <= k
    BY <1>3
  <2> HIDE DEF first, stops
  <2> QED
    BY <2>1
<1>5. Windows!LastOfWindow(turns, start, tags, embeds)
        = CHOOSE i \in start..n : stops(i) /\ \A j \in start..(i - 1) : ~stops(j)
  BY DEF Windows!LastOfWindow, Stops
<1> HIDE DEF first, stops
<1> QED
  BY <1>4, <1>5 DEF stops

\* The turn of a fire is a prompt with the hash of the fire, if it has one, and
\* there is such a turn if there is such a prompt.
LEMMA TurnIsThePrompt ==
  ASSUME NEW turns, NEW n \in Nat, Len(turns) = n, DOMAIN turns = 1..n, NEW hash, NEW index
  PROVE  LET start == Windows!InjectionTurn(turns, hash, index)
             prompts == {i \in 1..n : turns[i].role = "user" /\ turns[i].hash = hash}
         IN /\ start # 0 => /\ start \in 1..n /\ turns[start].role = "user"
                            /\ hash # "none" => start \in prompts
            /\ hash # "none" /\ prompts # {} => start # 0
<1> DEFINE start == Windows!InjectionTurn(turns, hash, index)
           prompts == {i \in 1..n : turns[i].role = "user" /\ turns[i].hash = hash}
           first == IF prompts # {} THEN Min(prompts) ELSE 0
<1>1. start = IF /\ index \in 1..n /\ turns[index].role = "user"
                 /\ hash \in {"none", turns[index].hash}
              THEN index
              ELSE IF hash = "none" THEN 0 ELSE first
  <2>1. Windows!SelectInSeq(turns, LAMBDA t : t.role = "user" /\ t.hash = hash) = first
    BY DEF Windows!SelectInSeq, Windows!Min, Min
  <2> HIDE DEF first
  <2> QED
    BY <2>1 DEF Windows!InjectionTurn
<1>2. prompts # {} => first \in prompts
  <2>1. prompts \in SUBSET Nat
    OBVIOUS
  <2> HIDE DEF prompts
  <2> QED
    BY <2>1, LeastPosition
<1>3. first # 0 => first \in prompts
  BY <1>2
<1>4. prompts # {} => first # 0
  <2> HIDE DEF first
  <2>1. 0 \notin prompts
    OBVIOUS
  <2> QED
    BY <1>2, <2>1
<1> HIDE DEF start, first
<1>5. start # 0 => start \in 1..n /\ turns[start].role = "user" /\ (hash # "none" => start \in prompts)
  BY <1>1, <1>3
<1>6. hash # "none" /\ prompts # {} => start # 0
  BY <1>1, <1>4
<1> QED
  BY <1>5, <1>6 DEF start

\* What the property says of one window.
LEMMA OneWindow ==
  ASSUME NEW T, NEW turns \in Seq(T), NEW n \in Nat, Len(turns) = n, DOMAIN turns = 1..n,
         NEW start \in 1..n, NEW tags, NEW embeds
  PROVE  LET w == Windows!ComputeEventWindow(turns, start, tags, embeds)
             last == start + Len(w) - 1
         IN /\ w # <<>>
            /\ w = SubSeq(turns, start, last)
            /\ \A k \in (start + 1)..(last - 1) : ~Windows!Ends(turns, k) /\ ~turns[k].marker
            /\ last > start => ~turns[last].marker
            /\ \/ last = n
               \/ last > start /\ Windows!Ends(turns, last)
               \/ Windows!TopicShift(turns, start, last + 1, tags, embeds)
<1> DEFINE end == Windows!LastOfWindow(turns, start, tags, embeds)
           w == SubSeq(turns, start, end)
<1>1. /\ end \in start..n /\ Stops(turns, start, tags, embeds, end)
      /\ \A j \in start..(end - 1) : ~Stops(turns, start, tags, embeds, j)
  BY WindowStops
<1>2. Windows!ComputeEventWindow(turns, start, tags, embeds) = w
  BY DEF Windows!ComputeEventWindow
<1> HIDE DEF end
<1>3. end \in Nat /\ start \in Nat /\ 1 <= start /\ start <= end /\ end <= n
  BY <1>1
<1>4. Len(w) = end - start + 1
  <2>1. \A i \in start..end : turns[i] \in T
    BY <1>3
  <2>2. Len(w) = IF start <= end THEN end - start + 1 ELSE 0
    BY <1>3, <2>1, SubSeqProperties
  <2> QED
    BY <1>3, <2>2
<1>5. w # <<>> /\ start + Len(w) - 1 = end
  <2> HIDE DEF w
  <2>1. Len(w) # 0 /\ start + Len(w) - 1 = end
    BY <1>3, <1>4
  <2> QED
    BY <2>1
<1>6. ASSUME NEW k \in (start + 1)..end
      PROVE  ~turns[k].marker
  <2> DEFINE j == k - 1
  <2>1. j \in start..(end - 1) /\ j + 1 = k
    BY <1>3
  <2> HIDE DEF j
  <2>2. ~Windows!TopicShift(turns, start, k, tags, embeds)
    BY <1>1, <2>1 DEF Stops
  <2> QED
    BY <2>2 DEF Windows!TopicShift
<1>7. ASSUME NEW k \in (start + 1)..(end - 1)
      PROVE  ~Windows!Ends(turns, k) /\ ~turns[k].marker
  <2>1. k \in (start + 1)..end /\ k \in start..(end - 1) /\ k > start
    BY <1>3
  <2> QED
    BY <1>1, <1>6, <2>1 DEF Stops
<1>8. end > start => ~turns[end].marker
  <2>1. end > start => end \in (start + 1)..end
    BY <1>3
  <2> QED
    BY <1>6, <2>1
<1>9. \/ end = n
      \/ end > start /\ Windows!Ends(turns, end)
      \/ Windows!TopicShift(turns, start, end + 1, tags, embeds)
  BY <1>1 DEF Stops
<1> DEFINE last == start + Len(w) - 1
<1>10. last = end
  BY <1>5
<1> HIDE DEF last
<1>11. /\ w # <<>> /\ w = SubSeq(turns, start, last)
       /\ \A k \in (start + 1)..(last - 1) : ~Windows!Ends(turns, k) /\ ~turns[k].marker
       /\ last > start => ~turns[last].marker
       /\ \/ last = n
          \/ last > start /\ Windows!Ends(turns, last)
          \/ Windows!TopicShift(turns, start, last + 1, tags, embeds)
  BY <1>5, <1>7, <1>8, <1>9, <1>10
<1> HIDE DEF w
<1> QED
  BY <1>2, <1>11 DEF last

\* A fire is judged on the conversation after its own prompt: for transcripts of
\* any length and any turns (compute_event_window with _find_injection_turn).
THEOREM WindowsAreTheFires == Spec => []WindowIsTheFires
<1>1. Questions => WindowIsTheFires
  <2> SUFFICES ASSUME Questions, question.about = "window"
               PROVE  WindowIsTheFires
    BY DEF WindowIsTheFires
  <2> DEFINE q == question
             turns == q.turns
             w == Windows!WindowOf(turns, q.hash, q.index, q.tags, q.embeds)
             prompts == {i \in DOMAIN turns : turns[i].role = "user" /\ turns[i].hash = q.hash}
             start == Windows!InjectionTurn(turns, q.hash, q.index)
  <2>1. PICK n \in 1..MaxTurns : turns \in [1..n -> Turns]
    BY DEF Questions
  <2>2. n \in Nat /\ turns \in Seq(Turns) /\ Len(turns) = n /\ DOMAIN turns = 1..n
    BY <2>1
  <2>3. /\ start # 0 => start \in 1..n /\ turns[start].role = "user" /\ (q.hash # "none" => start \in prompts)
        /\ q.hash # "none" /\ prompts # {} => start # 0
    <3> HIDE DEF turns, start
    <3>1. prompts = {i \in 1..n : turns[i].role = "user" /\ turns[i].hash = q.hash}
      BY <2>2
    <3> QED
      BY <2>2, <3>1, TurnIsThePrompt DEF start
  <2>4. /\ start = 0 => w = <<>>
        /\ start # 0 => w = Windows!ComputeEventWindow(turns, start, q.tags, q.embeds)
    BY DEF Windows!WindowOf
  <2> HIDE DEF start, turns, w
  <2>5. q.hash # "none" /\ prompts # {} => w # <<>>
    BY <2>2, <2>3, <2>4, OneWindow
  <2>6. ASSUME w # <<>>
        PROVE  \E i \in DOMAIN turns :
                 LET last == i + Len(w) - 1 IN
                 /\ turns[i].role = "user" /\ (q.hash # "none" => i \in prompts)
                 /\ w = SubSeq(turns, i, last)
                 /\ \A k \in (i + 1)..(last - 1) : ~Windows!Ends(turns, k) /\ ~turns[k].marker
                 /\ last > i => ~turns[last].marker
                 /\ \/ last = Len(turns)
                    \/ last > i /\ Windows!Ends(turns, last)
                    \/ Windows!TopicShift(turns, i, last + 1, q.tags, q.embeds)
    <3>1. start \in DOMAIN turns /\ w = Windows!ComputeEventWindow(turns, start, q.tags, q.embeds)
      BY <2>2, <2>3, <2>4, <2>6
    <3>2. turns[start].role = "user" /\ (q.hash # "none" => start \in prompts)
      BY <2>3, <2>4, <2>6
    <3> HIDE DEF prompts, q
    <3> DEFINE good(i, last) ==
                 /\ w = SubSeq(turns, i, last)
                 /\ \A k \in (i + 1)..(last - 1) : ~Windows!Ends(turns, k) /\ ~turns[k].marker
                 /\ last > i => ~turns[last].marker
                 /\ \/ last = Len(turns)
                    \/ last > i /\ Windows!Ends(turns, last)
                    \/ Windows!TopicShift(turns, i, last + 1, q.tags, q.embeds)
    <3>3. start \in 1..n
      BY <2>2, <3>1
    <3>4. good(start, start + Len(w) - 1)
      <4> DEFINE v == Windows!ComputeEventWindow(turns, start, q.tags, q.embeds)
                 last == start + Len(v) - 1
      <4>1. /\ v = SubSeq(turns, start, last)
            /\ \A k \in (start + 1)..(last - 1) : ~Windows!Ends(turns, k) /\ ~turns[k].marker
            /\ last > start => ~turns[last].marker
            /\ \/ last = n
               \/ last > start /\ Windows!Ends(turns, last)
               \/ Windows!TopicShift(turns, start, last + 1, q.tags, q.embeds)
        BY <2>2, <3>3, OneWindow
      <4>2. v = w /\ last = start + Len(w) - 1
        BY <3>1
      <4> HIDE DEF v, last
      <4> QED
        BY <2>2, <4>1, <4>2
    <3>5. \E i \in DOMAIN turns : /\ turns[i].role = "user" /\ (q.hash # "none" => i \in prompts)
                                 /\ good(i, i + Len(w) - 1)
      <4> HIDE DEF good
      <4> QED
        BY <3>1, <3>2, <3>4
    <3> QED
      BY <3>5
  <2> QED
    BY <2>5, <2>6 DEF WindowIsTheFires, w, turns
<1> QED
  BY <1>1, QuestionsAsked, PTL

-----------------------------------------------------------------------------
(* The matches                                                             *)

\* Texts that follow each other are a text, which begins with the first.
LEMMA TextsJoin ==
  ASSUME NEW s, NEW t, IsText(s), IsText(t)
  PROVE  /\ s \o t \in Seq(WordsOf(s) \cup WordsOf(t))
         /\ Len(s) \in Nat /\ Len(s) <= Len(s \o t)
         /\ \A i \in 1..Len(s) : (s \o t)[i] = s[i]
<1> DEFINE W == WordsOf(s) \cup WordsOf(t)
<1>1. s \in Seq(W) /\ t \in Seq(W)
  BY SeqMonotonic DEF IsText
<1> HIDE DEF W
<1>2. Len(s) \in Nat /\ Len(t) \in Nat
  BY <1>1
<1>3. /\ s \o t \in Seq(W) /\ Len(s \o t) = Len(s) + Len(t)
      /\ \A i \in 1..(Len(s) + Len(t)) : (s \o t)[i] = IF i <= Len(s) THEN s[i] ELSE t[i - Len(s)]
  BY <1>1, ConcatProperties
<1>4. \A i \in 1..Len(s) : (s \o t)[i] = s[i]
  BY <1>2, <1>3
<1> QED
  BY <1>1, <1>2, <1>3, <1>4 DEF W

\* What is found in the beginning of a text is found in the text.
LEMMA FoundInLonger ==
  ASSUME NEW s, NEW t, IsText(s), IsText(t), NEW phrase, IsText(phrase), Finds(s, phrase)
  PROVE  Finds(s \o t, phrase)
<1> DEFINE c == s \o t
           n == Len(phrase)
<1>1. n \in Nat /\ DOMAIN phrase = 1..n
  BY DEF IsText
<1>2. /\ Len(s) \in Nat /\ Len(s) <= Len(c) /\ Len(c) \in Nat
      /\ \A i \in 1..Len(s) : c[i] = s[i]
  BY TextsJoin
<1> HIDE DEF c, n
<1>3. PICK i \in 0..(Len(s) - n) : \A k \in 1..n : Inside(phrase[k], s[i + k])
  BY <1>1 DEF Finds, n
<1>4. i \in 0..(Len(c) - n) /\ \A k \in 1..n : i + k \in 1..Len(s)
  BY <1>1, <1>2, <1>3
<1>5. \A k \in 1..n : Inside(phrase[k], c[i + k])
  BY <1>2, <1>3, <1>4
<1> QED
  BY <1>1, <1>4, <1>5 DEF Finds, c, n

\* A phrase whose words lie within the radius of a word is found in the window
\* around that word.
LEMMA FoundInWindow ==
  ASSUME NEW T, NEW text \in Seq(T), NEW i \in 1..Len(text), NEW radius \in Nat,
         NEW phrase, IsText(phrase), NEW k \in 0..Len(text), k + Len(phrase) <= Len(text),
         \A j \in DOMAIN phrase : /\ Inside(phrase[j], text[k + j])
                                  /\ k + j \in (i - radius)..(i + radius)
  PROVE  Finds(Window(text, i, radius), phrase)
<1> DEFINE m == Len(text)
           n == Len(phrase)
           lo == IF i > radius THEN i - radius ELSE 1
           hi == IF i + radius <= m THEN i + radius ELSE m
           w == SubSeq(text, lo, hi)
<1>1. /\ m \in Nat /\ n \in Nat /\ i \in Nat /\ 1 <= i /\ i <= m /\ k \in Nat /\ k + n <= m
      /\ DOMAIN phrase = 1..n
  BY DEF IsText
<1> HIDE DEF m, n
<1>2. lo \in Nat /\ hi \in Nat /\ 1 <= lo /\ lo <= i /\ i <= hi /\ hi <= m
  BY <1>1
<1>3. \A j \in 1..n : k + j \in lo..hi
  <2> SUFFICES ASSUME NEW j \in 1..n
               PROVE  k + j \in lo..hi
    OBVIOUS
  <2>1. k + j \in (i - radius)..(i + radius)
    BY <1>1
  <2>2. k + j \in 1..m
    BY <1>1
  <2> QED
    BY <1>1, <2>1, <2>2
<1>4. Window(text, i, radius) = w
  BY DEF Window, m
<1> HIDE DEF lo, hi
<1>5. /\ Len(w) = hi - lo + 1
      /\ \A p \in 1..(hi - lo + 1) : w[p] = text[lo + p - 1]
  <2>1. \A p \in lo..hi : text[p] \in T
    BY <1>1, <1>2 DEF m
  <2>2. /\ Len(w) = IF lo <= hi THEN hi - lo + 1 ELSE 0
        /\ \A p \in 1..(hi - lo + 1) : w[p] = text[lo + p - 1]
    BY <1>2, <2>1, SubSeqProperties
  <2> QED
    BY <1>2, <2>2
<1> HIDE DEF w
<1>6. CASE n = 0
  <2>1. 0 \in 0..(Len(w) - n) /\ DOMAIN phrase = {}
    BY <1>1, <1>2, <1>5, <1>6
  <2> QED
    BY <1>4, <2>1 DEF Finds, n
<1>7. CASE n # 0
  <2> DEFINE d == k + 1 - lo
  <2>1. k + 1 \in lo..hi /\ k + n \in lo..hi
    <3>1. 1 \in 1..n /\ n \in 1..n
      BY <1>1, <1>7
    <3> QED
      BY <1>3, <3>1
  <2>2. d \in 0..(Len(w) - n)
    BY <1>1, <1>2, <1>5, <2>1
  <2>3. ASSUME NEW j \in 1..n
        PROVE  Inside(phrase[j], w[d + j])
    <3>1. k + j \in lo..hi
      BY <1>3
    <3>2. d + j \in 1..(hi - lo + 1) /\ lo + (d + j) - 1 = k + j
      BY <1>1, <1>2, <3>1
    <3> HIDE DEF d
    <3>3. w[d + j] = text[k + j]
      BY <1>5, <3>2
    <3>4. Inside(phrase[j], text[k + j])
      BY <1>1
    <3> QED
      BY <3>3, <3>4
  <2> HIDE DEF d
  <2> QED
    BY <1>1, <1>4, <2>2, <2>3 DEF Finds, n
<1> QED
  BY <1>6, <1>7

\* What the property takes for an exclusion makes the context fire.
LEMMA ExclusionsFire ==
  ASSUME NEW x, NEW trigger, NEW p, IsText(p.text), IsText(p.toolInput),
         x.window \in Nat, \A q \in x.patterns : IsText(q), Excludes(x, trigger, p)
  PROVE  ContextFires(x, trigger, p)
<1> DEFINE c == Combined(p)
           T == WordsOf(p.text) \cup WordsOf(p.toolInput)
<1>1. c \in Seq(T) /\ DOMAIN c = 1..Len(c)
  <2>1. c \in Seq(T)
    BY TextsJoin DEF Combined
  <2> QED
    BY <2>1
<1>2. PICK q \in x.patterns :
        CASE x.scope = "near_trigger_span" -> NextToTrigger(q, x, trigger, p)
          [] x.scope = "tool_input_only" -> Finds(p.toolInput, q)
          [] OTHER -> Finds(p.text, q)
  BY DEF Excludes
<1>3. IsText(q)
  OBVIOUS
<1>4. CASE x.scope = "near_trigger_span"
  <2> HIDE DEF T
  <2>1. PICK i \in TriggerPositions(trigger, p), k \in 0..Len(c) :
           /\ k + Len(q) <= Len(c)
           /\ \A j \in DOMAIN q : Inside(q[j], c[k + j]) /\ k + j \in (i - x.window)..(i + x.window)
    BY <1>2, <1>4 DEF NextToTrigger
  <2>2. i \in 1..Len(c)
    BY <1>1 DEF TriggerPositions
  <2>3. Finds(Window(c, i, x.window), q)
    <3> HIDE DEF c
    <3> DEFINE r == x.window
    <3>1. r \in Nat
      OBVIOUS
    <3>2. \A j \in DOMAIN q : Inside(q[j], c[k + j]) /\ k + j \in (i - r)..(i + r)
      BY <2>1
    <3> HIDE DEF r
    <3>3. Finds(Window(c, i, r), q)
      BY <1>1, <1>3, <2>1, <2>2, <3>1, <3>2, FoundInWindow
    <3> QED
      BY <3>3 DEF r
  <2> QED
    BY <1>4, <2>3 DEF ContextFires, PatternIn
<1>5. CASE x.scope = "tool_input_only"
  BY <1>2, <1>5 DEF ContextFires, PatternIn
<1>6. CASE x.scope \notin {"near_trigger_span", "tool_input_only"}
  <2>1. Finds(p.text, q)
    BY <1>2, <1>6
  <2>2. Finds(c, q)
    BY <1>3, <2>1, FoundInLonger DEF Combined
  <2> QED
    BY <1>6, <2>1, <2>2 DEF ContextFires, PatternIn
<1> QED
  BY <1>4, <1>5, <1>6

\* A concept that holds in a prompt has an alias the prompt says.
LEMMA HeldIsSaid ==
  ASSUME NEW c, NEW p, ConceptHolds(c, p)
  PROVE  \E a \in c.aliases : Says(p, a.text)
<1>1. PICK a \in c.aliases : AliasMatches(a, c.mode, p)
  BY DEF ConceptHolds
<1>2. Says(p, a.text)
  BY <1>1 DEF AliasMatches, Says
<1> QED
  BY <1>2

\* A rule that requires its concepts is matched only if the prompt names all
\* that one of its groups requires.
LEMMA RequiredAreNamed ==
  ASSUME NEW trigger, NEW p, RequiredConceptsMatch(trigger, p)
  PROVE  \E g \in trigger.groups : Names(g, trigger, p)
<1>1. PICK g \in trigger.groups : g.allOf \subseteq SatisfiedConcepts(trigger, p)
  BY DEF RequiredConceptsMatch
<1>2. ASSUME NEW id \in g.allOf
      PROVE  \E c \in trigger.concepts : c.id = id /\ \E a \in c.aliases : Says(p, a.text)
  <2>1. PICK c \in trigger.concepts : ConceptHolds(c, p) /\ c.id = id
    BY <1>1 DEF SatisfiedConcepts
  <2> QED
    BY <2>1, HeldIsSaid
<1> QED
  BY <1>2 DEF Names

\* What is kept of a rule is not disqualified; what may gate has no excluded
\* context that fires.
LEMMA KeptIsQualified ==
  ASSUME NEW r, NEW hit, NEW p, NEW stats, ~r.old, EvaluateEvidence(r, hit, p, stats) # "dropped"
  PROVE  LET m == MatchOf(r, hit, p, stats) IN
         /\ ~Disqualified(m)
         /\ EvaluateEvidence(r, hit, p, stats) = "gate" => ~m.excluded
<1> DEFINE m == MatchOf(r, hit, p, stats)
           level == EvaluateApplicability(r, m)
<1> HIDE DEF m
<1>1. EvaluateEvidence(r, hit, p, stats)
        = IF ~HasTriggerData(r) THEN "dropped"
          ELSE IF ~Compiles(TriggerData(r)) THEN "dropped"
          ELSE IF level # "cold" THEN level
          ELSE IF r.status \in {"candidate", "suppressed"} /\ EvidencePassed(m) THEN "none"
          ELSE "dropped"
  BY DEF EvaluateEvidence, m
<1>2. level # "cold" => ~Disqualified(m)
  BY DEF EvaluateApplicability
<1>3. level = "gate" => ~m.excluded
  BY DEF EvaluateApplicability, ActiveLevel, TrustedLevel, MayGate
<1>4. EvidencePassed(m) => ~Disqualified(m)
  BY DEF EvidencePassed
<1> HIDE DEF level
<1>5. ~Disqualified(m) /\ (EvaluateEvidence(r, hit, p, stats) = "gate" => ~m.excluded)
  BY <1>1, <1>2, <1>3, <1>4
<1> QED
  BY <1>5 DEF m

\* One match, whatever the rule and the prompt.
LEMMA OneMatch ==
  ASSUME NEW r, NEW hit, NEW p, NEW stats, ~r.old, IsText(p.text), IsText(p.toolInput),
         \A x \in TriggerData(r).contexts : x.window \in Nat /\ \A q \in x.patterns : IsText(q)
  PROVE  LET trigger == TriggerData(r)
             level == EvaluateEvidence(r, hit, p, stats)
             against == {x \in trigger.contexts : Excludes(x, trigger, p)}
         IN /\ level # "dropped" =>
                 (\E g \in trigger.groups : Names(g, trigger, p)) /\ (\A x \in against : Overridden(x, p))
            /\ level = "gate" => against = {}
<1> DEFINE trigger == TriggerData(r)
           level == EvaluateEvidence(r, hit, p, stats)
           against == {x \in trigger.contexts : Excludes(x, trigger, p)}
           m == MatchOf(r, hit, p, stats)
<1>1. against \subseteq Fired(trigger, p)
  BY ExclusionsFire DEF Fired
<1>2. /\ m.concepts = RequiredConceptsMatch(trigger, p)
      /\ m.excluded = (Fired(trigger, p) # {})
      /\ m.override = OverridePassed(trigger, p)
  BY DEF MatchOf, EvaluateMatch
<1>3. level # "dropped" => ~Disqualified(m) /\ (level = "gate" => ~m.excluded)
  BY KeptIsQualified
<1> HIDE DEF trigger, level, against, m
<1>4. ASSUME level # "dropped"
      PROVE  (\E g \in trigger.groups : Names(g, trigger, p)) /\ (\A x \in against : Overridden(x, p))
  <2>1. RequiredConceptsMatch(trigger, p)
    BY <1>2, <1>3, <1>4 DEF Disqualified
  <2>2. Fired(trigger, p) = {} \/ OverridePassed(trigger, p)
    BY <1>2, <1>3, <1>4 DEF Disqualified
  <2>3. \A x \in against : Overridden(x, p)
    BY <1>1, <2>2 DEF OverridePassed
  <2> QED
    BY <2>1, <2>3, RequiredAreNamed
<1>5. ASSUME level = "gate"
      PROVE  against = {}
  <2>1. level # "dropped"
    BY <1>5
  <2>2. Fired(trigger, p) = {}
    BY <1>2, <1>3, <1>5, <2>1
  <2> QED
    BY <1>1, <2>2
<1>6. /\ level # "dropped" =>
           (\E g \in trigger.groups : Names(g, trigger, p)) /\ (\A x \in against : Overridden(x, p))
      /\ level = "gate" => against = {}
  BY <1>4, <1>5
<1> QED
  BY <1>6 DEF trigger, level, against

\* A rule with concepts reaches only a prompt that names what it requires and
\* says nothing it excludes: for rules, prompts and pools of any size
\* (evaluate_match with evaluate_applicability).
THEOREM OnlyTheTriggeredInject == Spec => []InjectsOnlyOnTrigger
<1>1. Questions => InjectsOnlyOnTrigger
  <2> SUFFICES ASSUME Questions, question.about = "match", ~question.rule.old
               PROVE  InjectsOnlyOnTrigger
    BY DEF InjectsOnlyOnTrigger
  <2> DEFINE r == question.rule
             p == question.prompt
  <2>1. /\ IsText(p.text) /\ IsText(p.toolInput) /\ ~r.old
        /\ \A x \in TriggerData(r).contexts : x.window \in Nat /\ \A q \in x.patterns : IsText(q)
    BY TextsAreSequences DEF Questions
  <2> QED
    BY <2>1, OneMatch DEF InjectsOnlyOnTrigger
<1> QED
  BY <1>1, QuestionsAsked, PTL

-----------------------------------------------------------------------------
(* The selection                                                           *)

\* A filter of a ranking is a ranking of what passes.
LEMMA FilterRanks ==
  ASSUME NEW T, NEW s \in Seq(T), NEW P \in SUBSET (1..Len(s)), IsRanking(s, T)
  PROVE  /\ IsRanking(Left(s, P), T) /\ Len(Left(s, P)) <= Len(s)
         /\ ToSet(Left(s, P)) = {s[i] : i \in P}
<1> DEFINE m == Cardinality(P)
           left == Left(s, P)
<1>1. s \in Seq(T) /\ DOMAIN s = 1..Len(s) /\ P \in SUBSET (1..Len(s))
  BY DEF IsRanking
<1>2. m \in Nat /\ m <= Len(s) /\ left \in Seq(T) /\ Len(left) = m
  BY <1>1, LeftInOrder
<1>3. PICK at : Places(at, s, P)
  BY LeftInOrder
<1> HIDE DEF left
<1>4. DOMAIN left = 1..m
  BY <1>2
<1>5. \A i, k \in DOMAIN left : left[i] = left[k] => i = k
  <2>1. \A i \in 1..m : left[i] = s[at[i]] /\ at[i] \in DOMAIN s
    BY <1>1, <1>3 DEF left, Places
  <2>2. \A i, k \in 1..m : at[i] = at[k] => i = k
    BY <1>3 DEF Places
  <2>3. \A i, k \in DOMAIN s : s[i] = s[k] => i = k
    BY DEF IsRanking
  <2> HIDE DEF m
  <2> QED
    BY <1>4, <2>1, <2>2, <2>3
<1>6. ToSet(left) = {s[i] : i \in P}
  <2>1. \A x : x \in ToSet(left) <=> \E k \in 1..m : left[k] = x
    BY <1>4 DEF ToSet
  <2>2. (\A k \in 1..m : at[k] \in P /\ left[k] = s[at[k]]) /\ \A i \in P : \E k \in 1..m : at[k] = i
    BY <1>3 DEF Places, left
  <2> HIDE DEF m
  <2>3. (\A k \in 1..m : \E i \in P : left[k] = s[i]) /\ \A i \in P : \E k \in 1..m : left[k] = s[i]
    <3>1. ASSUME NEW k \in 1..m
          PROVE  \E i \in P : left[k] = s[i]
      <4>1. at[k] \in P /\ left[k] = s[at[k]]
        BY <2>2
      <4> QED
        BY <4>1
    <3>2. ASSUME NEW i \in P
          PROVE  \E k \in 1..m : left[k] = s[i]
      <4>1. PICK k \in 1..m : at[k] = i
        BY <2>2
      <4>2. left[k] = s[i]
        BY <2>2, <4>1
      <4> QED
        BY <4>2
    <3> QED
      BY <3>1, <3>2
  <2> QED
    BY <2>1, <2>3
<1> QED
  BY <1>2, <1>5, <1>6 DEF IsRanking, left

\* Two rankings that share no rule, one after the other, are a ranking of both.
LEMMA JoinRanks ==
  ASSUME NEW T, NEW s, IsRanking(s, T), NEW t, IsRanking(t, T), ToSet(s) \cap ToSet(t) = {}
  PROVE  IsRanking(s \o t, T) /\ ToSet(s \o t) = ToSet(s) \cup ToSet(t)
<1> DEFINE a == Len(s)
           b == Len(t)
           both == s \o t
<1>1. /\ s \in Seq(T) /\ t \in Seq(T) /\ a \in Nat /\ b \in Nat /\ DOMAIN s = 1..a /\ DOMAIN t = 1..b
      /\ \A i, k \in 1..a : s[i] = s[k] => i = k
      /\ \A i, k \in 1..b : t[i] = t[k] => i = k
  BY DEF IsRanking
<1>2. /\ both \in Seq(T) /\ Len(both) = a + b /\ DOMAIN both = 1..(a + b)
      /\ \A i \in 1..(a + b) : both[i] = IF i <= a THEN s[i] ELSE t[i - a]
  <2>1. both \in Seq(T) /\ Len(both) = a + b
    BY <1>1, ConcatProperties
  <2>2. \A i \in 1..(a + b) : both[i] = IF i <= a THEN s[i] ELSE t[i - a]
    BY <1>1, ConcatProperties
  <2> HIDE DEF both, a, b
  <2> QED
    BY <2>1, <2>2
<1> HIDE DEF both, a, b
<1>3. \A i \in 1..a, k \in 1..b : s[i] # t[k]
  <2>1. (\A i \in 1..a : s[i] \in ToSet(s)) /\ \A k \in 1..b : t[k] \in ToSet(t)
    BY <1>1 DEF ToSet
  <2> QED
    BY <2>1
<1>4. \A i \in 1..(a + b) : (i \in 1..a /\ both[i] = s[i]) \/ (~(i \in 1..a) /\ i - a \in 1..b /\ both[i] = t[i - a])
  BY <1>1, <1>2
<1>5. \A i, k \in 1..(a + b) : both[i] = both[k] => i = k
  BY <1>1, <1>3, <1>4
<1>6. ToSet(both) = ToSet(s) \cup ToSet(t)
  <2>1. /\ \A x : x \in ToSet(both) <=> \E i \in 1..(a + b) : both[i] = x
        /\ \A x : x \in ToSet(s) <=> \E i \in 1..a : s[i] = x
        /\ \A x : x \in ToSet(t) <=> \E i \in 1..b : t[i] = x
    BY <1>1, <1>2 DEF ToSet
  <2>2. \A i \in 1..a : i \in 1..(a + b) /\ both[i] = s[i]
    BY <1>1, <1>2
  <2>3. \A i \in 1..b : i + a \in 1..(a + b) /\ both[i + a] = t[i]
    BY <1>1, <1>2
  <2>4. \A x : (\E i \in 1..(a + b) : both[i] = x) <=> (\E i \in 1..a : s[i] = x) \/ (\E i \in 1..b : t[i] = x)
    BY <1>4, <2>2, <2>3
  <2> QED
    BY <2>1, <2>4
<1> QED
  BY <1>2, <1>5, <1>6 DEF IsRanking, both

\* The best of a ranking are a ranking; the cut leaves a short one as it is.
LEMMA CutRanks ==
  ASSUME NEW T, NEW s, IsRanking(s, T)
  PROVE  /\ IsRanking(TopK(s), T) /\ ToSet(TopK(s)) \subseteq ToSet(s)
         /\ Len(s) <= TOP_K => ToSet(TopK(s)) = ToSet(s)
<1> DEFINE n == Len(s)
           len == IF n < TOP_K THEN n ELSE TOP_K
           top == TopK(s)
<1>1. s \in Seq(T) /\ n \in Nat /\ DOMAIN s = 1..n
  BY DEF IsRanking
<1>2. top = SubSeq(s, 1, len)
  BY DEF TopK, Best
<1> HIDE DEF n, top
<1>3. len \in Nat /\ len <= n /\ (n <= TOP_K => len = n)
  <2>1. TOP_K \in Nat
    BY ResultsAreTyped
  <2> QED
    BY <1>1, <2>1
<1> HIDE DEF len
<1>4. DOMAIN top = 1..len /\ top \in Seq(T) /\ \A i \in 1..len : i \in 1..n /\ top[i] = s[i]
  <2>1. \A i \in 1..len : s[i] \in T
    BY <1>1, <1>3
  <2>2. /\ top \in Seq(T) /\ Len(top) = (IF 1 <= len THEN len - 1 + 1 ELSE 0)
        /\ \A i \in 1..(len - 1 + 1) : top[i] = s[1 + i - 1]
    BY <1>2, <1>3, <2>1, SubSeqProperties
  <2>3. Len(top) = len
    BY <1>3, <2>2
  <2>4. \A i \in 1..len : i \in 1..n /\ i \in 1..(len - 1 + 1) /\ 1 + i - 1 = i
    BY <1>1, <1>3
  <2>5. DOMAIN top = 1..len
    BY <2>2, <2>3
  <2> QED
    BY <2>2, <2>4, <2>5
<1>5. \A i, k \in DOMAIN top : top[i] = top[k] => i = k
  BY <1>1, <1>4 DEF IsRanking
<1>6. ToSet(top) \subseteq ToSet(s) /\ (n <= TOP_K => ToSet(top) = ToSet(s))
  BY <1>1, <1>3, <1>4 DEF ToSet
<1> QED
  BY <1>4, <1>5, <1>6 DEF IsRanking, top, n

\* The score of a rule is a number, also when a ranking does not have it.
LEMMA RrfIsNumber ==
  ASSUME NEW s, Len(s) \in Nat, NEW x
  PROVE  RrfScore(s, x) \in Int
<1> DEFINE I == {i \in 1..Len(s) : s[i] = x}
           rank == SelectInSeq(s, LAMBDA y : y = x)
<1>1. rank = IF I # {} THEN Min(I) ELSE 0
  BY DEF SelectInSeq
<1>2. rank \in Nat
  <2>1. I \in SUBSET Nat
    OBVIOUS
  <2>2. CASE I # {}
    <3> HIDE DEF I, rank
    <3>1. Min(I) \in I
      BY <2>1, <2>2, LeastPosition
    <3> QED
      BY <1>1, <2>1, <2>2, <3>1
  <2>3. CASE I = {}
    <3> HIDE DEF I, rank
    <3> QED
      BY <1>1, <2>3
  <2> QED
    BY <2>2, <2>3
<1>3. RrfScore(s, x) = IF rank = 0 THEN 0 ELSE 1000000 \div (RRF_K + rank)
  BY DEF RrfScore
<1> HIDE DEF rank
<1>4. rank # 0 => 1000000 \div (60 + rank) \in Int
  BY <1>2
<1> QED
  BY <1>2, <1>3, <1>4 DEF RRF_K

\* Fusing two rankings ranks what either of them has.
LEMMA FuseRanks ==
  ASSUME NEW T, NEW words, IsRanking(words, T), NEW embeddings, IsRanking(embeddings, T)
  PROVE  /\ IsRanking(RrfFuse(words, embeddings), T)
         /\ ToSet(RrfFuse(words, embeddings)) = ToSet(words) \cup ToSet(embeddings)
<1> DEFINE P == {i \in DOMAIN embeddings : embeddings[i] \notin ToSet(words)}
           rest == Left(embeddings, P)
           all == words \o rest
           m == Len(all)
           score(i) == RrfScore(words, all[i]) + RrfScore(embeddings, all[i])
           row(i) == [rule |-> all[i], at |-> i, score |-> score(i)]
           found == {row(i) : i \in DOMAIN all}
           before(c, d) == c.score > d.score \/ (c.score = d.score /\ c.at < d.at)
           R == {p \in found \X found : before(p[1], p[2])}
           fused == Listed(found, R)
           result == [k \in DOMAIN all |-> fused[k].rule]
<1>1. RrfFuse(words, embeddings) = result
  BY DEF RrfFuse, Sorted, Keep
<1>2. /\ words \in Seq(T) /\ Len(words) \in Nat /\ embeddings \in Seq(T) /\ Len(embeddings) \in Nat
      /\ DOMAIN embeddings = 1..Len(embeddings)
  BY DEF IsRanking
<1>3. IsRanking(rest, T) /\ ToSet(rest) = {embeddings[i] : i \in P}
  <2>1. P \in SUBSET (1..Len(embeddings))
    BY <1>2
  <2> HIDE DEF P
  <2> QED
    BY <1>2, <2>1, FilterRanks
<1>4. ToSet(words) \cap ToSet(rest) = {} /\ ToSet(words) \cup ToSet(rest) = ToSet(words) \cup ToSet(embeddings)
  <2>1. /\ \A x : x \in ToSet(embeddings) <=> \E i \in DOMAIN embeddings : embeddings[i] = x
        /\ \A x : x \in ToSet(rest) <=> \E i \in P : embeddings[i] = x
    BY <1>3 DEF ToSet
  <2> HIDE DEF rest
  <2> QED
    BY <2>1
<1>5. IsRanking(all, T) /\ ToSet(all) = ToSet(words) \cup ToSet(embeddings)
  <2> HIDE DEF rest
  <2> QED
    BY <1>3, <1>4, JoinRanks
<1>6. /\ all \in Seq(T) /\ m \in Nat /\ DOMAIN all = 1..m
      /\ \A i, k \in 1..m : all[i] = all[k] => i = k
  <2> HIDE DEF all
  <2> QED
    BY <1>5 DEF IsRanking
<1> HIDE DEF all, m
<1>7. \A i \in 1..m : score(i) \in Int
  <2>1. \A x : RrfScore(words, x) \in Int /\ RrfScore(embeddings, x) \in Int
    BY <1>2, RrfIsNumber
  <2> QED
    BY <2>1
<1> HIDE DEF score
<1>8. /\ \A i \in 1..m : row(i).rule = all[i] /\ row(i).at = i /\ row(i).score = score(i)
      /\ \A c : c \in found <=> \E i \in 1..m : c = row(i)
  BY <1>6
<1>9. IsFiniteSet(found) /\ Cardinality(found) = m
  <2> DEFINE f == [i \in 1..m |-> row(i)]
  <2>1. f \in [1..m -> found] /\ \A i \in 1..m : f[i] = row(i)
    BY <1>8
  <2> HIDE DEF f, row, found
  <2>2. f \in Bijection(1..m, found)
    BY <1>8, <2>1 DEF Bijection, Injection, Surjection, IsInjective
  <2>3. IsFiniteSet(1..m) /\ Cardinality(1..m) = m
    BY <1>6, FS_Interval
  <2>4. ExistsBijection(1..m, found)
    BY <2>2 DEF ExistsBijection
  <2> QED
    BY <2>3, <2>4, FS_Bijection
<1>10. \A c \in found : c.at \in 1..m /\ c.rule = all[c.at] /\ c.score \in Int /\ c = row(c.at)
  <2> HIDE DEF row, found
  <2> QED
    BY <1>7, <1>8
<1>11. Orders(R, found)
  <2> HIDE DEF found, row
  <2>1. \A c, d \in found : <<c, d>> \in R <=> before(c, d)
    OBVIOUS
  <2>2. \A c, d \in found : c.at = d.at => c = d
    BY <1>10
  <2>3. \A c \in found : c.at \in Int /\ c.score \in Int
    BY <1>10
  <2> HIDE DEF R
  <2>4. \A c \in found : ~before(c, c)
    BY <2>3
  <2>5. \A c, d \in found : c.at = d.at \/ before(c, d) \/ before(d, c)
    BY <2>3
  <2>6. \A c, d, e \in found : before(c, d) /\ before(d, e) => before(c, e)
    BY <2>3
  <2> HIDE DEF before
  <2> QED
    BY <2>1, <2>2, <2>4, <2>5, <2>6 DEF Orders
<1> HIDE DEF found, row, R
<1>12. /\ fused \in [1..m -> found]
       /\ \A i, k \in 1..m : fused[i] = fused[k] => i = k
       /\ \A c \in found : \E i \in 1..m : fused[i] = c
  BY <1>9, <1>11, ListedInOrder
<1> HIDE DEF fused
<1>13. DOMAIN result = 1..m /\ \A k \in 1..m : result[k] = fused[k].rule /\ result[k] = all[fused[k].at]
  BY <1>6, <1>10, <1>12
<1>14. \A k \in 1..m : result[k] \in T
  BY <1>6, <1>10, <1>12, <1>13
<1> HIDE DEF result
<1>15. result \in Seq(T)
  <2>1. result = [k \in 1..m |-> result[k]]
    <3> USE DEF result
    <3> QED
      BY <1>6
  <2> QED
    BY <1>6, <1>14, <2>1
<1>16. \A i, k \in 1..m : result[i] = result[k] => i = k
  <2> SUFFICES ASSUME NEW i \in 1..m, NEW k \in 1..m, result[i] = result[k]
               PROVE  i = k
    OBVIOUS
  <2>1. fused[i] \in found /\ fused[k] \in found
    BY <1>12
  <2>2. fused[i].at = fused[k].at
    BY <1>6, <1>10, <1>13, <2>1
  <2>3. fused[i] = fused[k]
    BY <1>10, <2>1, <2>2
  <2> QED
    BY <1>12, <2>3
<1>17. ToSet(result) = ToSet(all)
  <2>1. \A x : x \in ToSet(result) <=> \E i \in 1..m : result[i] = x
    BY <1>13 DEF ToSet
  <2>2. \A x : x \in ToSet(all) <=> \E i \in 1..m : all[i] = x
    BY <1>6 DEF ToSet
  <2>3. \A i \in 1..m : \E k \in 1..m : result[k] = all[i]
    BY <1>8, <1>12, <1>13
  <2>4. \A k \in 1..m : \E i \in 1..m : result[k] = all[i]
    BY <1>10, <1>12, <1>13
  <2> QED
    BY <2>1, <2>2, <2>3, <2>4
<1> QED
  BY <1>1, <1>5, <1>13, <1>15, <1>16, <1>17 DEF IsRanking

\* The results of some rules.
ResultsOf(result, X) == {result[x] : x \in X}

\* The rules of a set that two rankings have and that may be selected.
Shown(words, embeddings, known, result, of) ==
  {x \in of \cap (ToSet(words) \cup ToSet(embeddings)) :
     result[x].level # "dropped" /\ ~EmbeddingOnly(words, known, x)}

\* What is eligible is the results of those rules, each once.
LEMMA EligibleRanks ==
  ASSUME NEW n \in Nat, NEW result, AreResults(result, n), NEW known,
         NEW words, IsRanking(words, 1..n), NEW embeddings, IsRanking(embeddings, 1..n)
  PROVE  /\ IsRanking(Eligible(words, embeddings, known, result), ResultsOf(result, 1..n))
         /\ ToSet(Eligible(words, embeddings, known, result)) =
              ResultsOf(result, Shown(TopK(words), TopK(embeddings), known, result, 1..n))
<1> DEFINE W == TopK(words)
           E == TopK(embeddings)
           fused == RrfFuse(W, E)
           may(x) == result[x].level # "dropped" /\ ~EmbeddingOnly(W, known, x)
           P == {i \in DOMAIN fused : may(fused[i])}
           kept == Left(fused, P)
           elig == [k \in DOMAIN kept |-> result[kept[k]]]
           U == ResultsOf(result, 1..n)
<1>1. Eligible(words, embeddings, known, result) = elig
  BY DEF Eligible, Keep
<1>2. IsRanking(W, 1..n) /\ IsRanking(E, 1..n)
  BY CutRanks
<1> HIDE DEF W, E
<1>3. IsRanking(fused, 1..n) /\ ToSet(fused) = ToSet(W) \cup ToSet(E)
  BY <1>2, FuseRanks
<1> HIDE DEF fused
<1>4. /\ fused \in Seq(1..n) /\ DOMAIN fused = 1..Len(fused)
      /\ P \in SUBSET (1..Len(fused))
  BY <1>3 DEF IsRanking
<1>5. IsRanking(kept, 1..n) /\ ToSet(kept) = {fused[i] : i \in P}
  <2> HIDE DEF P
  <2> QED
    BY <1>3, <1>4, FilterRanks
<1>6. /\ \A x : x \in ToSet(kept) <=> \E i \in DOMAIN fused : fused[i] = x /\ may(x)
      /\ \A x : x \in ToSet(fused) <=> \E i \in DOMAIN fused : fused[i] = x
  <2>1. \A x : x \in {fused[i] : i \in P} <=> \E i \in DOMAIN fused : fused[i] = x /\ may(x)
    <3> HIDE DEF may
    <3> QED
      OBVIOUS
  <2> HIDE DEF P, kept, may
  <2> QED
    BY <1>5, <2>1 DEF ToSet
<1>7. /\ kept \in Seq(1..n) /\ Len(kept) \in Nat /\ DOMAIN kept = 1..Len(kept)
      /\ \A i, k \in DOMAIN kept : kept[i] = kept[k] => i = k
  <2> HIDE DEF kept
  <2> QED
    BY <1>5 DEF IsRanking
<1>8. \A x, y \in 1..n : result[x] = result[y] => x = y
  BY DEF AreResults
<1> HIDE DEF kept
<1>9. \A k \in DOMAIN kept : kept[k] \in 1..n /\ elig[k] = result[kept[k]] /\ elig[k] \in U
  BY <1>7 DEF ResultsOf
<1>10. elig \in Seq(U) /\ DOMAIN elig = DOMAIN kept
  <2>1. elig \in [1..Len(kept) -> U]
    BY <1>7, <1>9
  <2> HIDE DEF elig, U
  <2> QED
    BY <1>7, <2>1
<1> HIDE DEF elig
<1>11. \A i, k \in DOMAIN elig : elig[i] = elig[k] => i = k
  <2> SUFFICES ASSUME NEW i \in DOMAIN kept, NEW k \in DOMAIN kept, elig[i] = elig[k]
               PROVE  i = k
    BY <1>10
  <2>1. kept[i] = kept[k]
    BY <1>8, <1>9
  <2> QED
    BY <1>7, <2>1
<1>12. ToSet(elig) = ResultsOf(result, Shown(W, E, known, result, 1..n))
  <2>1. \A x : x \in Shown(W, E, known, result, 1..n) <=> x \in 1..n /\ x \in ToSet(fused) /\ may(x)
    BY <1>3 DEF Shown
  <2>2. \A x : x \in ToSet(kept) <=> x \in ToSet(fused) /\ may(x)
    <3> HIDE DEF may
    <3> QED
      BY <1>6
  <2> HIDE DEF may
  <2>3. \A x : x \in ToSet(kept) <=> \E k \in DOMAIN kept : kept[k] = x
    BY DEF ToSet
  <2>4. \A r : r \in ToSet(elig) <=> \E k \in DOMAIN kept : r = result[kept[k]]
    <3>1. \A r : r \in ToSet(elig) <=> \E k \in DOMAIN kept : r = elig[k]
      BY <1>10 DEF ToSet
    <3> QED
      BY <1>9, <3>1
  <2>5. \A x : x \in Shown(W, E, known, result, 1..n) <=> \E k \in DOMAIN kept : kept[k] = x
    BY <1>9, <2>1, <2>2, <2>3
  <2> QED
    BY <2>4, <2>5 DEF ResultsOf
<1> QED
  BY <1>1, <1>10, <1>11, <1>12 DEF IsRanking, W, E

\* The results of the formal rules.
FormalAmong(S, formal) == {r \in S : r.rule \in formal}

\* The results of the formal rules that two rankings have.
FormalPart(words, embeddings, known, result, formal) ==
  LET elig == Eligible(words, embeddings, known, result)
  IN Left(elig, {i \in DOMAIN elig : elig[i].rule \in formal})

\* They are what the rankings show of the formal rules.
LEMMA PartRanks ==
  ASSUME NEW n \in Nat, NEW result, AreResults(result, n), NEW known, NEW formal,
         NEW words, IsRanking(words, 1..n), NEW embeddings, IsRanking(embeddings, 1..n)
  PROVE  LET part == FormalPart(words, embeddings, known, result, formal) IN
         /\ IsRanking(part, ResultsOf(result, 1..n))
         /\ ToSet(part) = FormalAmong(ToSet(Eligible(words, embeddings, known, result)), formal)
         /\ ToSet(part) = ResultsOf(result, Shown(TopK(words), TopK(embeddings), known, result, (1..n) \cap formal))
<1> DEFINE elig == Eligible(words, embeddings, known, result)
           P == {i \in DOMAIN elig : elig[i].rule \in formal}
           part == Left(elig, P)
           U == ResultsOf(result, 1..n)
           W == TopK(words)
           E == TopK(embeddings)
<1>1. IsRanking(elig, U) /\ ToSet(elig) = ResultsOf(result, Shown(W, E, known, result, 1..n))
  BY EligibleRanks
<1> HIDE DEF elig, W, E
<1>2. elig \in Seq(U) /\ P \in SUBSET (1..Len(elig))
  BY <1>1 DEF IsRanking
<1>3. IsRanking(part, U) /\ ToSet(part) = {elig[i] : i \in P}
  <2> HIDE DEF P, U
  <2> QED
    BY <1>1, <1>2, FilterRanks
<1>4. ToSet(part) = {r \in ToSet(elig) : r.rule \in formal}
  <2>1. {elig[i] : i \in P} = {r \in ToSet(elig) : r.rule \in formal}
    BY DEF ToSet
  <2> QED
    BY <1>3, <2>1
<1>5. {r \in ToSet(elig) : r.rule \in formal} = ResultsOf(result, Shown(W, E, known, result, (1..n) \cap formal))
  <2> DEFINE A == Shown(W, E, known, result, 1..n)
             B == Shown(W, E, known, result, (1..n) \cap formal)
  <2>1. \A x : x \in B <=> x \in A /\ x \in formal
    BY DEF Shown
  <2>2. \A x \in A : result[x].rule = x
    BY DEF Shown, AreResults
  <2>3. \A r : r \in ToSet(elig) <=> \E x \in A : r = result[x]
    BY <1>1 DEF ResultsOf
  <2> HIDE DEF A, B
  <2>4. \A r : r \in ToSet(elig) /\ r.rule \in formal <=> \E x \in B : r = result[x]
    BY <2>1, <2>2, <2>3
  <2>5. {r \in ToSet(elig) : r.rule \in formal} = {result[x] : x \in B}
    BY <2>4
  <2> QED
    BY <2>5 DEF B, ResultsOf
<1> QED
  BY <1>3, <1>4, <1>5 DEF FormalPart, FormalAmong, elig, W, E

\* Sorting by utility ranks the same results, the best first.
LEMMA SortRanks ==
  ASSUME NEW U, \A r \in U : r.utility \in Int, NEW s, IsRanking(s, U)
  PROVE  LET sorted == ByUtility(s) IN
         /\ IsRanking(sorted, U) /\ ToSet(sorted) = ToSet(s)
         /\ Len(s) \in Nat /\ DOMAIN s = 1..Len(s) /\ DOMAIN sorted = 1..Len(s) /\ Len(sorted) = Len(s)
         /\ \A i, k \in 1..Len(s) : i <= k => sorted[i].utility >= sorted[k].utility
<1> DEFINE m == Len(s)
           S == DOMAIN s
           before(i, j) == \/ s[i].utility > s[j].utility
                           \/ s[i].utility = s[j].utility /\ i < j
           R == {p \in S \X S : before(p[1], p[2])}
           order == Listed(S, R)
           sorted == [k \in S |-> s[order[k]]]
<1>1. ByUtility(s) = sorted
  BY DEF ByUtility, Sorted
<1>2. /\ s \in Seq(U) /\ m \in Nat /\ S = 1..m
      /\ \A i, k \in S : s[i] = s[k] => i = k
  BY DEF IsRanking
<1> HIDE DEF m
<1>3. \A i \in S : s[i] \in U /\ s[i].utility \in Int /\ i \in Int
  BY <1>2
<1>4. IsFiniteSet(S) /\ Cardinality(S) = m
  BY <1>2, FS_Interval
<1> HIDE DEF S
<1>5. \A i, k \in S : <<i, k>> \in R <=> before(i, k)
  OBVIOUS
<1> HIDE DEF R
<1>6. Orders(R, S)
  <2>1. \A i \in S : ~before(i, i)
    BY <1>3
  <2>2. \A i, k \in S : i = k \/ before(i, k) \/ before(k, i)
    BY <1>3
  <2>3. \A i, k, l \in S : before(i, k) /\ before(k, l) => before(i, l)
    BY <1>3
  <2> HIDE DEF before
  <2> QED
    BY <1>5, <2>1, <2>2, <2>3 DEF Orders
<1>7. /\ order \in [1..m -> S]
      /\ \A i, k \in 1..m : i < k => <<order[i], order[k]>> \in R
      /\ \A i, k \in 1..m : order[i] = order[k] => i = k
      /\ \A x \in S : \E i \in 1..m : order[i] = x
  BY <1>4, <1>6, ListedInOrder
<1> HIDE DEF order
<1>8. \A k \in 1..m : order[k] \in S /\ sorted[k] = s[order[k]] /\ sorted[k] \in U
  BY <1>2, <1>3, <1>7
<1>9. sorted \in Seq(U) /\ Len(sorted) = m /\ DOMAIN sorted = 1..m
  <2>1. sorted \in [1..m -> U]
    BY <1>2, <1>8
  <2> HIDE DEF sorted
  <2> QED
    BY <1>2, <2>1
<1> HIDE DEF sorted
<1>10. \A i, k \in 1..m : sorted[i] = sorted[k] => i = k
  <2> SUFFICES ASSUME NEW i \in 1..m, NEW k \in 1..m, sorted[i] = sorted[k]
               PROVE  i = k
    OBVIOUS
  <2>1. order[i] = order[k]
    BY <1>2, <1>8
  <2> QED
    BY <1>7, <2>1
<1>11. ToSet(sorted) = ToSet(s)
  <2>1. \A x : x \in ToSet(sorted) <=> \E k \in 1..m : sorted[k] = x
    BY <1>9 DEF ToSet
  <2>2. \A x : x \in ToSet(s) <=> \E i \in S : s[i] = x
    BY DEF ToSet, S
  <2>3. \A i \in S : \E k \in 1..m : sorted[k] = s[i]
    BY <1>7, <1>8
  <2>4. \A k \in 1..m : \E i \in S : sorted[k] = s[i]
    BY <1>8
  <2> QED
    BY <2>1, <2>2, <2>3, <2>4
<1>12. ASSUME NEW i \in 1..m, NEW k \in 1..m, i <= k
       PROVE  sorted[i].utility >= sorted[k].utility
  <2>1. CASE i = k
    BY <1>3, <1>8, <2>1
  <2>2. CASE i < k
    <3>1. before(order[i], order[k])
      BY <1>5, <1>7, <1>8, <2>2
    <3>2. s[order[i]].utility >= s[order[k]].utility
      BY <1>3, <1>8, <3>1
    <3> QED
      BY <1>8, <3>2
  <2>3. i \in Int /\ k \in Int
    BY <1>2
  <2> QED
    BY <1>12, <2>1, <2>2, <2>3
<1> QED
  BY <1>1, <1>2, <1>9, <1>10, <1>11, <1>12 DEF IsRanking, m, S

\* Where no two results are worth the same the order of a list does not matter.
LEMMA SameOrder ==
  ASSUME NEW U, \A r \in U : r.utility \in Int, NEW s, IsRanking(s, U), NEW t, IsRanking(t, U),
         ToSet(s) = ToSet(t), \A q, r \in ToSet(s) : q.utility = r.utility => q = r
  PROVE  Len(s) = Len(t) /\ ByUtility(s) = ByUtility(t)
<1> DEFINE S == ToSet(s)
           a == ByUtility(s)
           b == ByUtility(t)
           m == Len(s)
<1>1. /\ IsRanking(a, U) /\ ToSet(a) = S /\ m \in Nat /\ DOMAIN s = 1..m /\ DOMAIN a = 1..m
      /\ \A i, k \in 1..m : i <= k => a[i].utility >= a[k].utility
  BY SortRanks
<1>2. /\ IsRanking(b, U) /\ ToSet(b) = S /\ Len(t) \in Nat /\ DOMAIN t = 1..Len(t) /\ DOMAIN b = 1..Len(t)
      /\ \A i, k \in 1..Len(t) : i <= k => b[i].utility >= b[k].utility
  BY SortRanks
<1>3. ASSUME NEW u, IsRanking(u, U), ToSet(u) = S, Len(u) \in Nat, DOMAIN u = 1..Len(u)
      PROVE  Cardinality(S) = Len(u)
  <2>1. u \in Bijection(1..Len(u), S)
    <3>1. u \in [1..Len(u) -> S]
      <4>1. u = [i \in 1..Len(u) |-> u[i]]
        BY <1>3 DEF IsRanking
      <4>2. \A i \in 1..Len(u) : u[i] \in ToSet(u)
        BY <1>3 DEF ToSet
      <4> QED
        BY <1>3, <4>1, <4>2
    <3>2. \A x \in S : \E i \in 1..Len(u) : u[i] = x
      BY <1>3 DEF ToSet
    <3>3. \A i, k \in 1..Len(u) : u[i] = u[k] => i = k
      BY <1>3 DEF IsRanking
    <3> HIDE DEF S
    <3> QED
      BY <3>1, <3>2, <3>3 DEF Bijection, Injection, Surjection, IsInjective
  <2>2. ExistsBijection(1..Len(u), S)
    BY <2>1 DEF ExistsBijection
  <2>3. IsFiniteSet(1..Len(u)) /\ Cardinality(1..Len(u)) = Len(u)
    <3> DEFINE l == Len(u)
    <3>1. l \in Nat
      BY <1>3
    <3> HIDE DEF l
    <3>2. IsFiniteSet(1..l) /\ Cardinality(1..l) = l
      BY <3>1, FS_Interval
    <3> QED
      BY <3>2 DEF l
  <2> QED
    BY <2>2, <2>3, FS_Bijection
<1>4. Len(t) = m
  <2>1. Cardinality(S) = Len(s)
    BY <1>1, <1>3
  <2>2. Cardinality(S) = Len(t)
    BY <1>2, <1>3
  <2> QED
    BY <2>1, <2>2
<1> HIDE DEF a, b, m, S
<1>5. /\ \A i \in 1..m : a[i] \in S /\ b[i] \in S
      /\ \A x \in S : (\E i \in 1..m : a[i] = x) /\ \E i \in 1..m : b[i] = x
      /\ \A i, k \in 1..m : (a[i] = a[k] => i = k) /\ (b[i] = b[k] => i = k)
      /\ \A x \in S : x.utility \in Int
      /\ \A i, k \in 1..m : i <= k => a[i].utility >= a[k].utility /\ b[i].utility >= b[k].utility
  <2>1. \A i \in 1..m : a[i] \in S /\ b[i] \in S
    BY <1>1, <1>2, <1>4 DEF ToSet
  <2>2. \A x \in S : (\E i \in 1..m : a[i] = x) /\ \E i \in 1..m : b[i] = x
    BY <1>1, <1>2, <1>4 DEF ToSet
  <2>3. \A i, k \in 1..m : (a[i] = a[k] => i = k) /\ (b[i] = b[k] => i = k)
    BY <1>1, <1>2, <1>4 DEF IsRanking
  <2>4. \A i \in 1..m : a[i] \in U
    BY <1>1 DEF IsRanking
  <2>5. \A x \in S : x.utility \in Int
    BY <2>2, <2>4
  <2>6. \A i, k \in 1..m : i <= k => a[i].utility >= a[k].utility /\ b[i].utility >= b[k].utility
    BY <1>1, <1>2, <1>4
  <2> QED
    BY <2>1, <2>2, <2>3, <2>5, <2>6
<1>6. \A i \in 1..m : a[i] = b[i]
  <2> DEFINE D == {i \in 1..m : a[i] # b[i]}
  <2> SUFFICES ASSUME D # {}
               PROVE  FALSE
    OBVIOUS
  <2> DEFINE d == Min(D)
  <2>1. D \in SUBSET Nat
    OBVIOUS
  <2>2. d \in D /\ \A k \in D : d <= k
    BY <2>1, LeastPosition
  <2> HIDE DEF d
  <2>3. d \in 1..m /\ a[d] # b[d] /\ \A i \in 1..m : i < d => a[i] = b[i]
    BY <2>2
  <2> HIDE DEF D
  <2>4. PICK i \in 1..m : a[i] = b[d]
    BY <1>5, <2>3
  <2>5. PICK k \in 1..m : b[k] = a[d]
    BY <1>5, <2>3
  <2>6. d <= i /\ d <= k
    BY <1>5, <2>3, <2>4, <2>5
  <2>7. a[d].utility >= b[d].utility /\ b[d].utility >= a[d].utility
    BY <1>5, <2>3, <2>4, <2>5, <2>6
  <2>8. a[d].utility = b[d].utility
    <3>1. a[d].utility \in Int /\ b[d].utility \in Int
      BY <1>5, <2>3
    <3> QED
      BY <2>7, <3>1
  <2> QED
    BY <1>5, <2>3, <2>8 DEF S
<1>7. a = b
  <2>1. a = [i \in 1..m |-> a[i]] /\ b = [i \in 1..m |-> b[i]]
    BY <1>1, <1>2, <1>4 DEF IsRanking
  <2> QED
    BY <1>6, <2>1
<1> QED
  BY <1>4, <1>7 DEF a, b, m

\* The positions of what may be the first hot rule.
MayLead(results) ==
  LET sorted == ByUtility(results) IN
  {i \in 1..Len(sorted) : MayBeHot(results, sorted[i]) /\ ComputeUtility(sorted[i], {}) > 0}

\* The positions of what may be the second one.
MayFollow(results, one) ==
  LET sorted == ByUtility(results) IN
  {i \in 1..Len(sorted) :
     /\ sorted[i] # sorted[one] /\ MayBeHot(results, sorted[i])
     /\ ComputeUtility(sorted[i], {sorted[one]}) > 0
     /\ HasDistinctDomain(sorted[i], {sorted[one]})
     /\ sorted[i].strong \/ sorted[i].level = "gate"}

\* The hot rules in these words.
LEMMA HotAt ==
  ASSUME NEW results
  PROVE  LET sorted == ByUtility(results)
             one == IF MayLead(results) # {} THEN Min(MayLead(results)) ELSE 0
             two == IF MayFollow(results, one) # {} THEN Min(MayFollow(results, one)) ELSE 0
         IN Hot(results) = IF one = 0 THEN {} ELSE {sorted[one]} \cup (IF two = 0 THEN {} ELSE {sorted[two]})
  BY DEF Hot, SecondHot, SelectInSeq, MayLead, MayFollow

\* The hot rules are of the results, and as good as any that may be hot.
LEMMA HotIsBest ==
  ASSUME NEW U, \A r \in U : r.utility \in Int, NEW s, IsRanking(s, U)
  PROVE  /\ Hot(s) \subseteq ToSet(s)
         /\ \A r \in ToSet(s) : Worth(r) => \E q \in Hot(s) : Worth(q) /\ q.utility >= r.utility
<1> DEFINE sorted == ByUtility(s)
           m == Len(s)
           I == MayLead(s)
           one == IF I # {} THEN Min(I) ELSE 0
           J == MayFollow(s, one)
           two == IF J # {} THEN Min(J) ELSE 0
<1>1. /\ ToSet(sorted) = ToSet(s) /\ m \in Nat /\ DOMAIN s = 1..m /\ DOMAIN sorted = 1..m /\ Len(sorted) = m
      /\ \A i, k \in 1..m : i <= k => sorted[i].utility >= sorted[k].utility
      /\ \A i \in 1..m : sorted[i].utility \in Int
  <2>1. IsRanking(sorted, U)
    BY SortRanks
  <2>2. /\ ToSet(sorted) = ToSet(s) /\ m \in Nat /\ DOMAIN s = 1..m /\ DOMAIN sorted = 1..m /\ Len(sorted) = m
        /\ \A i, k \in 1..m : i <= k => sorted[i].utility >= sorted[k].utility
    BY SortRanks
  <2> HIDE DEF m, sorted
  <2>3. \A i \in 1..m : sorted[i] \in U
    BY <2>1, <2>2 DEF IsRanking
  <2> QED
    BY <2>2, <2>3
<1>2. Hot(s) = IF one = 0 THEN {} ELSE {sorted[one]} \cup (IF two = 0 THEN {} ELSE {sorted[two]})
  BY HotAt
<1>3. I \in SUBSET (1..m) /\ J \in SUBSET (1..m)
  <2>1. I \in SUBSET (1..m)
    BY <1>1 DEF MayLead
  <2>2. J \in SUBSET (1..m)
    BY <1>1 DEF MayFollow
  <2> QED
    BY <2>1, <2>2
<1>4. \A i \in I : MayBeHot(s, sorted[i]) /\ ComputeUtility(sorted[i], {}) > 0
  BY DEF MayLead
<1>5. \A i \in 1..m : MayBeHot(s, sorted[i]) /\ ComputeUtility(sorted[i], {}) > 0 => i \in I
  BY <1>1 DEF MayLead
<1> HIDE DEF sorted, m, I, J
<1>6. /\ I = {} => one = 0
      /\ I # {} => one \in I /\ one \in 1..m /\ one # 0 /\ \A i \in I : one <= i
      /\ two = 0 \/ two \in 1..m
  <2>1. I \in SUBSET Nat /\ J \in SUBSET Nat
    BY <1>1, <1>3
  <2>2. I # {} => Min(I) \in I /\ \A i \in I : Min(I) <= i
    BY <2>1, LeastPosition
  <2>3. J # {} => Min(J) \in J
    BY <2>1, LeastPosition
  <2>4. (I = {} => one = 0) /\ (I # {} => one = Min(I)) /\ (J = {} => two = 0) /\ (J # {} => two = Min(J))
    OBVIOUS
  <2> HIDE DEF one, two
  <2>5. \A i \in 1..m : i # 0
    BY <1>1
  <2> QED
    BY <1>3, <2>2, <2>3, <2>4, <2>5
<1> HIDE DEF one, two
<1>7. /\ \A i \in 1..m : sorted[i] \in ToSet(s)
      /\ \A r \in ToSet(s) : \E i \in 1..m : sorted[i] = r
  BY <1>1 DEF ToSet
<1>8. Hot(s) \subseteq ToSet(s)
  BY <1>2, <1>6, <1>7
<1>9. ASSUME NEW r \in ToSet(s), Worth(r)
      PROVE  \E q \in Hot(s) : Worth(q) /\ q.utility >= r.utility
  <2>1. PICK i \in 1..m : sorted[i] = r
    BY <1>7
  <2>2. \A k \in 1..m : ComputeUtility(sorted[k], {}) = sorted[k].utility
    BY <1>1 DEF ComputeUtility
  <2>3. i \in I
    BY <1>5, <1>9, <2>1, <2>2 DEF MayBeHot, Worth
  <2>4. one \in I /\ one \in 1..m /\ one <= i /\ sorted[one] \in Hot(s)
    BY <1>2, <1>6, <2>3
  <2>5. \E k \in DOMAIN s : s[k].level # "none"
    BY <1>9 DEF ToSet, Worth
  <2>6. Worth(sorted[one])
    BY <1>4, <2>2, <2>4, <2>5 DEF Worth, MayBeHot
  <2>7. sorted[one].utility >= r.utility
    BY <1>1, <2>1, <2>4
  <2> QED
    BY <2>4, <2>6, <2>7
<1> QED
  BY <1>8, <1>9

\* Where no two results are worth the same the same ones are hot.
LEMMA SameHot ==
  ASSUME NEW s, NEW t, ByUtility(s) = ByUtility(t), ToSet(s) = ToSet(t)
  PROVE  Hot(s) = Hot(t) /\ \A r : MayBeHot(s, r) <=> MayBeHot(t, r)
<1>1. \A r : MayBeHot(s, r) <=> MayBeHot(t, r)
  <2>1. /\ (\E i \in DOMAIN s : s[i].level # "none") <=> \E r \in ToSet(s) : r.level # "none"
        /\ (\E i \in DOMAIN t : t[i].level # "none") <=> \E r \in ToSet(t) : r.level # "none"
    BY DEF ToSet
  <2> QED
    BY <2>1 DEF MayBeHot
<1>2. MayLead(s) = MayLead(t)
  <2> DEFINE a == ByUtility(s)
  <2>1. /\ \A i : i \in MayLead(s) <=> i \in 1..Len(a) /\ MayBeHot(s, a[i]) /\ ComputeUtility(a[i], {}) > 0
        /\ \A i : i \in MayLead(t) <=> i \in 1..Len(a) /\ MayBeHot(t, a[i]) /\ ComputeUtility(a[i], {}) > 0
    BY DEF MayLead
  <2> QED
    BY <1>1, <2>1
<1>3. \A one : MayFollow(s, one) = MayFollow(t, one)
  <2> SUFFICES ASSUME NEW one
               PROVE  MayFollow(s, one) = MayFollow(t, one)
    OBVIOUS
  <2> DEFINE a == ByUtility(s)
             other(i) == /\ ComputeUtility(a[i], {a[one]}) > 0
                         /\ HasDistinctDomain(a[i], {a[one]})
                         /\ a[i].strong \/ a[i].level = "gate"
  <2>1. /\ \A i : i \in MayFollow(s, one) <=> i \in 1..Len(a) /\ a[i] # a[one] /\ MayBeHot(s, a[i]) /\ other(i)
        /\ \A i : i \in MayFollow(t, one) <=> i \in 1..Len(a) /\ a[i] # a[one] /\ MayBeHot(t, a[i]) /\ other(i)
    BY DEF MayFollow
  <2> HIDE DEF other
  <2> QED
    BY <1>1, <2>1
<1> QED
  BY <1>1, <1>2, <1>3, HotAt

\* f is what has been picked after each of the sorted results.
WarmRun(f, s, hot, budget) ==
  /\ f[0] = [warm |-> <<>>, chars |-> 0, last |-> 0]
  /\ \A k \in 1..Len(s) : f[k] = NextWarm(s, hot, budget, f[k - 1], ByUtility(s)[k])

\* There is such a run, and the warm rules are what it has at its end.
LEMMA WarmRuns ==
  ASSUME NEW s, Len(s) \in Nat, NEW hot, NEW budget
  PROVE  \E f : WarmRun(f, s, hot, budget) /\ Warm(s, hot, budget) = f[Len(s)].warm
<1> DEFINE n == Len(s)
           none == [warm |-> <<>>, chars |-> 0, last |-> 0]
           next(acc, k) == NextWarm(s, hot, budget, acc, ByUtility(s)[k])
           Runs(f, m) == f = [k \in 0..m |-> IF k = 0 THEN none ELSE next(f[k - 1], k)]
           Bad == {m \in 0..n : \A f : ~Runs(f, m)}
           picked == CHOOSE f : Runs(f, n)
<1>1. Warm(s, hot, budget) = picked[n].warm
  BY DEF Warm
<1>2. n \in Nat
  OBVIOUS
<1> HIDE DEF n, none, next
<1>3. Bad = {}
  <2> SUFFICES ASSUME Bad # {}
               PROVE  FALSE
    OBVIOUS
  <2> DEFINE m == Min(Bad)
  <2>1. Bad \in SUBSET Nat
    BY <1>2
  <2>2. m \in Bad /\ \A k \in Bad : m <= k
    BY <2>1, LeastPosition
  <2> HIDE DEF m
  <2>3. m \in 0..n /\ (\A f : ~Runs(f, m)) /\ \A k \in 0..n : k < m => \E f : Runs(f, k)
    BY <1>2, <2>2
  <2> HIDE DEF Bad
  <2>4. CASE m = 0
    <3> DEFINE f == [k \in 0..0 |-> none]
    <3>1. f = [k \in 0..0 |-> IF k = 0 THEN none ELSE next(f[k - 1], k)]
      OBVIOUS
    <3> QED
      BY <2>3, <2>4, <3>1
  <2>5. CASE m # 0
    <3>1. m - 1 \in 0..n /\ m - 1 < m /\ m \in Nat
      BY <1>2, <2>3, <2>5
    <3>2. PICK f : Runs(f, m - 1)
      BY <2>3, <3>1
    <3> DEFINE g == [k \in 0..m |-> IF k = m THEN next(f[m - 1], m) ELSE f[k]]
    <3>3. /\ \A k \in 0..(m - 1) : f[k] = IF k = 0 THEN none ELSE next(f[k - 1], k)
      BY <3>2
    <3>4. ASSUME NEW k \in 0..m
          PROVE  g[k] = IF k = 0 THEN none ELSE next(g[k - 1], k)
      <4>1. k # m => k \in 0..(m - 1)
        BY <3>1
      <4>2. k # 0 => k - 1 \in 0..m /\ k - 1 # m
        BY <3>1
      <4>3. k # 0 => g[k - 1] = f[k - 1]
        BY <4>2
      <4>4. CASE k = m
        BY <2>5, <4>3, <4>4
      <4>5. CASE k # m
        BY <3>3, <4>1, <4>3, <4>5
      <4> QED
        BY <4>4, <4>5
    <3>5. g = [k \in 0..m |-> g[k]]
      OBVIOUS
    <3> HIDE DEF g
    <3>6. Runs(g, m)
      BY <3>4, <3>5
    <3> QED
      BY <2>3, <3>6
  <2> QED
    BY <2>4, <2>5
<1>4. n \in 0..n
  BY <1>2
<1>5. \E f : Runs(f, n)
  <2>1. ~(n \in Bad)
    BY <1>3
  <2> HIDE DEF Runs
  <2> QED
    BY <1>4, <2>1
<1>6. Runs(picked, n)
  <2> HIDE DEF Runs
  <2> QED
    BY <1>5
<1> HIDE DEF picked
<1>7. picked[0] = none /\ \A k \in 1..n : picked[k] = next(picked[k - 1], k)
  <2>1. \A k \in 0..n : picked[k] = IF k = 0 THEN none ELSE next(picked[k - 1], k)
    BY <1>6
  <2>2. 0 \in 0..n /\ \A k \in 1..n : k \in 0..n /\ k # 0
    BY <1>2
  <2> QED
    BY <2>1, <2>2
<1>8. WarmRun(picked, s, hot, budget)
  BY <1>7 DEF WarmRun, n, none, next
<1> QED
  BY <1>1, <1>8 DEF n

\* Where the results are sorted alike the same ones are warm.
LEMMA SameWarm ==
  ASSUME NEW s, NEW t, Len(s) \in Nat, Len(t) = Len(s), ByUtility(s) = ByUtility(t), ToSet(s) = ToSet(t),
         NEW hot, NEW budget
  PROVE  Warm(s, hot, budget) = Warm(t, hot, budget)
<1> DEFINE n == Len(s)
           sorted == ByUtility(s)
<1>1. PICK f : WarmRun(f, s, hot, budget) /\ Warm(s, hot, budget) = f[n].warm
  BY WarmRuns
<1>2. PICK g : WarmRun(g, t, hot, budget) /\ Warm(t, hot, budget) = g[n].warm
  BY WarmRuns
<1>3. \A acc, r : NextWarm(s, hot, budget, acc, r) = NextWarm(t, hot, budget, acc, r)
  <2>1. /\ (\E i \in DOMAIN s : s[i].level # "none") <=> \E r \in ToSet(s) : r.level # "none"
        /\ (\E i \in DOMAIN t : t[i].level # "none") <=> \E r \in ToSet(t) : r.level # "none"
    BY DEF ToSet
  <2>2. (\E i \in DOMAIN s : s[i].level # "none") <=> (\E i \in DOMAIN t : t[i].level # "none")
    BY <2>1
  <2> QED
    BY <2>2 DEF NextWarm
<1>4. f[0] = g[0] /\ \A k \in 1..n : f[k - 1] = g[k - 1] => f[k] = g[k]
  <2>1. f[0] = g[0]
    BY <1>1, <1>2 DEF WarmRun
  <2>2. ASSUME NEW k \in 1..n, f[k - 1] = g[k - 1]
        PROVE  f[k] = g[k]
    <3>1. f[k] = NextWarm(s, hot, budget, f[k - 1], sorted[k])
      BY <1>1 DEF WarmRun
    <3>2. g[k] = NextWarm(t, hot, budget, g[k - 1], sorted[k])
      BY <1>2 DEF WarmRun
    <3> QED
      BY <1>3, <2>2, <3>1, <3>2
  <2> QED
    BY <2>1, <2>2
<1>5. n \in Nat
  OBVIOUS
<1> HIDE DEF n
<1>6. f[n] = g[n]
  <2> DEFINE D == {k \in 0..n : f[k] # g[k]}
             d == Min(D)
  <2> SUFFICES ASSUME D # {}
               PROVE  FALSE
    BY <1>5
  <2>1. D \in SUBSET Nat
    BY <1>5
  <2>2. d \in D /\ \A k \in D : d <= k
    BY <2>1, LeastPosition
  <2> HIDE DEF d
  <2>3. d \in 0..n /\ f[d] # g[d] /\ \A k \in 0..n : k < d => f[k] = g[k]
    BY <1>5, <2>2
  <2>4. d # 0
    BY <1>4, <2>3
  <2>5. d \in 1..n /\ d - 1 \in 0..n /\ d - 1 < d
    BY <1>5, <2>3, <2>4
  <2> QED
    BY <1>4, <2>3, <2>5
<1> QED
  BY <1>1, <1>2, <1>6 DEF n

\* One more text has at most as many characters more.
LEMMA MoreCharacters ==
  ASSUME NEW S, IsFiniteSet(Characters(S)), NEW r, r.cost \in Nat
  PROVE  /\ IsFiniteSet(Characters(S \cup {r}))
         /\ Cardinality(Characters(S \cup {r})) <= Cardinality(Characters(S)) + r.cost
         /\ Cardinality(Characters(S)) \in Nat /\ Cardinality(Characters(S \cup {r})) \in Nat
<1> DEFINE own == {r} \X (1..r.cost)
           A == Characters(S)
           c == r.cost
<1>1. IsFiniteSet(own) /\ Cardinality(own) = c
  <2>1. IsFiniteSet({r}) /\ Cardinality({r}) = 1
    BY FS_Singleton
  <2>2. c \in Nat
    OBVIOUS
  <2> HIDE DEF c
  <2>3. IsFiniteSet(1..c) /\ Cardinality(1..c) = c
    BY <2>2, FS_Interval
  <2>4. IsFiniteSet({r} \X (1..c)) /\ Cardinality({r} \X (1..c)) = 1 * c
    <3> DEFINE one == {r}
               many == 1..c
    <3> HIDE DEF one, many
    <3>1. IsFiniteSet(one \X many) /\ Cardinality(one \X many) = Cardinality(one) * Cardinality(many)
      BY <2>1, <2>3, FS_Product DEF one, many
    <3> QED
      BY <2>1, <2>3, <3>1 DEF one, many
  <2> QED
    BY <2>2, <2>4 DEF c
<1>2. Characters(S \cup {r}) = A \cup own
  BY DEF Characters
<1>3. IsFiniteSet(A)
  OBVIOUS
<1> HIDE DEF A, own
<1>4. /\ IsFiniteSet(A \cup own) /\ Cardinality(A \cup own) = Cardinality(A) + Cardinality(own) - Cardinality(A \cap own)
      /\ IsFiniteSet(A \cap own)
  BY <1>1, <1>3, FS_Union, FS_Intersection
<1>5. Cardinality(A) \in Nat /\ Cardinality(own) \in Nat /\ Cardinality(A \cap own) \in Nat /\ Cardinality(A \cup own) \in Nat
  BY <1>1, <1>3, <1>4, FS_CardinalityType
<1>6. Cardinality(A \cup own) <= Cardinality(A) + c
  BY <1>1, <1>4, <1>5
<1> QED
  BY <1>2, <1>4, <1>5, <1>6 DEF A

\* What has been picked: no text says what another says, and the budget counts
\* every character.
Picked(acc, S, hot, budget) ==
  /\ acc.warm \in Seq(S) /\ acc.chars \in Int /\ acc.chars <= budget
  /\ LET W == ToSet(acc.warm) IN
       /\ IsFiniteSet(Characters(W)) /\ Cardinality(Characters(W)) <= acc.chars
       /\ \A r \in W : ~NearDuplicate(r, hot \cup (W \ {r}))

\* The next rule keeps it so.
LEMMA PickedNext ==
  ASSUME NEW S, \A q \in S : q.cost \in Nat, NEW s, NEW hot, NEW budget \in Nat,
         NEW acc, Picked(acc, S, hot, budget), NEW r \in S
  PROVE  Picked(NextWarm(s, hot, budget, acc, r), S, hot, budget)
<1> DEFINE W == ToSet(acc.warm)
           X == W \cup {r}
           next == NextWarm(s, hot, budget, acc, r)
<1>1. CASE next = acc
  BY <1>1
<1>2. CASE next # acc
  <2>1. /\ TakesWarm(r, hot, acc, budget)
        /\ next.warm = Append(acc.warm, r) /\ next.chars = acc.chars + r.cost
    BY <1>2 DEF NextWarm
  <2>2. ~NearDuplicate(r, hot \cup W) /\ acc.chars + r.cost <= budget
    BY <2>1 DEF TakesWarm
  <2>3. next.warm \in Seq(S) /\ ToSet(next.warm) = X
    <3>1. acc.warm \in Seq(S)
      BY DEF Picked
    <3>2. /\ Append(acc.warm, r) \in Seq(S) /\ Len(Append(acc.warm, r)) = Len(acc.warm) + 1
          /\ \A i \in 1..Len(acc.warm) : Append(acc.warm, r)[i] = acc.warm[i]
          /\ Append(acc.warm, r)[Len(acc.warm) + 1] = r
      BY <3>1, AppendProperties
    <3>3. /\ Len(acc.warm) \in Nat /\ DOMAIN acc.warm = 1..Len(acc.warm)
          /\ DOMAIN Append(acc.warm, r) = 1..(Len(acc.warm) + 1)
      BY <3>1, <3>2
    <3> DEFINE n == Len(acc.warm)
               old == acc.warm
               new == Append(acc.warm, r)
    <3> HIDE DEF n, old, new
    <3>4. \A i : i \in 1..(n + 1) <=> i \in 1..n \/ i = n + 1
      BY <3>3 DEF n
    <3>5. /\ \A x : x \in ToSet(new) <=> \E i \in 1..(n + 1) : new[i] = x
          /\ \A x : x \in ToSet(old) <=> \E i \in 1..n : old[i] = x
      BY <3>3 DEF ToSet, n, old, new
    <3>6. (\A i \in 1..n : new[i] = old[i]) /\ new[n + 1] = r
      BY <3>2 DEF n, old, new
    <3>7. \A x : x \in ToSet(new) <=> x \in ToSet(old) \/ x = r
      BY <3>4, <3>5, <3>6
    <3>8. ToSet(new) = ToSet(old) \cup {r}
      BY <3>7
    <3> QED
      BY <2>1, <3>2, <3>8 DEF old, new
  <2>4. next.chars \in Int /\ next.chars <= budget
    BY <2>1, <2>2 DEF Picked
  <2>5. IsFiniteSet(Characters(X)) /\ Cardinality(Characters(X)) <= next.chars
    <3>1. IsFiniteSet(Characters(W)) /\ Cardinality(Characters(W)) <= acc.chars /\ acc.chars \in Int /\ r.cost \in Nat
      BY DEF Picked
    <3> HIDE DEF W
    <3>2. /\ IsFiniteSet(Characters(X)) /\ Cardinality(Characters(X)) <= Cardinality(Characters(W)) + r.cost
          /\ Cardinality(Characters(W)) \in Nat /\ Cardinality(Characters(X)) \in Nat
      BY <3>1, MoreCharacters
    <3> HIDE DEF X
    <3> QED
      BY <2>1, <3>1, <3>2
  <2>6. ASSUME NEW q \in X
        PROVE  ~NearDuplicate(q, hot \cup (X \ {q}))
    <3> DEFINE alike(a, b) == /\ a.tokens # {} /\ b.tokens # {}
                              /\ 100 * Cardinality(a.tokens \cap b.tokens) > 80 * Cardinality(a.tokens \cup b.tokens)
    <3>1. \A a, P : NearDuplicate(a, P) <=> \E b \in P : alike(a, b)
      BY DEF NearDuplicate
    <3>2. \A a, b : alike(a, b) => alike(b, a)
      <4> SUFFICES ASSUME NEW a, NEW b, alike(a, b)
                   PROVE  alike(b, a)
        OBVIOUS
      <4>1. a.tokens \cap b.tokens = b.tokens \cap a.tokens /\ a.tokens \cup b.tokens = b.tokens \cup a.tokens
        OBVIOUS
      <4> QED
        BY <4>1
    <3> HIDE DEF alike
    <3>3. \A p \in W : ~NearDuplicate(p, hot \cup (W \ {p}))
      BY DEF Picked
    <3> HIDE DEF W
    <3>4. CASE q = r
      BY <2>2, <3>1, <3>4
    <3>5. CASE q # r
      BY <2>2, <3>1, <3>2, <3>3, <3>5
    <3> QED
      BY <3>4, <3>5
  <2> QED
    BY <2>3, <2>4, <2>5, <2>6 DEF Picked
<1> QED
  BY <1>1, <1>2

\* So the warm rules of any results fit the budget, and none says what a hot or
\* another warm one says.
LEMMA WarmFits ==
  ASSUME NEW U, \A r \in U : r.utility \in Int /\ r.cost \in Nat, NEW s, IsRanking(s, U),
         NEW hot, NEW budget \in Nat
  PROVE  LET W == ToSet(Warm(s, hot, budget)) IN
         /\ W \subseteq ToSet(s) /\ Cardinality(Characters(W)) <= budget
         /\ \A r \in W : ~NearDuplicate(r, hot \cup (W \ {r}))
<1> DEFINE S == ToSet(s)
           n == Len(s)
           sorted == ByUtility(s)
<1>1. n \in Nat /\ DOMAIN sorted = 1..n /\ ToSet(sorted) = S
  BY SortRanks
<1>2. PICK f : WarmRun(f, s, hot, budget) /\ Warm(s, hot, budget) = f[n].warm
  BY <1>1, WarmRuns
<1>3. \A k \in 1..n : sorted[k] \in S
  BY <1>1 DEF ToSet
<1>4. \A r \in S : r.cost \in Nat
  <2>1. S \subseteq U
    BY DEF ToSet, IsRanking
  <2> QED
    BY <2>1
<1>5. Picked(f[0], S, hot, budget)
  <2>1. f[0].warm = <<>> /\ f[0].chars = 0
    BY <1>2 DEF WarmRun
  <2>2. ToSet(<<>>) = {}
    BY DEF ToSet
  <2>3. IsFiniteSet({}) /\ Cardinality({}) = 0
    BY FS_EmptySet
  <2>4. <<>> \in Seq(S) /\ f[0].warm \in Seq(S) /\ f[0].chars \in Int /\ f[0].chars <= budget
    BY <2>1
  <2>5. ToSet(f[0].warm) = {}
    BY <2>1, <2>2
  <2>6. IsFiniteSet(Characters(ToSet(f[0].warm))) /\ Cardinality(Characters(ToSet(f[0].warm))) <= f[0].chars
    <3>1. Characters(ToSet(f[0].warm)) = {}
      BY <2>5 DEF Characters
    <3>2. IsFiniteSet(Characters(ToSet(f[0].warm))) /\ Cardinality(Characters(ToSet(f[0].warm))) = 0
      BY <2>3, <3>1, Zenon
    <3> QED
      BY <2>1, <3>2
  <2> QED
    BY <2>4, <2>5, <2>6 DEF Picked
<1>6. ASSUME NEW k \in 1..n, Picked(f[k - 1], S, hot, budget)
      PROVE  Picked(f[k], S, hot, budget)
  <2>1. f[k] = NextWarm(s, hot, budget, f[k - 1], sorted[k])
    BY <1>2 DEF WarmRun
  <2> HIDE DEF S, sorted
  <2> QED
    BY <1>3, <1>4, <1>6, <2>1, PickedNext
<1> HIDE DEF n, S, sorted
<1>7. Picked(f[n], S, hot, budget)
  <2> DEFINE D == {k \in 0..n : ~Picked(f[k], S, hot, budget)}
             d == Min(D)
  <2> SUFFICES ASSUME D # {}
               PROVE  FALSE
    BY <1>1
  <2>1. D \in SUBSET Nat
    BY <1>1
  <2>2. d \in D /\ \A k \in D : d <= k
    BY <2>1, LeastPosition
  <2> HIDE DEF d
  <2>3. d \in 0..n /\ ~Picked(f[d], S, hot, budget) /\ \A k \in 0..n : k < d => Picked(f[k], S, hot, budget)
    BY <1>1, <2>2
  <2>4. d # 0
    BY <1>5, <2>3
  <2>5. d \in 1..n /\ d - 1 \in 0..n /\ d - 1 < d
    BY <1>1, <2>3, <2>4
  <2> QED
    BY <1>6, <2>3, <2>5
<1> DEFINE W == ToSet(Warm(s, hot, budget))
<1>8. /\ W \subseteq S /\ IsFiniteSet(Characters(W)) /\ f[n].chars \in Int /\ f[n].chars <= budget
      /\ Cardinality(Characters(W)) <= f[n].chars
      /\ \A r \in W : ~NearDuplicate(r, hot \cup (W \ {r}))
  <2>1. W = ToSet(f[n].warm)
    BY <1>2
  <2>2. W \subseteq S
    <3>1. f[n].warm \in Seq(S)
      BY <1>7 DEF Picked
    <3>2. \A i \in DOMAIN f[n].warm : f[n].warm[i] \in S
      BY <3>1
    <3> QED
      BY <2>1, <3>2 DEF ToSet
  <2> QED
    BY <1>7, <2>1, <2>2 DEF Picked
<1>9. Cardinality(Characters(W)) \in Nat
  BY <1>8, FS_CardinalityType
<1> HIDE DEF W
<1>10. Cardinality(Characters(W)) <= budget
  BY <1>8, <1>9
<1> QED
  BY <1>8, <1>10 DEF W, S

\* The ranking of the formal rules alone.
OwnRanking(ranking, formal) == Left(ranking, {i \in DOMAIN ranking : ranking[i] \in formal})

\* What is injected is selected from the formal part.
LEMMA FormalAreSelected ==
  ASSUME NEW q
  PROVE  Retrieve(q, Budget).formal =
           SelectInjection(FormalPart(q.words, Used(q), q.known, q.result, q.formal), Budget)
  BY DEF Retrieve, FormalPart, Keep

\* The parts of a selection.
LEMMA SelectionIs ==
  ASSUME NEW part
  PROVE  LET all == SelectInjection(part, Budget)
         IN all.hot = Hot(part) /\ all.warm = ToSet(Warm(part, Hot(part), Budget))
  BY DEF SelectInjection, Selection

\* A ranking of the formal rules alone has those it has among the others.
LEMMA OwnRanks ==
  ASSUME NEW T, NEW s, IsRanking(s, T), NEW formal
  PROVE  /\ IsRanking(OwnRanking(s, formal), T) /\ Len(OwnRanking(s, formal)) <= Len(s)
         /\ ToSet(OwnRanking(s, formal)) = ToSet(s) \cap formal
         /\ Len(s) \in Nat /\ Len(OwnRanking(s, formal)) \in Nat
<1> DEFINE P == {i \in DOMAIN s : s[i] \in formal}
<1>1. s \in Seq(T) /\ Len(s) \in Nat /\ P \in SUBSET (1..Len(s))
  BY DEF IsRanking
<1>2. {s[i] : i \in P} = ToSet(s) \cap formal
  BY DEF ToSet
<1>3. OwnRanking(s, formal) = Left(s, P)
  BY DEF OwnRanking
<1> HIDE DEF P
<1>4. IsRanking(Left(s, P), T) /\ Len(Left(s, P)) <= Len(s) /\ ToSet(Left(s, P)) = {s[i] : i \in P}
  BY <1>1, FilterRanks
<1> QED
  BY <1>1, <1>2, <1>3, <1>4 DEF IsRanking

\* Where nothing is cut the formal part is the same with and without the
\* others, in whatever order the rest is ranked.
LEMMA SamePart ==
  ASSUME NEW n \in Nat, NEW result, AreResults(result, n), NEW known, NEW formal,
         NEW words, IsRanking(words, 1..n), NEW embeddings, IsRanking(embeddings, 1..n),
         NEW w, RanksAlone(w, words, formal, 1..n), NEW e, RanksAlone(e, embeddings, formal, 1..n),
         Len(words) <= TOP_K, Len(embeddings) <= TOP_K
  PROVE  ToSet(FormalPart(words, embeddings, known, result, formal)) =
           ToSet(FormalPart(w, e, known, result, formal))
<1> DEFINE own == (1..n) \cap formal
<1>1. /\ IsRanking(w, 1..n) /\ IsRanking(e, 1..n)
      /\ ToSet(w) = ToSet(words) \cap formal /\ ToSet(e) = ToSet(embeddings) \cap formal
      /\ Len(w) \in Nat /\ Len(e) \in Nat /\ Len(words) \in Nat /\ Len(embeddings) \in Nat
      /\ Len(w) <= Len(words) /\ Len(e) <= Len(embeddings)
  BY DEF RanksAlone, IsRanking
<1>2. Len(w) <= TOP_K /\ Len(e) <= TOP_K
  <2>1. TOP_K \in Nat
    BY ResultsAreTyped
  <2> QED
    BY <1>1, <2>1
<1>3. /\ ToSet(TopK(words)) = ToSet(words) /\ ToSet(TopK(embeddings)) = ToSet(embeddings)
      /\ ToSet(TopK(w)) = ToSet(w) /\ ToSet(TopK(e)) = ToSet(e)
  BY <1>1, <1>2, CutRanks
<1>4. Shown(TopK(words), TopK(embeddings), known, result, own) = Shown(TopK(w), TopK(e), known, result, own)
  BY <1>1, <1>3 DEF Shown, EmbeddingOnly
<1>5. /\ ToSet(FormalPart(words, embeddings, known, result, formal)) =
           ResultsOf(result, Shown(TopK(words), TopK(embeddings), known, result, own))
      /\ ToSet(FormalPart(w, e, known, result, formal)) =
           ResultsOf(result, Shown(TopK(w), TopK(e), known, result, own))
  BY <1>1, PartRanks
<1> QED
  BY <1>4, <1>5

\* What is injected is then the same, if no two rules are worth the same.
LEMMA SameSelection ==
  ASSUME NEW n \in Nat, NEW result, AreResults(result, n), NEW known, NEW formal,
         NEW words, IsRanking(words, 1..n), NEW embeddings, IsRanking(embeddings, 1..n),
         NEW w, RanksAlone(w, words, formal, 1..n), NEW e, RanksAlone(e, embeddings, formal, 1..n),
         Len(words) <= TOP_K, Len(embeddings) <= TOP_K
  PROVE  LET all == SelectInjection(FormalPart(words, embeddings, known, result, formal), Budget)
             apart == SelectInjection(FormalPart(w, e, known, result, formal), Budget)
             shown == FormalAmong(ToSet(Eligible(words, embeddings, known, result)), formal)
         IN (\A r, s \in shown : r.utility = s.utility => r = s) => all.hot = apart.hot /\ all.warm = apart.warm
<1> DEFINE part == FormalPart(words, embeddings, known, result, formal)
           other == FormalPart(w, e, known, result, formal)
           shown == FormalAmong(ToSet(Eligible(words, embeddings, known, result)), formal)
           U == ResultsOf(result, 1..n)
<1>1. IsRanking(w, 1..n) /\ IsRanking(e, 1..n)
  BY DEF RanksAlone
<1>2. /\ IsRanking(part, U) /\ ToSet(part) = shown
      /\ ToSet(part) = ResultsOf(result, Shown(TopK(words), TopK(embeddings), known, result, (1..n) \cap formal))
  BY PartRanks
<1>3. IsRanking(other, U)
  BY <1>1, PartRanks
<1>4. ToSet(part) = ToSet(other)
  BY SamePart
<1>5. \A r \in U : r.utility \in Int /\ r.cost \in Nat
  BY DEF AreResults, ResultsOf
<1> HIDE DEF part, other, shown, U
<1>6. ASSUME \A r, s \in shown : r.utility = s.utility => r = s
      PROVE  Hot(part) = Hot(other) /\ Warm(part, Hot(part), Budget) = Warm(other, Hot(other), Budget)
  <2>1. Len(part) = Len(other) /\ ByUtility(part) = ByUtility(other)
    BY <1>2, <1>3, <1>4, <1>5, <1>6, SameOrder
  <2>2. Hot(part) = Hot(other)
    BY <1>4, <2>1, SameHot
  <2>3. Len(part) \in Nat
    BY <1>2 DEF IsRanking
  <2>4. Warm(part, Hot(part), Budget) = Warm(other, Hot(part), Budget)
    BY <1>4, <2>1, <2>3, SameWarm
  <2> QED
    BY <2>2, <2>4
<1>7. /\ SelectInjection(part, Budget).hot = Hot(part) /\ SelectInjection(other, Budget).hot = Hot(other)
      /\ SelectInjection(part, Budget).warm = ToSet(Warm(part, Hot(part), Budget))
      /\ SelectInjection(other, Budget).warm = ToSet(Warm(other, Hot(other), Budget))
  BY SelectionIs
<1> QED
  BY <1>6, <1>7 DEF part, other, shown

\* One selection, whatever the results and the rankings.
LEMMA OneSelection ==
  ASSUME NEW n \in Nat, NEW result, AreResults(result, n), NEW known, NEW formal,
         NEW words, IsRanking(words, 1..n), NEW embeddings, IsRanking(embeddings, 1..n)
  PROVE  LET all == SelectInjection(FormalPart(words, embeddings, known, result, formal), Budget)
             shown == FormalAmong(ToSet(Eligible(words, embeddings, known, result)), formal)
         IN /\ ~known => \A r \in all.hot \cup all.warm : r.rule \in ToSet(words)
            /\ \A r \in all.warm : ~NearDuplicate(r, (all.hot \cup all.warm) \ {r})
            /\ Cardinality(Characters(all.warm)) <= Budget
            /\ \A r \in shown : Worth(r) => \E s \in all.hot : Worth(s) /\ s.utility >= r.utility
<1> DEFINE part == FormalPart(words, embeddings, known, result, formal)
           all == SelectInjection(part, Budget)
           shown == FormalAmong(ToSet(Eligible(words, embeddings, known, result)), formal)
           U == ResultsOf(result, 1..n)
           own == (1..n) \cap formal
<1>1. /\ IsRanking(part, U) /\ ToSet(part) = shown
      /\ ToSet(part) = ResultsOf(result, Shown(TopK(words), TopK(embeddings), known, result, own))
  BY PartRanks
<1>2. all.hot = Hot(part) /\ all.warm = ToSet(Warm(part, Hot(part), Budget))
  BY SelectionIs
<1>3. \A r \in U : r.utility \in Int /\ r.cost \in Nat
  BY DEF AreResults, ResultsOf
<1>4. \A x \in Shown(TopK(words), TopK(embeddings), known, result, own) :
        result[x].rule = x /\ (~known => x \in ToSet(words))
  <2>1. ToSet(TopK(words)) \subseteq ToSet(words)
    BY CutRanks
  <2> QED
    BY <2>1 DEF Shown, EmbeddingOnly, AreResults
<1> HIDE DEF all, part, shown, U
<1>5. Budget \in Nat
  BY ResultsAreTyped
<1>6. /\ Hot(part) \subseteq ToSet(part)
      /\ \A r \in ToSet(part) : Worth(r) => \E q \in Hot(part) : Worth(q) /\ q.utility >= r.utility
  BY <1>1, <1>3, HotIsBest
<1>7. /\ all.warm \subseteq ToSet(part) /\ Cardinality(Characters(all.warm)) <= Budget
      /\ \A r \in all.warm : ~NearDuplicate(r, all.hot \cup (all.warm \ {r}))
  <2>1. LET W == ToSet(Warm(part, Hot(part), Budget)) IN
        /\ W \subseteq ToSet(part) /\ Cardinality(Characters(W)) <= Budget
        /\ \A r \in W : ~NearDuplicate(r, Hot(part) \cup (W \ {r}))
    BY <1>1, <1>3, <1>5, WarmFits
  <2> QED
    BY <1>2, <2>1
<1>8. ~known => \A r \in all.hot \cup all.warm : r.rule \in ToSet(words)
  <2>1. \A r \in all.hot \cup all.warm : r \in ToSet(part)
    BY <1>2, <1>6, <1>7
  <2> QED
    BY <1>1, <1>4, <2>1 DEF ResultsOf
<1>9. \A r \in all.warm : ~NearDuplicate(r, (all.hot \cup all.warm) \ {r})
  BY <1>7 DEF NearDuplicate
<1>10. \A r \in shown : Worth(r) => \E s \in all.hot : Worth(s) /\ s.utility >= r.utility
  BY <1>1, <1>2, <1>6
<1> QED
  BY <1>7, <1>8, <1>9, <1>10 DEF all, part, shown

\* A selection with the others and one without, whether both use embeddings or
\* neither does.
LEMMA BothSelections ==
  ASSUME NEW q, {"pool", "words", "embeddings"} \subseteq DOMAIN q, NEW n \in Nat, AreResults(q.result, n),
         IsRanking(q.words, 1..n), IsRanking(q.embeddings, 1..n), RanksAlone(q.alone, q.words, q.formal, 1..n)
  PROVE  LET alone == [q EXCEPT !.pool = q.formal, !.words = q.alone,
                                !.embeddings = OwnRanking(q.embeddings, q.formal)]
             all == Retrieve(q, Budget).formal
             apart == Retrieve(alone, Budget).formal
             shown == FormalAmong(ToSet(Eligible(q.words, Used(q), q.known, q.result)), q.formal)
         IN /\ /\ \A r, s \in shown : r.utility = s.utility => r = s
               /\ Len(q.words) <= TOP_K /\ Len(Used(q)) <= TOP_K
               /\ UsesEmbeddings(q) = UsesEmbeddings(alone)
               => all.hot = apart.hot /\ all.warm = apart.warm
            /\ ~q.known => \A r \in all.hot \cup all.warm : r.rule \in ToSet(q.words)
            /\ \A r \in all.warm : ~NearDuplicate(r, (all.hot \cup all.warm) \ {r})
            /\ Cardinality(Characters(all.warm)) <= Budget
            /\ \A r \in shown : Worth(r) => \E s \in all.hot : Worth(s) /\ s.utility >= r.utility
<1> DEFINE alone == [q EXCEPT !.pool = q.formal, !.words = q.alone,
                              !.embeddings = OwnRanking(q.embeddings, q.formal)]
           all == Retrieve(q, Budget).formal
           apart == Retrieve(alone, Budget).formal
           shown == FormalAmong(ToSet(Eligible(q.words, Used(q), q.known, q.result)), q.formal)
<1>1. /\ alone.words = q.alone /\ alone.embeddings = OwnRanking(q.embeddings, q.formal)
      /\ alone.known = q.known /\ alone.result = q.result /\ alone.formal = q.formal
  OBVIOUS
<1> HIDE DEF alone
<1>2. /\ all = SelectInjection(FormalPart(q.words, Used(q), q.known, q.result, q.formal), Budget)
      /\ apart = SelectInjection(FormalPart(q.alone, Used(alone), q.known, q.result, q.formal), Budget)
  BY <1>1, FormalAreSelected
<1>3. IsRanking(<<>>, 1..n) /\ ToSet(<<>>) = {} /\ Len(<<>>) = 0
  BY DEF IsRanking, ToSet
<1>4. IsRanking(Used(q), 1..n)
  BY <1>3 DEF Used
<1>5. ASSUME UsesEmbeddings(q) = UsesEmbeddings(alone)
      PROVE  RanksAlone(Used(alone), Used(q), q.formal, 1..n)
  <2>1. CASE UsesEmbeddings(q)
    <3>1. Used(q) = q.embeddings /\ Used(alone) = OwnRanking(q.embeddings, q.formal)
      BY <1>1, <1>5, <2>1 DEF Used
    <3> QED
      BY <3>1, OwnRanks DEF RanksAlone
  <2>2. CASE ~UsesEmbeddings(q)
    <3>1. Used(q) = <<>> /\ Used(alone) = <<>>
      BY <1>5, <2>2 DEF Used
    <3> QED
      BY <1>3, <3>1 DEF RanksAlone
  <2> QED
    BY <2>1, <2>2
<1> HIDE DEF all, apart
<1>6. ASSUME \A r, s \in shown : r.utility = s.utility => r = s,
             Len(q.words) <= TOP_K, Len(Used(q)) <= TOP_K, UsesEmbeddings(q) = UsesEmbeddings(alone)
      PROVE  all.hot = apart.hot /\ all.warm = apart.warm
  BY <1>2, <1>4, <1>5, <1>6, SameSelection
<1>7. /\ ~q.known => \A r \in all.hot \cup all.warm : r.rule \in ToSet(q.words)
      /\ \A r \in all.warm : ~NearDuplicate(r, (all.hot \cup all.warm) \ {r})
      /\ Cardinality(Characters(all.warm)) <= Budget
      /\ \A r \in shown : Worth(r) => \E s \in all.hot : Worth(s) /\ s.utility >= r.utility
  BY <1>2, <1>4, OneSelection
<1> QED
  BY <1>6, <1>7 DEF all, apart, alone

\* The selection is fair, whatever rules are found, however they are ranked and
\* whatever they are worth; and the candidates and suppressed rules matched
\* along change nothing of it where no ranking is cut, no two formal rules are
\* worth the same, and embeddings are used with them and without, or neither,
\* whatever the words then rank first (search/engine.py, search/selector.py).
THEOREM SelectionAlwaysFair == Spec => []SelectionIsFair
<1>1. Questions => SelectionIsFair
  <2> SUFFICES ASSUME Questions, question.about = "selection"
               PROVE  SelectionIsFair
    BY DEF SelectionIsFair
  <2> DEFINE q == question
             alone == [q EXCEPT !.pool = q.formal, !.words = q.alone,
                                !.embeddings = OwnRanking(q.embeddings, q.formal)]
             all == Retrieve(q, Budget).formal
             apart == Retrieve(alone, Budget).formal
             shown == FormalAmong(ToSet(Eligible(q.words, Used(q), q.known, q.result)), q.formal)
  <2>1. {"pool", "words", "embeddings"} \subseteq DOMAIN q
    BY DEF Questions
  <2>2. PICK n \in Nat : /\ AreResults(q.result, n) /\ IsRanking(q.words, 1..n) /\ IsRanking(q.embeddings, 1..n)
                         /\ RanksAlone(q.alone, q.words, q.formal, 1..n)
    BY DEF Questions
  <2> HIDE DEF q
  <2>3. /\ /\ \A r, s \in shown : r.utility = s.utility => r = s
           /\ Len(q.words) <= TOP_K /\ Len(Used(q)) <= TOP_K
           /\ UsesEmbeddings(q) = UsesEmbeddings(alone)
           => all.hot = apart.hot /\ all.warm = apart.warm
        /\ ~q.known => \A r \in all.hot \cup all.warm : r.rule \in ToSet(q.words)
        /\ \A r \in all.warm : ~NearDuplicate(r, (all.hot \cup all.warm) \ {r})
        /\ Cardinality(Characters(all.warm)) <= Budget
        /\ \A r \in shown : Worth(r) => \E s \in all.hot : Worth(s) /\ s.utility >= r.utility
    BY <2>1, <2>2, BothSelections
  <2> HIDE DEF all, apart, shown, alone
  <2>4. \E a \in {all}, b \in {apart}, f \in {shown} :
          /\ /\ \A r, s \in f : r.utility = s.utility => r = s
             /\ Len(q.words) <= TOP_K /\ Len(Used(q)) <= TOP_K
             /\ UsesEmbeddings(q) = UsesEmbeddings(alone)
             => a.hot = b.hot /\ a.warm = b.warm
          /\ ~q.known => \A r \in a.hot \cup a.warm : r.rule \in ToSet(q.words)
          /\ \A r \in a.warm : ~NearDuplicate(r, (a.hot \cup a.warm) \ {r})
          /\ Cardinality(Characters(a.warm)) <= Budget
          /\ \A r \in f : Worth(r) => \E s \in a.hot : Worth(s) /\ s.utility >= r.utility
    BY <2>3
  <2> QED
    BY <2>4 DEF SelectionIsFair, OwnRanking, Keep, q, alone, all, apart, shown, FormalAmong
<1> QED
  BY <1>1, QuestionsAsked, PTL

-----------------------------------------------------------------------------
(* The neighbours                                                          *)

\* The rules of the table.
Rows(rules) == {rules[k] : k \in DOMAIN rules}

\* The operators that MergeNeighbours takes from the libraries are those of this
\* module.
LEMMA SameOperators ==
  /\ \A S : Neighbours!Cardinality(S) = Cardinality(S)
  /\ \A S, R : Neighbours!Listed(S, R) = Listed(S, R)
  /\ \A s, S : Neighbours!Left(s, S) = Left(s, S)
  /\ \A s : Neighbours!ToSet(s) = {s[k] : k \in DOMAIN s}
<1>1. ASSUME NEW S
      PROVE  Neighbours!Cardinality(S) = Cardinality(S)
  BY DEF Neighbours!Cardinality, Cardinality
<1>2. ASSUME NEW S, NEW R
      PROVE  Neighbours!Listed(S, R) = Listed(S, R)
  BY DEF Neighbours!Listed, Listed, Neighbours!Cardinality, Cardinality
<1>3. ASSUME NEW s, NEW S
      PROVE  Neighbours!Left(s, S) = Left(s, S)
  BY <1>1, <1>2 DEF Neighbours!Left, Left
<1>4. \A s : Neighbours!ToSet(s) = {s[k] : k \in DOMAIN s}
  BY DEF Neighbours!ToSet
<1> QED
  BY <1>1, <1>2, <1>3, <1>4

\* What is in a list is finite.
LEMMA ElementsFinite ==
  ASSUME NEW s, NEW n \in Nat, DOMAIN s = 1..n
  PROVE  IsFiniteSet({s[k] : k \in DOMAIN s})
<1> DEFINE f == [k \in 1..n |-> s[k]]
           E == {s[k] : k \in DOMAIN s}
<1>1. f \in Surjection(1..n, E)
  BY DEF Surjection
<1>2. IsFiniteSet(1..n)
  BY FS_Interval
<1> HIDE DEF f, E
<1>3. IsFiniteSet(E)
  BY <1>1, <1>2, FS_Surjection
<1> QED
  BY <1>3 DEF E

\* The weight of what two rules share is a number.
LEMMA ShareIsNumber ==
  ASSUME NEW points \in Nat, NEW mine, IsFiniteSet(mine), NEW others
  PROVE  Neighbours!Share(points, mine, others) \in Int
<1>1. /\ Cardinality(mine) \in Nat /\ (Cardinality(mine) = 0 <=> mine = {})
      /\ Cardinality(mine \cap others) \in Nat
  BY FS_CardinalityType, FS_EmptySet, FS_Intersection
<1> DEFINE p == points * Cardinality(mine \cap others)
           c == Cardinality(mine)
<1>2. p \in Int
  BY <1>1
<1>3. Neighbours!Share(points, mine, others) = IF mine = {} THEN 0 ELSE p \div c
  BY SameOperators DEF Neighbours!Share
<1>4. mine # {} => c \in Nat \ {0}
  BY <1>1
<1> HIDE DEF p, c
<1> QED
  BY <1>2, <1>3, <1>4

\* So the score of a rule is a number (_score_rule).
LEMMA ScoreIsNumber ==
  ASSUME NEW rule
  PROVE  Neighbours!Score(New, rule) \in Int
<1>1. IsFiniteSet(Neighbours!ToSet(New.trigger)) /\ IsFiniteSet(Neighbours!ToSet(New.action))
  <2>1. ASSUME NEW text, IsText(text)
        PROVE  IsFiniteSet(Neighbours!ToSet(text))
    <3>1. Len(text) \in Nat /\ DOMAIN text = 1..Len(text)
      BY <2>1 DEF IsText
    <3>2. IsFiniteSet({text[k] : k \in DOMAIN text})
      BY <3>1, ElementsFinite
    <3> QED
      BY <3>2 DEF Neighbours!ToSet
  <2> QED
    BY <2>1, NeighboursAreTyped
<1>2. /\ Cardinality(New.variants \cap rule.variants) \in Nat
      /\ Cardinality(New.search \cap rule.search) \in Nat
      /\ Cardinality(New.domains \cap rule.domains) \in Nat
      /\ Cardinality(New.tools \cap rule.tools) \in Nat
  <2>1. ASSUME NEW S, IsFiniteSet(S), NEW others
        PROVE  Cardinality(S \cap others) \in Nat
    BY <2>1, FS_Intersection, FS_CardinalityType
  <2> QED
    BY <2>1, NeighboursAreTyped
<1>3. /\ Neighbours!Share(300, Neighbours!ToSet(New.trigger), Neighbours!ToSet(rule.trigger)) \in Int
      /\ Neighbours!Share(150, Neighbours!ToSet(New.action), Neighbours!ToSet(rule.action)) \in Int
  BY <1>1, ShareIsNumber
<1> QED
  BY <1>2, <1>3, SameOperators DEF Neighbours!Score

\* The rules of a project that are in service.
LiveRows(rules, project) ==
  {r \in Rows(rules) : r.status \in {"active", "trusted"} /\ Neighbours!InScope(r, project)}

\* At most as many recent rules as are asked for; some, if there are any.
LEMMA RecentAreFew ==
  ASSUME NEW rules, NEW n \in Nat, IsTable(rules, n), NEW project, NEW m \in Int
  PROVE  LET R == Neighbours!RecentRules(rules, project, m) IN
         /\ R \subseteq LiveRows(rules, project) /\ IsFiniteSet(R)
         /\ m <= 0 => R = {}
         /\ m > 0 => Cardinality(R) <= m
         /\ m > 0 /\ LiveRows(rules, project) # {} => R # {}
<1> DEFINE live == LiveRows(rules, project)
           newer(r) == {s \in live : s.updated > r.updated}
           R == {r \in live : Cardinality(newer(r)) < m}
<1>1. Neighbours!RecentRules(rules, project, m) = R
  <2>1. Neighbours!ToSet(rules) = Rows(rules)
    BY DEF Neighbours!ToSet, Rows
  <2>2. Neighbours!RecentRules(rules, project, m)
          = {r \in LiveRows(rules, project) :
               Neighbours!Cardinality({s \in LiveRows(rules, project) : s.updated > r.updated}) < m}
    BY <2>1 DEF Neighbours!RecentRules, LiveRows
  <2> QED
    BY <2>2, SameOperators
<1>2. /\ \A r \in live : \E k \in 1..n : r = rules[k]
      /\ \A r \in live : r.updated \in Int
      /\ \A r, s \in live : r.updated = s.updated => r = s
  BY DEF IsTable, LiveRows, Rows
<1>3. IsFiniteSet(live)
  <2>1. IsFiniteSet(Rows(rules)) /\ live \in SUBSET Rows(rules)
    BY ElementsFinite DEF IsTable, Rows, LiveRows
  <2> QED
    BY <2>1, FS_Subset
<1> HIDE DEF live
<1>4. ASSUME NEW r \in live
      PROVE  IsFiniteSet(newer(r)) /\ Cardinality(newer(r)) \in Nat
  BY <1>3, FS_Subset, FS_CardinalityType
<1>5. ASSUME NEW r \in live, NEW s \in live, s.updated > r.updated
      PROVE  Cardinality(newer(s)) < Cardinality(newer(r))
  <2>1. newer(s) \cup {s} \in SUBSET newer(r) /\ s \notin newer(s)
    BY <1>2, <1>5
  <2> HIDE DEF newer
  <2>2. /\ IsFiniteSet(newer(s)) /\ Cardinality(newer(s)) \in Nat
        /\ IsFiniteSet(newer(r)) /\ Cardinality(newer(r)) \in Nat
    BY <1>4
  <2>3. Cardinality(newer(s) \cup {s}) <= Cardinality(newer(r))
    BY <2>1, <2>2, FS_Subset
  <2>4. Cardinality(newer(s) \cup {s}) = Cardinality(newer(s)) + 1
    BY <2>1, <2>2, FS_AddElement
  <2> QED
    BY <2>2, <2>3, <2>4
<1>6. IsFiniteSet(R) /\ R \subseteq live
  BY <1>3, FS_Subset
<1>7. m <= 0 => R = {}
  <2> HIDE DEF newer
  <2> QED
    BY <1>4
<1>8. ASSUME m > 0
      PROVE  Cardinality(R) <= m
  <2> DEFINE c == [r \in R |-> Cardinality(newer(r))]
  <2> HIDE DEF newer
  <2>1. c \in [R -> 0..(m - 1)]
    BY <1>4, <1>6
  <2>2. \A r, s \in R : c[r] = c[s] => r = s
    <3> SUFFICES ASSUME NEW r \in R, NEW s \in R, c[r] = c[s]
                 PROVE  r = s
      OBVIOUS
    <3>1. /\ r \in live /\ s \in live /\ Cardinality(newer(r)) = Cardinality(newer(s))
          /\ Cardinality(newer(r)) \in Nat
      BY <1>4, <1>6
    <3>2. ~(r.updated > s.updated) /\ ~(s.updated > r.updated)
      BY <1>5, <3>1
    <3> QED
      BY <1>2, <3>1, <3>2
  <2>3. c \in Injection(R, 0..(m - 1))
    BY <2>1, <2>2 DEF Injection, IsInjective
  <2>4. IsFiniteSet(0..(m - 1)) /\ Cardinality(0..(m - 1)) = m
    BY <1>8, FS_Interval
  <2> QED
    BY <2>3, <2>4, FS_Injection
<1>9. ASSUME m > 0, live # {}
      PROVE  R # {}
  <2> DEFINE I == {n - k : k \in {j \in 1..n : rules[j] \in live}}
  <2>1. I \in SUBSET Nat /\ I # {}
    BY <1>2, <1>9
  <2>2. PICK k \in 1..n : rules[k] \in live /\ Min(I) = n - k
    BY <2>1, LeastPosition
  <2>3. ASSUME NEW s \in live
        PROVE  ~(s.updated > rules[k].updated)
    <3>1. PICK j \in 1..n : s = rules[j]
      BY <1>2
    <3>2. n - k <= n - j
      BY <2>1, <2>2, <3>1, LeastPosition
    <3> QED
      BY <3>1, <3>2 DEF IsTable
  <2>4. newer(rules[k]) = {}
    BY <2>3
  <2>5. Cardinality(newer(rules[k])) = 0
    BY <2>4, FS_EmptySet
  <2> HIDE DEF newer
  <2> QED
    BY <1>9, <2>2, <2>5
<1> HIDE DEF R
<1>10. /\ R \subseteq live /\ IsFiniteSet(R)
       /\ m <= 0 => R = {}
       /\ m > 0 => Cardinality(R) <= m
       /\ m > 0 /\ live # {} => R # {}
  BY <1>6, <1>7, <1>8, <1>9
<1> QED
  BY <1>1, <1>10 DEF live

\* What the property calls visible.
Visible(rule) == rule.status # "archived" /\ rule.project \in {"global", "p1"}

\* What it calls near.
Nearness(rules, cosine, i) ==
  Neighbours!Score(New, rules[i])
    + (IF i \in DOMAIN cosine /\ cosine[i] > 70 THEN (5 * cosine[i]) \div 2 ELSE 0)

\* What words and embedding find: once each, with its nearness.
LEMMA ScoredRules ==
  ASSUME NEW rules, NEW n \in Nat, IsTable(rules, n), NEW cosine, \A i \in DOMAIN cosine : cosine[i] \in Int
  PROVE  LET found == Neighbours!Scored(New, rules, cosine, "p1") IN
         /\ \A c \in found : \E i \in 1..n :
              /\ c.rule = rules[i] /\ Visible(rules[i]) /\ c.turn = i /\ c.via \in {1, 2}
              /\ c.score = Nearness(rules, cosine, i) /\ c.score \in Int
         /\ \A c, d \in found : c.turn = d.turn => c = d
         /\ \A i \in 1..n : Visible(rules[i]) /\ Nearness(rules, cosine, i) > 0 =>
              \E c \in found : c.rule = rules[i]
<1> DEFINE score(i) == Neighbours!Score(New, rules[i])
           near(i) == i \in DOMAIN cosine /\ cosine[i] > 70
           row(i) == [rule |-> rules[i], score |-> Nearness(rules, cosine, i),
                      via |-> IF score(i) > 0 THEN 1 ELSE 2, turn |-> i]
           shown(i) == Visible(rules[i]) /\ (score(i) > 0 \/ near(i))
           found == {row(i) : i \in {j \in 1..n : shown(j)}}
<1>1. ASSUME NEW i \in 1..n
      PROVE  /\ rules[i].id = i /\ rules[i].id # New.id
             /\ score(i) \in Int /\ Nearness(rules, cosine, i) \in Int
             /\ Nearness(rules, cosine, i) = score(i) + Neighbours!Bonus(rules[i], cosine)
             /\ ~near(i) => Nearness(rules, cosine, i) = score(i)
             /\ Neighbours!Near(rules[i], cosine) <=> near(i)
             /\ Neighbours!Eligible(rules[i], "p1") <=> Visible(rules[i])
  <2>1. rules[i].id = i /\ rules[i].id # New.id
    BY NeighboursAreTyped DEF IsTable
  <2>2. score(i) \in Int
    BY ScoreIsNumber
  <2>3. Neighbours!Near(rules[i], cosine) <=> near(i)
    BY <2>1 DEF Neighbours!Near
  <2>4. Neighbours!Bonus(rules[i], cosine) = IF near(i) THEN (250 * cosine[i]) \div 100 ELSE 0
    BY <2>1, <2>3 DEF Neighbours!Bonus
  <2>5. near(i) => cosine[i] \in Int
    OBVIOUS
  <2>6. near(i) => /\ (250 * cosine[i]) \div 100 = (5 * cosine[i]) \div 2 /\ (5 * cosine[i]) \div 2 \in Int
    BY <2>5
  <2>7. Nearness(rules, cosine, i) = score(i) + (IF near(i) THEN (5 * cosine[i]) \div 2 ELSE 0)
    BY DEF Nearness
  <2>8. Neighbours!Eligible(rules[i], "p1") <=> Visible(rules[i])
    BY DEF Neighbours!Eligible, Neighbours!InScope, Visible
  <2> HIDE DEF near, score
  <2>9. CASE near(i)
    BY <2>1, <2>2, <2>3, <2>4, <2>6, <2>7, <2>8, <2>9
  <2>10. CASE ~near(i)
    BY <2>1, <2>2, <2>3, <2>4, <2>7, <2>8, <2>10
  <2> QED
    BY <2>9, <2>10
<1>2. Neighbours!Scored(New, rules, cosine, "p1") = found
  <2> DEFINE old(r) == [rule |-> r, score |-> Neighbours!Score(New, r) + Neighbours!Bonus(r, cosine),
                        via |-> IF Neighbours!Score(New, r) > 0 THEN 1 ELSE 2, turn |-> r.id]
             test(r) == /\ r.id # New.id /\ Neighbours!Eligible(r, "p1")
                        /\ Neighbours!Score(New, r) > 0 \/ Neighbours!Near(r, cosine)
  <2>1. Neighbours!ToSet(rules) = {rules[i] : i \in 1..n}
    BY SameOperators DEF IsTable
  <2>2. Neighbours!Scored(New, rules, cosine, "p1") = {old(r) : r \in {s \in {rules[i] : i \in 1..n} : test(s)}}
    BY <2>1 DEF Neighbours!Scored
  <2>3. \A i \in 1..n : old(rules[i]) = row(i) /\ (test(rules[i]) <=> shown(i))
    <3> SUFFICES ASSUME NEW i \in 1..n
                 PROVE  old(rules[i]) = row(i) /\ (test(rules[i]) <=> shown(i))
      OBVIOUS
    <3> QED
      BY <1>1
  <2> HIDE DEF old, row, test, shown
  <2> QED
    BY <2>2, <2>3
<1>3. \A c \in found : \E i \in 1..n :
        /\ c.rule = rules[i] /\ Visible(rules[i]) /\ c.turn = i /\ c.via \in {1, 2}
        /\ c.score = Nearness(rules, cosine, i) /\ c.score \in Int
  <2> SUFFICES ASSUME NEW c \in found
               PROVE  \E i \in 1..n :
                        /\ c.rule = rules[i] /\ Visible(rules[i]) /\ c.turn = i /\ c.via \in {1, 2}
                        /\ c.score = Nearness(rules, cosine, i) /\ c.score \in Int
    OBVIOUS
  <2>1. PICK i \in 1..n : shown(i) /\ c = row(i)
    OBVIOUS
  <2> QED
    BY <1>1, <2>1
<1>4. \A c, d \in found : c.turn = d.turn => c = d
  <2> SUFFICES ASSUME NEW c \in found, NEW d \in found, c.turn = d.turn
               PROVE  c = d
    OBVIOUS
  <2>1. PICK i \in 1..n : c = row(i)
    OBVIOUS
  <2>2. PICK k \in 1..n : d = row(k)
    OBVIOUS
  <2>3. i = k
    BY <2>1, <2>2
  <2> QED
    BY <2>1, <2>2, <2>3
<1>5. ASSUME NEW i \in 1..n, Visible(rules[i]), Nearness(rules, cosine, i) > 0
      PROVE  \E c \in found : c.rule = rules[i]
  <2>1. shown(i)
    BY <1>1, <1>5
  <2>2. row(i) \in found /\ row(i).rule = rules[i]
    BY <2>1
  <2> QED
    BY <2>2
<1> HIDE DEF found
<1> QED
  BY <1>2, <1>3, <1>4, <1>5

\* The candidates: each rule once, and recent ones only where there is room.
LEMMA CandidateRules ==
  ASSUME NEW rules, NEW n \in Nat, IsTable(rules, n), NEW cosine, \A i \in DOMAIN cosine : cosine[i] \in Int,
         NEW limit \in Nat \ {0}
  PROVE  LET all == Neighbours!Candidates(New, rules, cosine, "p1", limit) IN
         /\ IsFiniteSet(all)
         /\ \A c \in all : \E i \in 1..n :
              /\ c.rule = rules[i] /\ Visible(rules[i])
              /\ c.score \in Int /\ c.via \in {1, 2, 3} /\ c.turn \in Int
              /\ c.via # 3 => c.score = Nearness(rules, cosine, i)
         /\ \A c, d \in all : c.rule = d.rule \/ (c.via = d.via /\ c.turn = d.turn) => c = d
         /\ \A i \in 1..n : Visible(rules[i]) /\ Nearness(rules, cosine, i) > 0 =>
              \E c \in all : c.rule = rules[i] /\ c.via # 3
         /\ (\E c \in all : c.via = 3) => Cardinality(all) <= limit
         /\ (\E i \in 1..n : Visible(rules[i]) /\ rules[i].status \in {"active", "trusted"}) => all # {}
<1> DEFINE found == Neighbours!Scored(New, rules, cosine, "p1")
           room == limit - Cardinality(found)
           m == IF room < RECENT THEN room ELSE RECENT
           recent == Neighbours!RecentRules(rules, "p1", m)
           new == recent \ {f.rule : f \in found}
           row(r) == [rule |-> r, score |-> 10, via |-> 3, turn |-> -r.updated]
           added == {row(r) : r \in new}
           all == found \cup added
           live == LiveRows(rules, "p1")
<1>1. Neighbours!Candidates(New, rules, cosine, "p1", limit) = all
  BY SameOperators DEF Neighbours!Candidates
<1>2. /\ \A c \in found : \E i \in 1..n :
           /\ c.rule = rules[i] /\ Visible(rules[i]) /\ c.turn = i /\ c.via \in {1, 2}
           /\ c.score = Nearness(rules, cosine, i) /\ c.score \in Int
      /\ \A c, d \in found : c.turn = d.turn => c = d
      /\ \A i \in 1..n : Visible(rules[i]) /\ Nearness(rules, cosine, i) > 0 =>
           \E c \in found : c.rule = rules[i]
  BY ScoredRules
<1> HIDE DEF found
<1>3. \A i, k \in 1..n : rules[i] = rules[k] => i = k
  BY DEF IsTable
<1>4. IsFiniteSet(found) /\ Cardinality(found) \in Nat
  <2> DEFINE f == [c \in found |-> c.turn]
  <2>1. f \in Injection(found, 1..n)
    BY <1>2 DEF Injection, IsInjective
  <2>2. IsFiniteSet(1..n)
    BY FS_Interval
  <2> HIDE DEF f
  <2> QED
    BY <2>1, <2>2, FS_Injection, FS_CardinalityType
<1>5. room \in Int /\ m \in Int /\ m <= room /\ RECENT \in Nat \ {0}
  BY <1>4, NeighboursAreTyped
<1> HIDE DEF m
<1>6. /\ recent \subseteq live /\ IsFiniteSet(recent)
      /\ m <= 0 => recent = {}
      /\ m > 0 => Cardinality(recent) <= m
      /\ m > 0 /\ live # {} => recent # {}
  BY <1>5, RecentAreFew
<1> HIDE DEF recent
<1>7. ASSUME NEW r \in recent
      PROVE  \E i \in 1..n : r = rules[i] /\ r.updated = i /\ Visible(rules[i])
  <2>1. r \in live
    BY <1>6
  <2> QED
    BY <2>1 DEF LiveRows, Rows, Neighbours!InScope, Visible, IsTable
<1>8. \A c \in added : \E i \in 1..n :
        /\ c.rule = rules[i] /\ Visible(rules[i]) /\ rules[i] \in new
        /\ c.score = 10 /\ c.via = 3 /\ c.turn = -i
  BY <1>7
<1>9. IsFiniteSet(added) /\ Cardinality(added) \in Nat /\ Cardinality(added) <= Cardinality(recent)
  <2> DEFINE f == [c \in added |-> c.rule]
  <2>1. \A c \in added : c = row(c.rule) /\ c.rule \in recent
    OBVIOUS
  <2> HIDE DEF added, row
  <2>2. f \in Injection(added, recent)
    BY <2>1 DEF Injection, IsInjective
  <2> HIDE DEF f
  <2> QED
    BY <1>6, <2>2, FS_Injection, FS_CardinalityType
<1>10. \A c \in added : \A d \in found : c.rule # d.rule
  BY DEF added
<1>11. \A c, d \in added : c.turn = d.turn \/ c.rule = d.rule => c = d
  <2> SUFFICES ASSUME NEW c \in added, NEW d \in added, c.turn = d.turn \/ c.rule = d.rule
               PROVE  c = d
    OBVIOUS
  <2>1. PICK r \in recent : c = row(r)
    OBVIOUS
  <2>2. PICK s \in recent : d = row(s)
    OBVIOUS
  <2>3. PICK i \in 1..n : r = rules[i] /\ r.updated = i
    BY <1>7
  <2>4. PICK k \in 1..n : s = rules[k] /\ s.updated = k
    BY <1>7
  <2>5. i = k
    BY <1>3, <2>1, <2>2, <2>3, <2>4
  <2> QED
    BY <2>1, <2>2, <2>3, <2>4, <2>5
<1> HIDE DEF added
<1>12. IsFiniteSet(all)
  BY <1>4, <1>9, FS_Union
<1>13. \A c \in all : \E i \in 1..n :
         /\ c.rule = rules[i] /\ Visible(rules[i])
         /\ c.score \in Int /\ c.via \in {1, 2, 3} /\ c.turn \in Int
         /\ c.via # 3 => c.score = Nearness(rules, cosine, i)
  <2>1. ASSUME NEW c \in found
        PROVE  \E i \in 1..n :
                 /\ c.rule = rules[i] /\ Visible(rules[i])
                 /\ c.score \in Int /\ c.via \in {1, 2, 3} /\ c.turn \in Int
                 /\ c.via # 3 => c.score = Nearness(rules, cosine, i)
    BY <1>2
  <2>2. ASSUME NEW c \in added
        PROVE  \E i \in 1..n :
                 /\ c.rule = rules[i] /\ Visible(rules[i])
                 /\ c.score \in Int /\ c.via \in {1, 2, 3} /\ c.turn \in Int
                 /\ c.via # 3 => c.score = Nearness(rules, cosine, i)
    BY <1>8
  <2> QED
    BY <2>1, <2>2
<1>14. \A c, d \in all : c.rule = d.rule \/ (c.via = d.via /\ c.turn = d.turn) => c = d
  <2>1. \A c, d \in found : c.rule = d.rule => c.turn = d.turn
    BY <1>2, <1>3
  <2>2. \A c \in found : \A d \in added : c.via # d.via
    BY <1>2, <1>8
  <2> QED
    BY <1>2, <1>10, <1>11, <2>1, <2>2
<1>15. \A i \in 1..n : Visible(rules[i]) /\ Nearness(rules, cosine, i) > 0 =>
         \E c \in all : c.rule = rules[i] /\ c.via # 3
  BY <1>2
<1>16. ASSUME \E c \in all : c.via = 3
       PROVE  Cardinality(all) <= limit
  <2>1. PICK c \in added : TRUE
    BY <1>2, <1>16
  <2>2. recent # {}
    BY <1>8, <2>1
  <2>3. m > 0 /\ Cardinality(recent) <= m /\ Cardinality(recent) \in Nat
    BY <1>5, <1>6, <2>2, FS_CardinalityType
  <2>4. /\ Cardinality(all) = Cardinality(found) + Cardinality(added) - Cardinality(found \cap added)
        /\ Cardinality(found \cap added) \in Nat
    BY <1>4, <1>9, FS_Union, FS_Intersection, FS_CardinalityType
  <2> HIDE DEF all
  <2> QED
    BY <1>4, <1>5, <1>9, <2>3, <2>4
<1>17. ASSUME NEW i \in 1..n, Visible(rules[i]), rules[i].status \in {"active", "trusted"}
       PROVE  all # {}
  <2>1. rules[i] \in live
    BY <1>17 DEF LiveRows, Rows, Neighbours!InScope, Visible, IsTable
  <2>2. CASE found # {}
    BY <2>2
  <2>3. CASE found = {}
    <3>1. Cardinality(found) = 0
      BY <2>3, FS_EmptySet
    <3>2. m > 0
      BY <1>5, <3>1 DEF m
    <3>3. PICK r : r \in recent
      BY <1>6, <2>1, <3>2
    <3>4. row(r) \in added
      BY <2>3, <3>3 DEF added
    <3> QED
      BY <3>4
  <2> QED
    BY <2>2, <2>3
<1> HIDE DEF all
<1> QED
  BY <1>1, <1>12, <1>13, <1>14, <1>15, <1>16, <1>17

\* The memory that is shown is of users and the system.
LEMMA MemoryIsStrong ==
  ASSUME NEW rule, NEW f \in Neighbours!Related(rule, Memory)
  PROVE  f.strength # "merge_replaced"
<1> DEFINE S == {i \in DOMAIN Memory : Memory[i].strength \in {"user", "system"}}
           strong == Left(Memory, S)
           q == IF Len(strong) < FINGERPRINTS THEN Len(strong) ELSE FINGERPRINTS
           first == SubSeq(strong, 1, q)
<1>1. Neighbours!Keep(Memory, LAMBDA g : g.strength \in {"user", "system"}) = strong
  BY SameOperators DEF Neighbours!Keep
<1>2. f \in {first[k] : k \in DOMAIN first}
  BY <1>1, SameOperators DEF Neighbours!Related, Neighbours!Best
<1>3. Memory \in Seq(ToSet(Memory)) /\ S \in SUBSET (1..Len(Memory))
  BY NeighboursAreTyped
<1> DEFINE c == Cardinality(S)
<1>4. c \in Nat /\ strong \in Seq(ToSet(Memory)) /\ Len(strong) = c
  <2> HIDE DEF S
  <2> QED
    BY <1>3, LeftInOrder
<1>5. \A k \in 1..c : strong[k].strength \in {"user", "system"}
  <2> HIDE DEF S
  <2>1. PICK at : Places(at, Memory, S)
    BY <1>3, LeftInOrder
  <2>2. \A k \in 1..c : at[k] \in S /\ strong[k] = Memory[at[k]]
    BY <2>1 DEF Places
  <2>3. \A i \in S : Memory[i].strength \in {"user", "system"}
    BY DEF S
  <2> HIDE DEF strong, c
  <2> QED
    BY <2>2, <2>3
<1>6. q \in 0..c
  BY <1>4, NeighboursAreTyped
<1> HIDE DEF S, strong, q, c
<1>7. \A k \in 1..q : strong[k] \in ToSet(Memory)
  BY <1>4, <1>6
<1>8. DOMAIN first = 1..q /\ \A k \in 1..q : first[k] = strong[k]
  BY <1>4, <1>6, <1>7, SubSeqProperties
<1>9. PICK k \in 1..q : f = strong[k]
  BY <1>2, <1>8
<1> QED
  BY <1>4, <1>5, <1>6, <1>9

\* One search, whatever the table.
LEMMA OneSearch ==
  ASSUME NEW rules, NEW n \in Nat, IsTable(rules, n), NEW cosine, \A i \in DOMAIN cosine : cosine[i] \in Int,
         NEW limit \in Nat \ {0}
  PROVE  LET found == Neighbours!FindMergeNeighbors(New, rules, cosine, "p1", limit, Memory)
             ids == {found[k].id : k \in DOMAIN found}
         IN /\ \A i \in ids : i \in 1..n /\ Visible(rules[i])
            /\ Cardinality(ids) = Len(found) /\ Len(found) <= limit
            /\ \A i \in (1..n) \ ids : Visible(rules[i]) /\ Nearness(rules, cosine, i) > 0 =>
                 Len(found) = limit /\ \A j \in ids : Nearness(rules, cosine, j) >= Nearness(rules, cosine, i)
            /\ (\E i \in 1..n : Visible(rules[i]) /\ rules[i].status \in {"active", "trusted"}) => found # <<>>
            /\ \A k \in DOMAIN found : \A f \in found[k].fingerprints : f.strength # "merge_replaced"
<1> DEFINE all == Neighbours!Candidates(New, rules, cosine, "p1", limit)
           R == {p \in all \X all : Neighbours!Before(p[1], p[2])}
           sorted == Listed(all, R)
           m == Cardinality(all)
           len == IF m < limit THEN m ELSE limit
           found == Neighbours!FindMergeNeighbors(New, rules, cosine, "p1", limit, Memory)
           ids == {found[k].id : k \in DOMAIN found}
<1>1. /\ IsFiniteSet(all)
      /\ \A c \in all : \E i \in 1..n :
           /\ c.rule = rules[i] /\ Visible(rules[i])
           /\ c.score \in Int /\ c.via \in {1, 2, 3} /\ c.turn \in Int
           /\ c.via # 3 => c.score = Nearness(rules, cosine, i)
      /\ \A c, d \in all : c.rule = d.rule \/ (c.via = d.via /\ c.turn = d.turn) => c = d
      /\ \A i \in 1..n : Visible(rules[i]) /\ Nearness(rules, cosine, i) > 0 =>
           \E c \in all : c.rule = rules[i] /\ c.via # 3
      /\ (\E c \in all : c.via = 3) => m <= limit
      /\ (\E i \in 1..n : Visible(rules[i]) /\ rules[i].status \in {"active", "trusted"}) => all # {}
  BY CandidateRules
<1> HIDE DEF all
<1>2. \A c \in all : c.score \in Int /\ c.via \in Int /\ c.turn \in Int
  BY <1>1
<1>3. Orders(R, all)
  <2>1. \A c, d \in all : <<c, d>> \in R <=> Neighbours!Before(c, d)
    OBVIOUS
  <2>2. \A c \in all : ~Neighbours!Before(c, c)
    BY <1>2 DEF Neighbours!Before
  <2>3. \A c, d \in all : c = d \/ Neighbours!Before(c, d) \/ Neighbours!Before(d, c)
    BY <1>1, <1>2 DEF Neighbours!Before
  <2>4. \A b, c, d \in all : Neighbours!Before(b, c) /\ Neighbours!Before(c, d) => Neighbours!Before(b, d)
    BY <1>2 DEF Neighbours!Before
  <2> HIDE DEF R
  <2> QED
    BY <2>1, <2>2, <2>3, <2>4 DEF Orders
<1>4. /\ m \in Nat /\ sorted \in [1..m -> all]
      /\ \A i, k \in 1..m : i < k => <<sorted[i], sorted[k]>> \in R
      /\ \A i, k \in 1..m : sorted[i] = sorted[k] => i = k
      /\ \A x \in all : \E i \in 1..m : sorted[i] = x
  <2> HIDE DEF R
  <2> QED
    BY <1>1, <1>3, ListedInOrder
<1>5. \A i, k \in 1..m : i < k => sorted[i].score >= sorted[k].score
  <2> SUFFICES ASSUME NEW i \in 1..m, NEW k \in 1..m, i < k
               PROVE  sorted[i].score >= sorted[k].score
    OBVIOUS
  <2>1. <<sorted[i], sorted[k]>> \in R
    BY <1>4
  <2>2. sorted[i] \in all /\ sorted[k] \in all /\ Neighbours!Before(sorted[i], sorted[k])
    BY <1>4, <2>1
  <2>3. \A c, d \in all : Neighbours!Before(c, d) => c.score >= d.score
    BY <1>2 DEF Neighbours!Before
  <2> QED
    BY <2>2, <2>3
<1> HIDE DEF R
<1>6. limit \in Nat \ {0} /\ len \in 0..m /\ len <= limit /\ (len < m => len = limit) /\ (m # 0 => len # 0)
  BY <1>4
<1> DEFINE first == SubSeq(sorted, 1, len)
           entry(k) == [id |-> sorted[k].rule.id, score |-> sorted[k].score,
                        fingerprints |-> Neighbours!Related(sorted[k].rule, Memory)]
<1> HIDE DEF m
<1>7. /\ Len(sorted) = m /\ DOMAIN first = 1..len /\ \A k \in 1..len : first[k] = sorted[k]
  <2>1. Len(sorted) = m
    BY <1>4
  <2>2. \A k \in 1..len : sorted[k] \in all
    BY <1>4, <1>6
  <2> HIDE DEF len, sorted
  <2>3. DOMAIN first = 1..len /\ \A k \in 1..len : first[k] = sorted[k]
    BY <1>4, <1>6, <2>2, SubSeqProperties
  <2> QED
    BY <2>1, <2>3
<1>8. found = [k \in 1..len |-> entry(k)]
  <2>1. Neighbours!Listed(all, R) = sorted
    BY SameOperators
  <2>2. New.trigger # <<>>
    BY NeighboursAreTyped
  <2> HIDE DEF sorted
  <2>3. found = [k \in DOMAIN first |-> [id |-> first[k].rule.id, score |-> first[k].score,
                                          fingerprints |-> Neighbours!Related(first[k].rule, Memory)]]
    BY <1>7, <2>1, <2>2 DEF Neighbours!FindMergeNeighbors, Neighbours!Neighbour, Neighbours!Sorted, Neighbours!Best, all, R
  <2> HIDE DEF first, found, len
  <2> QED
    BY <1>7, <2>3
<1> HIDE DEF found, entry
<1>9. DOMAIN found = 1..len /\ Len(found) = len
  <2> HIDE DEF len
  <2> QED
    BY <1>6, <1>8
<1>10. ASSUME NEW k \in 1..len
       PROVE  /\ found[k].id = sorted[k].rule.id
              /\ found[k].fingerprints = Neighbours!Related(sorted[k].rule, Memory)
              /\ sorted[k] \in all /\ k \in 1..m
  <2>1. k \in 1..m
    BY <1>4, <1>6
  <2> HIDE DEF len, sorted
  <2>2. found[k] = entry(k)
    BY <1>8
  <2> QED
    BY <1>4, <2>1, <2>2 DEF entry
<1> HIDE DEF len, sorted, first
<1>11. ASSUME NEW c \in all
       PROVE  \E i \in 1..n : /\ c.rule = rules[i] /\ c.rule.id = i /\ Visible(rules[i])
                              /\ c.via # 3 => c.score = Nearness(rules, cosine, i)
  BY <1>1 DEF IsTable
<1>12. \A i \in ids : i \in 1..n /\ Visible(rules[i])
  BY <1>9, <1>10, <1>11
<1>13. Cardinality(ids) = len
  <2> DEFINE f == [k \in 1..len |-> found[k].id]
  <2>1. \A i, k \in 1..len : f[i] = f[k] => i = k
    <3> SUFFICES ASSUME NEW i \in 1..len, NEW k \in 1..len, found[i].id = found[k].id
                 PROVE  i = k
      OBVIOUS
    <3>1. sorted[i].rule = sorted[k].rule
      BY <1>10, <1>11
    <3>2. sorted[i] = sorted[k]
      BY <1>1, <1>10, <3>1
    <3> QED
      BY <1>4, <1>10, <3>2
  <2>2. f \in Surjection(1..len, ids) /\ f \in Injection(1..len, ids)
    BY <1>9, <2>1 DEF Surjection, Injection, IsInjective
  <2>3. IsFiniteSet(1..len) /\ Cardinality(1..len) = len
    <3>1. len \in Nat
      BY <1>4, <1>6
    <3> QED
      BY <3>1, FS_Interval
  <2> HIDE DEF f, ids
  <2> QED
    BY <2>2, <2>3, FS_Surjection
<1>14. ASSUME NEW i \in (1..n) \ ids, Visible(rules[i]), Nearness(rules, cosine, i) > 0
       PROVE  len = limit /\ \A j \in ids : Nearness(rules, cosine, j) >= Nearness(rules, cosine, i)
  <2>1. PICK c \in all : c.rule = rules[i] /\ c.via # 3
    BY <1>1, <1>14
  <2>2. c.rule.id = i /\ c.score = Nearness(rules, cosine, i)
    BY <1>11, <2>1 DEF IsTable
  <2>3. PICK p \in 1..m : sorted[p] = c
    BY <1>4
  <2>4. p \notin 1..len
    <3>1. p \in 1..len => found[p].id = i
      BY <1>10, <2>2, <2>3
    <3> QED
      BY <1>9, <1>14, <3>1
  <2>5. len < p /\ len < m /\ len = limit /\ ~(m <= limit)
    BY <1>4, <1>6, <2>4
  <2>6. ASSUME NEW j \in ids
        PROVE  Nearness(rules, cosine, j) >= Nearness(rules, cosine, i)
    <3>1. PICK k \in 1..len : j = found[k].id
      BY <1>9
    <3>2. sorted[k].via # 3 /\ sorted[k] \in all /\ sorted[k].rule.id = j
      BY <1>1, <1>10, <2>5, <3>1
    <3>3. sorted[k].score = Nearness(rules, cosine, j)
      BY <1>11, <3>2
    <3>4. k < p /\ k \in 1..m
      BY <1>6, <1>10, <2>5
    <3> QED
      BY <1>5, <2>2, <2>3, <3>3, <3>4
  <2> QED
    BY <2>5, <2>6
<1>15. ASSUME NEW i \in 1..n, Visible(rules[i]), rules[i].status \in {"active", "trusted"}
       PROVE  found # <<>>
  <2>1. all # {}
    BY <1>1, <1>15
  <2>2. m # 0
    BY <1>1, <2>1, FS_EmptySet DEF m
  <2>3. Len(found) # 0
    BY <1>6, <1>9, <2>2
  <2> QED
    BY <2>3
<1>16. ASSUME NEW k \in DOMAIN found, NEW f \in found[k].fingerprints
       PROVE  f.strength # "merge_replaced"
  BY <1>9, <1>10, MemoryIsStrong
<1> HIDE DEF ids
<1>17. Cardinality(ids) = Len(found) /\ Len(found) <= limit
  BY <1>6, <1>9, <1>13
<1> QED
  BY <1>9, <1>12, <1>14, <1>15, <1>16, <1>17 DEF ids, found

\* The merge planner of any new rule finds the nearest of the rules that it may
\* see, whatever the table, the embeddings and the limit (merge/policy.py).
THEOREM NearestAlwaysFound == Spec => []NearestAreFound
<1>1. Questions => NearestAreFound
  <2> SUFFICES ASSUME Questions, question.about = "neighbours"
               PROVE  NearestAreFound
    BY DEF NearestAreFound
  <2> DEFINE rules == question.rules
             cosine == question.cosine
             limit == question.limit
             found == Neighbours!FindMergeNeighbors(New, rules, cosine, "p1", limit, Memory)
             ids == {found[k].id : k \in DOMAIN found}
  <2>1. PICK n \in Nat : IsTable(rules, n)
    BY DEF Questions
  <2>2. (\A i \in DOMAIN cosine : cosine[i] \in Int) /\ limit \in Nat \ {0}
    BY DEF Questions
  <2> HIDE DEF rules, cosine, limit
  <2>3. /\ \A i \in ids : i \in 1..n /\ Visible(rules[i])
        /\ Cardinality(ids) = Len(found) /\ Len(found) <= limit
        /\ \A i \in (1..n) \ ids : Visible(rules[i]) /\ Nearness(rules, cosine, i) > 0 =>
             Len(found) = limit /\ \A j \in ids : Nearness(rules, cosine, j) >= Nearness(rules, cosine, i)
        /\ (\E i \in 1..n : Visible(rules[i]) /\ rules[i].status \in {"active", "trusted"}) => found # <<>>
        /\ \A k \in DOMAIN found : \A f \in found[k].fingerprints : f.strength # "merge_replaced"
    BY <2>1, <2>2, OneSearch
  <2>4. DOMAIN rules = 1..n
    BY <2>1 DEF IsTable
  <2> HIDE DEF found
  <2>5. LET visible == {i \in DOMAIN rules : rules[i].status # "archived" /\ rules[i].project \in {"global", "p1"}}
            nearness(i) == Neighbours!Score(New, rules[i])
                             + (IF i \in DOMAIN cosine /\ cosine[i] > 70 THEN (5 * cosine[i]) \div 2 ELSE 0)
        IN /\ ids \subseteq visible /\ Cardinality(ids) = Len(found) /\ Len(found) <= limit
           /\ \A i \in visible \ ids :
                nearness(i) > 0 => Len(found) = limit /\ \A j \in ids : nearness(j) >= nearness(i)
           /\ (\E i \in visible : rules[i].status \in {"active", "trusted"}) => found # <<>>
           /\ \A k \in DOMAIN found : \A f \in found[k].fingerprints : f.strength # "merge_replaced"
    BY <2>3, <2>4 DEF Visible, Nearness
  <2> QED
    BY <2>5 DEF NearestAreFound, rules, cosine, limit, found
<1> QED
  BY <1>1, QuestionsAsked, PTL

-----------------------------------------------------------------------------
(* The installation                                                        *)

\* A list that has nothing of Nokori's.
UsersOwn(spec) == spec \in Seq(ToSet(spec)) /\ \A i \in DOMAIN spec : ~IsNokori(spec[i])

\* The hooks of a host hold what they may.
HooksAre(now, old, recorded, agrees) ==
  /\ Untouched(now, old) \/ Installed(now, old) \/ Removed(now, old)
  /\ agrees /\ recorded => Installed(now, old)
  /\ agrees /\ ~recorded => Untouched(now, old) \/ Removed(now, old)
  /\ \A e \in DOMAIN old \ Events : e \in DOMAIN now /\ now[e] = old[e]

\* So does an extension.
ExtensionIs(now, old, recorded, agrees) ==
  IF old = "foreign" THEN now = "foreign" /\ ~recorded
  ELSE agrees => IF recorded THEN now = "managed" ELSE now \in {old, "none"}

\* The files after any commands.
Consistent(before, files, torn, disabled) ==
  /\ DOMAIN files = Hosts \cup {"platforms"} /\ files.platforms \subseteq Hosts
  /\ \A h \in {"claude", "cursor"} :
       /\ "hooks" \in DOMAIN files[h]
       /\ HooksAre(files[h].hooks, before[h].hooks, h \in files.platforms, h \notin torn)
  /\ \A h \in {"pi", "omp"} : ExtensionIs(files[h], before[h], h \in files.platforms, h \notin torn)
  /\ "env" \in DOMAIN files.claude
  /\ Truthy(files.claude.env) => disabled \/ Truthy(before.claude.env)

\* So it is at every command.
Installs ==
  question.about = "install" =>
    /\ {"before", "files", "torn", "disabled"} \subseteq DOMAIN question /\ question.before \in SomeFiles
    /\ Consistent(question.before, question.files, question.torn, question.disabled)

\* What is left of a list after stripping has nothing of Nokori's.
LEMMA StripLeaves ==
  ASSUME NEW spec, spec \in Seq(ToSet(spec))
  PROVE  UsersOwn(StripNokori(spec))
<1> DEFINE S == {i \in DOMAIN spec : ~IsNokori(spec[i])}
           left == Left(spec, S)
<1>1. StripNokori(spec) = left
  BY DEF StripNokori, Keep
<1>2. S \in SUBSET (1..Len(spec))
  OBVIOUS
<1>3. left \in Seq(ToSet(spec)) /\ Len(left) = Cardinality(S) /\ \E at : Places(at, spec, S)
  BY <1>2, LeftInOrder
<1>4. PICK at : Places(at, spec, S)
  BY <1>3
<1> HIDE DEF left
<1>5. DOMAIN left = 1..Cardinality(S) /\ Cardinality(S) \in Nat
  BY <1>3
<1>6. \A k \in 1..Cardinality(S) : at[k] \in S /\ left[k] = spec[at[k]]
  BY <1>4 DEF Places, left
<1>7. \A k \in DOMAIN left : ~IsNokori(left[k])
  BY <1>5, <1>6
<1>8. left \in Seq(ToSet(left))
  <2> DEFINE m == Cardinality(S)
             T == ToSet(left)
  <2>1. \A k \in DOMAIN left : left[k] \in T
    BY DEF ToSet
  <2> HIDE DEF m, T
  <2>2. left \in [1..m -> ToSet(spec)] /\ m \in Nat
    <3> DEFINE V == ToSet(spec)
    <3>1. left \in Seq(V) /\ Len(left) = m /\ m \in Nat
      BY <1>3, <1>5 DEF m
    <3> HIDE DEF V
    <3>2. left \in [1..m -> V]
      BY <3>1
    <3> QED
      BY <3>1, <3>2 DEF V
  <2>3. left \in [1..m -> T]
    BY <2>1, <2>2
  <2> QED
    BY <2>2, <2>3 DEF T
<1> QED
  BY <1>1, <1>7, <1>8 DEF UsersOwn

\* Stripping leaves the user's hooks alone, with or without the one of Nokori.
LEMMA StripsItsOwn ==
  ASSUME NEW spec, UsersOwn(spec), NEW e \in Events
  PROVE  /\ StripNokori(spec) = spec
         /\ StripNokori(Append(spec, {Own(e)})) = spec
         /\ Append(spec, {Own(e)}) # <<>>
         /\ Len(spec) \in Nat /\ Len(Append(spec, {Own(e)})) = Len(spec) + 1
         /\ Append(spec, {Own(e)})[Len(spec) + 1] = {Own(e)} /\ Len(spec) + 1 \in DOMAIN Append(spec, {Own(e)})
         /\ IsNokori({Own(e)})
<1> DEFINE n == Len(spec)
           own == {Own(e)}
           long == Append(spec, own)
           T == ToSet(spec) \cup {own}
<1>1. /\ n \in Nat /\ DOMAIN spec = 1..n /\ spec \in Seq(ToSet(spec)) /\ spec = [k \in 1..n |-> spec[k]]
      /\ \A i \in 1..n : ~IsNokori(spec[i])
  BY DEF UsersOwn
<1>2. spec \in Seq(T) /\ own \in T
  BY <1>1, SeqMonotonic
<1>3. IsNokori(own)
  BY OwnIsNamed DEF IsNokori
<1> HIDE DEF n, own, T
<1>4. /\ Len(long) = n + 1 /\ DOMAIN long = 1..(n + 1) /\ long[n + 1] = own
      /\ \A i \in 1..n : long[i] = spec[i]
  BY <1>1, <1>2 DEF n
<1> HIDE DEF long
<1>5. StripNokori(spec) = spec
  <2>1. {i \in DOMAIN spec : ~IsNokori(spec[i])} = 1..n
    BY <1>1
  <2>2. StripNokori(spec) = Left(spec, 1..n)
    BY <2>1 DEF StripNokori, Keep
  <2> QED
    BY <1>1, <2>2, LeftOfPrefix
<1>6. StripNokori(long) = spec
  <2>1. {i \in DOMAIN long : ~IsNokori(long[i])} = 1..n
    BY <1>1, <1>3, <1>4
  <2>2. StripNokori(long) = Left(long, 1..n)
    BY <2>1 DEF StripNokori, Keep
  <2>3. Left(long, 1..n) = [k \in 1..n |-> long[k]]
    BY <1>1, LeftOfPrefix
  <2>4. [k \in 1..n |-> long[k]] = [k \in 1..n |-> spec[k]]
    BY <1>4
  <2> QED
    BY <1>1, <2>2, <2>3, <2>4
<1>7. long # <<>> /\ n + 1 \in DOMAIN long
  BY <1>1, <1>4
<1> QED
  BY <1>1, <1>3, <1>4, <1>5, <1>6, <1>7 DEF n, own, long

\* The hooks of an event that Nokori is installed to, or removed from.
LEMMA HooksOf ==
  ASSUME NEW hooks, NEW user, NEW e \in Events,
         UsersOwn(user), StripNokori(SpecOf(hooks, e)) = user
  PROVE  /\ SpecOf(MergeHooks(hooks), e) = Append(user, {Own(e)})
         /\ SpecOf(RemoveHooks(hooks), e) = user
<1>1. e \in DOMAIN MergeHooks(hooks) /\ MergeHooks(hooks)[e] = Append(user, {Own(e)})
  BY DEF MergeHooks
<1> DEFINE emptied == {x \in DOMAIN hooks \cap Events : hooks[x] # <<>> /\ StripNokori(hooks[x]) = <<>>}
<1>2. RemoveHooks(hooks) = [x \in DOMAIN hooks \ emptied |-> IF x \in Events THEN StripNokori(hooks[x]) ELSE hooks[x]]
  BY DEF RemoveHooks
<1>3. CASE e \notin DOMAIN hooks
  <2>1. SpecOf(hooks, e) = <<>> /\ SpecOf(RemoveHooks(hooks), e) = <<>>
    BY <1>2, <1>3 DEF SpecOf
  <2>2. UsersOwn(<<>>)
    BY DEF UsersOwn
  <2>3. user = <<>>
    BY <2>1, <2>2, StripsItsOwn
  <2> QED
    BY <1>1, <2>1, <2>3 DEF SpecOf
<1>4. CASE e \in emptied
  <2>1. SpecOf(RemoveHooks(hooks), e) = <<>>
    BY <1>2, <1>4 DEF SpecOf
  <2>2. user = <<>>
    BY <1>4 DEF SpecOf
  <2> QED
    BY <1>1, <2>1, <2>2 DEF SpecOf
<1>5. CASE e \in DOMAIN hooks \ emptied
  BY <1>1, <1>2, <1>5 DEF SpecOf
<1> QED
  BY <1>3, <1>4, <1>5

\* No other event is touched.
LEMMA OthersStay ==
  ASSUME NEW hooks, NEW e \in DOMAIN hooks \ Events
  PROVE  /\ e \in DOMAIN MergeHooks(hooks) /\ MergeHooks(hooks)[e] = hooks[e]
         /\ e \in DOMAIN RemoveHooks(hooks) /\ RemoveHooks(hooks)[e] = hooks[e]
  BY DEF MergeHooks, RemoveHooks

\* The hooks of a host that Nokori is installed to, or removed from.
LEMMA HooksOfHost ==
  ASSUME NEW old, \A e \in Events : SpecOf(old, e) \in Seq(ToSet(SpecOf(old, e))),
         NEW now, NEW recorded, NEW agrees, HooksAre(now, old, recorded, agrees)
  PROVE  /\ Installed(MergeHooks(now), old) /\ Removed(RemoveHooks(now), old)
         /\ HooksAre(MergeHooks(now), old, TRUE, TRUE) /\ HooksAre(RemoveHooks(now), old, FALSE, TRUE)
<1>1. ASSUME NEW e \in Events
      PROVE  /\ SpecOf(MergeHooks(now), e) = Append(StripNokori(SpecOf(old, e)), {Own(e)})
             /\ SpecOf(RemoveHooks(now), e) = StripNokori(SpecOf(old, e))
  <2> DEFINE user == StripNokori(SpecOf(old, e))
  <2>1. UsersOwn(user)
    BY StripLeaves
  <2>2. SpecOf(now, e) \in {SpecOf(old, e), user, Append(user, {Own(e)})}
    BY DEF HooksAre, Untouched, Installed, Removed
  <2> HIDE DEF user
  <2>3. StripNokori(user) = user /\ StripNokori(Append(user, {Own(e)})) = user
    BY <2>1, StripsItsOwn
  <2>4. StripNokori(SpecOf(now, e)) = user
    BY <2>2, <2>3 DEF user
  <2>5. SpecOf(MergeHooks(now), e) = Append(user, {Own(e)}) /\ SpecOf(RemoveHooks(now), e) = user
    BY <2>1, <2>4, HooksOf
  <2> QED
    BY <2>5 DEF user
<1>2. Installed(MergeHooks(now), old) /\ Removed(RemoveHooks(now), old)
  BY <1>1 DEF Installed, Removed
<1>3. ASSUME NEW e \in DOMAIN old \ Events
      PROVE  /\ e \in DOMAIN MergeHooks(now) /\ MergeHooks(now)[e] = old[e]
             /\ e \in DOMAIN RemoveHooks(now) /\ RemoveHooks(now)[e] = old[e]
  <2>1. e \in DOMAIN now \ Events /\ now[e] = old[e]
    BY DEF HooksAre
  <2> QED
    BY <2>1, OthersStay
<1> QED
  BY <1>2, <1>3 DEF HooksAre

\* What writing to the targets leaves in the files.
LEMMA WritesTargets ==
  ASSUME NEW files, DOMAIN files = Hosts \cup {"platforms"}, NEW targets \in SUBSET Hosts,
         NEW hooks, DOMAIN hooks = {"claude", "cursor"}, NEW extension, NEW platforms,
         \A h \in {"claude", "cursor"} : "hooks" \in DOMAIN files[h], "env" \in DOMAIN files.claude
  PROVE  LET new == [On(files, targets, hooks, extension) EXCEPT !.platforms = platforms] IN
         /\ DOMAIN new = Hosts \cup {"platforms"} /\ new.platforms = platforms
         /\ \A h \in {"claude", "cursor"} :
              /\ "hooks" \in DOMAIN new[h]
              /\ new[h].hooks = IF h \in targets THEN hooks[h] ELSE files[h].hooks
         /\ "env" \in DOMAIN new.claude /\ new.claude.env = files.claude.env
         /\ \A h \in {"pi", "omp"} : new[h] = IF h \in targets THEN extension ELSE files[h]
<1> DEFINE all == On(files, targets, hooks, extension)
           new == [all EXCEPT !.platforms = platforms]
<1>1. DOMAIN all = Hosts \cup {"platforms"}
  BY DEF On
<1>2. \A h \in Hosts : new[h] = IF h \notin targets THEN files[h]
                                ELSE IF h \in DOMAIN hooks THEN [files[h] EXCEPT !.hooks = hooks[h]] ELSE extension
  BY <1>1 DEF On, Hosts
<1>3. DOMAIN new = Hosts \cup {"platforms"} /\ new.platforms = platforms
  BY <1>1
<1> HIDE DEF new
<1>4. ASSUME NEW h \in {"claude", "cursor"}
      PROVE  /\ "hooks" \in DOMAIN new[h] /\ new[h].hooks = IF h \in targets THEN hooks[h] ELSE files[h].hooks
             /\ "env" \in DOMAIN files[h] => "env" \in DOMAIN new[h] /\ new[h].env = files[h].env
  <2>1. new[h] = IF h \notin targets THEN files[h] ELSE [files[h] EXCEPT !.hooks = hooks[h]]
    BY <1>2 DEF Hosts
  <2> QED
    BY <2>1
<1>5. \A h \in {"pi", "omp"} : new[h] = IF h \in targets THEN extension ELSE files[h]
  BY <1>2 DEF Hosts
<1>6. "env" \in DOMAIN new.claude /\ new.claude.env = files.claude.env
  BY <1>4
<1> QED
  BY <1>3, <1>4, <1>5, <1>6 DEF new

\* A command that completes has written everything.
LEMMA CompletesAll ==
  ASSUME NEW reach \in Reaches, Completes(reach)
  PROVE  Hosts \subseteq reach
<1>1. PICK n \in 0..5 : reach = {Order[i] : i \in 1..n}
  BY DEF Reaches
<1>2. PICK i \in 1..n : Order[i] = "platforms"
  BY <1>1 DEF Completes
<1>3. /\ Order[1] = "claude" /\ Order[2] = "cursor" /\ Order[3] = "pi" /\ Order[4] = "omp"
      /\ Order[5] = "platforms"
  BY DEF Order
<1>4. i \in {1, 2, 3, 4, 5}
  OBVIOUS
<1>5. i = 5
  BY <1>2, <1>3, <1>4
<1>6. n = 5
  BY <1>5
<1> QED
  BY <1>1, <1>3, <1>6 DEF Hosts

\* Installing and removing keep the files consistent; hooks and extension are
\* what the targets get, and records says that they are recorded.
LEMMA WritesKeep ==
  ASSUME NEW before \in SomeFiles, NEW files, NEW torn, NEW disabled,
         Consistent(before, files, torn, disabled),
         NEW targets \in SUBSET Hosts, ~Refuses(files, targets), NEW reach \in Reaches,
         NEW hooks, DOMAIN hooks = {"claude", "cursor"}, NEW records \in BOOLEAN,
         \A h \in {"claude", "cursor"} : HooksAre(hooks[h], before[h].hooks, records, TRUE)
  PROVE  LET extension == IF records THEN "managed" ELSE "none"
             written == On(files, targets \cap reach, hooks, extension)
         IN IF Completes(reach)
            THEN Consistent(before, [written EXCEPT !.platforms = IF records THEN files.platforms \cup targets
                                                                  ELSE files.platforms \ targets],
                            torn \ targets, disabled)
            ELSE Consistent(before, written, torn \cup (targets \cap reach), disabled)
<1> DEFINE extension == IF records THEN "managed" ELSE "none"
           T == targets \cap reach
           written == On(files, T, hooks, extension)
           done == Completes(reach)
           platforms == IF ~done THEN files.platforms
                        ELSE IF records THEN files.platforms \cup targets ELSE files.platforms \ targets
           new == [written EXCEPT !.platforms = platforms]
           torn2 == IF done THEN torn \ targets ELSE torn \cup T
<1>1. T \in SUBSET Hosts /\ (done => T = targets)
  BY CompletesAll
<1>2. written.platforms = files.platforms /\ (~done => written = new)
  <2>1. /\ DOMAIN written = Hosts \cup {"platforms"} /\ written.platforms = files.platforms
        /\ written = [h \in DOMAIN written |-> written[h]]
    BY <1>1 DEF On, Consistent, Hosts
  <2> HIDE DEF written
  <2> QED
    BY <2>1
<1>3. /\ DOMAIN new = Hosts \cup {"platforms"} /\ new.platforms = platforms
      /\ \A h \in {"claude", "cursor"} :
           /\ "hooks" \in DOMAIN new[h]
           /\ new[h].hooks = IF h \in T THEN hooks[h] ELSE files[h].hooks
      /\ "env" \in DOMAIN new.claude /\ new.claude.env = files.claude.env
      /\ \A h \in {"pi", "omp"} : new[h] = IF h \in T THEN extension ELSE files[h]
  BY <1>1, WritesTargets DEF Consistent
<1>4. /\ \A h \in T : IF done THEN h \notin torn2 /\ (h \in platforms <=> records) ELSE h \in torn2
      /\ \A h \in Hosts \ T : (h \in torn2 <=> h \in torn) /\ (h \in platforms <=> h \in files.platforms)
  BY <1>1
<1>5. platforms \subseteq Hosts
  BY DEF Consistent
<1> HIDE DEF new, torn2, platforms, T, done
<1>6. ASSUME NEW h \in {"claude", "cursor"}
      PROVE  HooksAre(new[h].hooks, before[h].hooks, h \in platforms, h \notin torn2)
  <2>1. HooksAre(files[h].hooks, before[h].hooks, h \in files.platforms, h \notin torn) /\ h \in Hosts
    BY DEF Consistent, Hosts
  <2>2. CASE h \in T
    BY <1>3, <1>4, <2>2 DEF HooksAre
  <2>3. CASE h \notin T
    BY <1>3, <1>4, <2>1, <2>3 DEF HooksAre
  <2> QED
    BY <2>2, <2>3
<1>7. ASSUME NEW h \in {"pi", "omp"}
      PROVE  ExtensionIs(new[h], before[h], h \in platforms, h \notin torn2)
  <2>1. ExtensionIs(files[h], before[h], h \in files.platforms, h \notin torn) /\ h \in Hosts
    BY DEF Consistent, Hosts
  <2>2. CASE h \in T
    <3>1. before[h] # "foreign"
      BY <2>1, <2>2 DEF Refuses, IsManaged, ExtensionIs, T
    <3> QED
      BY <1>3, <1>4, <2>2, <3>1 DEF ExtensionIs
  <2>3. CASE h \notin T
    BY <1>3, <1>4, <2>1, <2>3 DEF ExtensionIs
  <2> QED
    BY <2>2, <2>3
<1>8. Consistent(before, new, torn2, disabled)
  BY <1>3, <1>5, <1>6, <1>7 DEF Consistent
<1> QED
  BY <1>2, <1>8 DEF new, torn2, platforms, done, T

\* So does setting the environment of Claude.
LEMMA EnvKeeps ==
  ASSUME NEW before, NEW files, NEW torn, NEW disabled, Consistent(before, files, torn, disabled),
         NEW value, NEW disables, Truthy(value) => disables
  PROVE  Consistent(before, [files EXCEPT !.claude.env = value], torn, disabled \/ disables)
<1> DEFINE new == [files EXCEPT !.claude.env = value]
<1>1. /\ DOMAIN files = Hosts \cup {"platforms"} /\ "claude" \in DOMAIN files /\ "env" \in DOMAIN files.claude
      /\ \A h \in {"claude", "cursor"} : "hooks" \in DOMAIN files[h]
  BY DEF Consistent, Hosts
<1>2. /\ DOMAIN new = DOMAIN files /\ \A h \in DOMAIN files \ {"claude"} : new[h] = files[h]
      /\ new.claude = [files.claude EXCEPT !.env = value]
  BY <1>1
<1>3. /\ DOMAIN new.claude = DOMAIN files.claude
      /\ new.claude.env = value /\ new.claude.hooks = files.claude.hooks
  BY <1>1, <1>2
<1> HIDE DEF new
<1>4. /\ new.platforms = files.platforms /\ new.cursor = files.cursor
      /\ \A h \in {"pi", "omp"} : new[h] = files[h]
  BY <1>1, <1>2 DEF Hosts
<1>5. \A h \in {"claude", "cursor"} : new[h].hooks = files[h].hooks /\ "hooks" \in DOMAIN new[h]
  BY <1>1, <1>3, <1>4
<1>6. Consistent(before, new, torn, disabled \/ disables)
  BY <1>1, <1>2, <1>3, <1>4, <1>5 DEF Consistent
<1> QED
  BY <1>6 DEF new

\* A command keeps the files consistent, wherever it fails.
LEMMA CommandKeeps ==
  ASSUME NEW before \in SomeFiles, NEW files, NEW torn, NEW disabled,
         Consistent(before, files, torn, disabled),
         NEW verb \in Verbs, NEW flags, NEW reach \in Reaches
  PROVE  Consistent(before, Run(files, verb, flags, reach), TornBy(torn, files, verb, flags, reach),
                    disabled \/ verb = "disable")
<1> DEFINE targets == ResolveInstallTargets(flags, verb = "uninstall")
           new == Run(files, verb, flags, reach)
           torn2 == TornBy(torn, files, verb, flags, reach)
<1>1. targets \in SUBSET Hosts
  BY DEF ResolveInstallTargets, Flagged, Hosts
<1> HIDE DEF targets
<1>2. ASSUME NEW h \in {"claude", "cursor"}
      PROVE  /\ HooksAre(MergeHooks(files[h].hooks), before[h].hooks, TRUE, TRUE)
             /\ HooksAre(RemoveHooks(files[h].hooks), before[h].hooks, FALSE, TRUE)
  <2>1. \A e \in Events : SpecOf(before[h].hooks, e) \in Seq(ToSet(SpecOf(before[h].hooks, e)))
    BY FilesAreTheUsers
  <2> QED
    BY <2>1, HooksOfHost DEF Consistent
<1>3. ASSUME Consistent(before, new, torn2, disabled)
      PROVE  Consistent(before, new, torn2, disabled \/ verb = "disable")
  BY <1>3 DEF Consistent
<1>4. CASE new = files /\ torn2 = torn
  BY <1>3, <1>4
<1>5. CASE verb = "install" /\ ~Refuses(files, targets)
  <2> DEFINE hooks == [h \in {"claude", "cursor"} |-> MergeHooks(files[h].hooks)]
             written == On(files, targets \cap reach, hooks, "managed")
  <2>1. /\ new = IF Completes(reach) THEN MergePlatforms(written, targets) ELSE written
        /\ torn2 = IF Completes(reach) THEN torn \ targets ELSE torn \cup (targets \cap reach)
    BY <1>5 DEF Run, Install, TornBy, targets
  <2>2. written.platforms = files.platforms
    BY <1>1 DEF On, Consistent, Hosts
  <2>3. MergePlatforms(written, targets) = [written EXCEPT !.platforms = files.platforms \cup targets]
    BY <2>2 DEF MergePlatforms
  <2>4. \A h \in {"claude", "cursor"} : HooksAre(hooks[h], before[h].hooks, TRUE, TRUE)
    BY <1>2
  <2>5. DOMAIN hooks = {"claude", "cursor"}
    OBVIOUS
  <2> HIDE DEF hooks
  <2>6. IF Completes(reach)
        THEN Consistent(before, [written EXCEPT !.platforms = files.platforms \cup targets], torn \ targets, disabled)
        ELSE Consistent(before, written, torn \cup (targets \cap reach), disabled)
    BY <1>1, <1>5, <2>4, <2>5, WritesKeep
  <2> QED
    BY <1>3, <2>1, <2>3, <2>6
<1>6. CASE verb = "uninstall" /\ ~Refuses(files, targets)
  <2> DEFINE hooks == [h \in {"claude", "cursor"} |-> RemoveHooks(files[h].hooks)]
             written == On(files, targets \cap reach, hooks, "none")
  <2>1. /\ new = IF Completes(reach) THEN RemovePlatforms(written, targets) ELSE written
        /\ torn2 = IF Completes(reach) THEN torn \ targets ELSE torn \cup (targets \cap reach)
    BY <1>6 DEF Run, Uninstall, TornBy, targets
  <2>2. written.platforms = files.platforms
    BY <1>1 DEF On, Consistent, Hosts
  <2>3. RemovePlatforms(written, targets) = [written EXCEPT !.platforms = files.platforms \ targets]
    BY <2>2 DEF RemovePlatforms
  <2>4. \A h \in {"claude", "cursor"} : HooksAre(hooks[h], before[h].hooks, FALSE, TRUE)
    BY <1>2
  <2>5. DOMAIN hooks = {"claude", "cursor"}
    OBVIOUS
  <2> HIDE DEF hooks
  <2>6. IF Completes(reach)
        THEN Consistent(before, [written EXCEPT !.platforms = files.platforms \ targets], torn \ targets, disabled)
        ELSE Consistent(before, written, torn \cup (targets \cap reach), disabled)
    BY <1>1, <1>6, <2>4, <2>5, WritesKeep
  <2> QED
    BY <1>3, <2>1, <2>3, <2>6
<1>7. CASE verb \in {"disable", "enable"} /\ "claude" \in targets \cap reach
  <2> DEFINE value == IF verb = "disable" THEN "1" ELSE "none"
  <2>1. new = [files EXCEPT !.claude.env = value] /\ torn2 = torn
    BY <1>7 DEF Run, SetEnvFlag, TornBy, targets
  <2>2. Truthy(value) => verb = "disable"
    BY DEF Truthy
  <2> HIDE DEF value
  <2> QED
    BY <2>1, <2>2, EnvKeeps
<1>8. \/ new = files /\ torn2 = torn
      \/ verb \in {"install", "uninstall"} /\ ~Refuses(files, targets)
      \/ verb \in {"disable", "enable"} /\ "claude" \in targets \cap reach
  BY DEF Run, Verbs, Install, Uninstall, SetEnvFlag, TornBy, targets
<1> QED
  BY <1>4, <1>5, <1>6, <1>7, <1>8

\* Before any command the files are the user's.
LEMMA NotInstalledYet ==
  ASSUME NEW f \in SomeFiles
  PROVE  Consistent(f, f, {}, FALSE)
  BY FilesAreTheUsers DEF Consistent, HooksAre, ExtensionIs, Untouched

\* The installation is consistent after any number of commands.
LEMMA AlwaysInstalls == Spec => []Installs
<1>1. Init => Installs
  BY DEF Init, Installs
<1>2. Installs /\ [Next]_question => Installs'
  <2> SUFFICES ASSUME Installs, [Next]_question
               PROVE  Installs'
    OBVIOUS
  <2>1. CASE AskInstall
    <3>1. PICK f \in SomeFiles :
            question' = [about |-> "install", before |-> f, files |-> f, torn |-> {}, disabled |-> FALSE]
      BY <2>1 DEF AskInstall, Ask
    <3>2. Consistent(f, f, {}, FALSE)
      BY NotInstalledYet
    <3> QED
      BY <3>1, <3>2 DEF Installs
  <2>2. CASE Command
    <3>1. PICK verb \in Verbs, flags \in Flags, reach \in Reaches :
            question' = [question EXCEPT
              !.files = Run(@, verb, flags, reach),
              !.torn = TornBy(@, question.files, verb, flags, reach),
              !.disabled = @ \/ verb = "disable"]
      BY <2>2 DEF Command
    <3>2. question.about = "install"
      BY <2>2 DEF Command
    <3>3. {"before", "files", "torn", "disabled"} \subseteq DOMAIN question
      BY <3>2 DEF Installs
    <3>4. /\ DOMAIN question' = DOMAIN question /\ question'.before = question.before
          /\ question'.files = Run(question.files, verb, flags, reach)
          /\ question'.torn = TornBy(question.torn, question.files, verb, flags, reach)
          /\ question'.disabled = (question.disabled \/ verb = "disable")
      BY <3>1, <3>3
    <3> QED
      BY <3>2, <3>4, CommandKeeps DEF Installs
  <2>3. CASE AskMatch \/ AskTrial \/ AskLevel \/ AskSelection \/ AskBarriers \/ AskWindow \/ AskNeighbours
    <3>1. (AskMatch \/ AskTrial \/ AskLevel) => question'.about # "install"
      BY DEF AskMatch, AskTrial, AskLevel, Ask
    <3>2. AskSelection => question'.about # "install"
      BY DEF AskSelection, Ask
    <3>3. (AskBarriers \/ AskWindow) => question'.about # "install"
      BY DEF AskBarriers, AskWindow, Ask
    <3>4. AskNeighbours => question'.about # "install"
      <4> SUFFICES ASSUME AskNeighbours
                   PROVE  question'.about # "install"
        OBVIOUS
      <4>1. PICK n \in 1..MaxRules, c \in Cosines, limit \in Limits :
              \E t \in [1..n -> Table] :
                question' = [about |-> "neighbours", rules |-> [k \in 1..n |-> [t[k] EXCEPT !.id = k, !.updated = k]],
                             cosine |-> c, limit |-> limit]
        BY DEF AskNeighbours, Ask
      <4>2. PICK t \in [1..n -> Table] :
              question' = [about |-> "neighbours", rules |-> [k \in 1..n |-> [t[k] EXCEPT !.id = k, !.updated = k]],
                           cosine |-> c, limit |-> limit]
        BY <4>1
      <4> QED
        BY <4>2
    <3> QED
      BY <2>3, <3>1, <3>2, <3>3, <3>4 DEF Installs
  <2>4. CASE UNCHANGED question
    BY <2>4 DEF Installs
  <2> QED
    BY <2>1, <2>2, <2>3, <2>4 DEF Next
<1> QED
  BY <1>1, <1>2, PTL DEF Spec

\* Whatever commands are run, in whatever order and wherever they fail, the
\* settings of a host hold what is left of the user's hooks, with Nokori's or
\* without, as is recorded unless a failed command has written them last; what
\* is left is what Nokori does not take for its own (commands/install.py).
THEOREM UninstallIsClean == Spec => []UninstallRestores
<1>1. Installs => UninstallRestores
  <2> SUFFICES ASSUME Installs, question.about = "install"
               PROVE  UninstallRestores
    BY DEF UninstallRestores
  <2> DEFINE before == question.before
             after == question.files
  <2>1. before \in SomeFiles /\ Consistent(before, after, question.torn, question.disabled)
    BY DEF Installs
  <2> HIDE DEF before, after
  <2>2. ASSUME NEW h \in {"claude", "cursor"}
        PROVE  HooksAre(after[h].hooks, before[h].hooks, h \in after.platforms, h \notin question.torn)
    BY <2>1 DEF Consistent
  <2>3. ASSUME NEW h \in {"pi", "omp"}
        PROVE  /\ before[h] = "foreign" => after[h] = "foreign" /\ h \notin after.platforms
               /\ before[h] # "foreign" /\ h \notin question.torn =>
                    IF h \in after.platforms THEN DescribeExtension(after, h).installed ELSE after[h] \in {before[h], "none"}
    BY <2>1 DEF Consistent, ExtensionIs, DescribeExtension, IsManaged
  <2>4. DescribeClaudeHooks(after).disabled => question.disabled \/ DescribeClaudeHooks(before).disabled
    BY <2>1 DEF Consistent, DescribeClaudeHooks
  <2> QED
    BY <2>2, <2>3, <2>4 DEF UninstallRestores, HooksAre, before, after
<1> QED
  BY <1>1, AlwaysInstalls, PTL
=============================================================================
