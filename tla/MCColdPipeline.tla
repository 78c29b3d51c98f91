--------------------------- MODULE MCColdPipeline ---------------------------
(* Two candidates, one of which does not compile, and plans that merge,     *)
(* replace, split and keep both.                                            *)
EXTENDS ColdPipeline

CONSTANTS c1, c2

MCCandidates == <<c1, c2>>
MCOneCandidate == <<c1>>

\* Good enough for the fast lane, though to be rewritten first; and accepted
\* without being good enough for it.
Scores == {[[d \in Dimensions |-> 95] EXCEPT !.readiness = 70], [d \in Dimensions |-> 85]}

Plan(relation, winner) ==
  [relation |-> relation, newSafety |-> "safe", opSafety |-> "safe", winner |-> winner,
   confidence |-> 80]
\* The first merges into the existing rule or replaces it, the second replaces
\* it or is split.
MCPlans ==
  [c \in Cands |-> {Plan("equivalent", "new")} \cup
     (IF c = c1 THEN {Plan("equivalent", "existing")} ELSE {Plan("split_required", "new")})]

\* A rule in good standing, and what process_candidates knows of a candidate.
MCTraits == [status |-> "none", fingerprints |-> FALSE, observed |-> 20, falsePositive |-> 0,
             harmful |-> 0, quality |-> 80, evidence |-> 80, origin |-> "transcript_extraction",
             byUser |-> FALSE, stale |-> FALSE, action |-> "a", counts |-> <<1, 1, 1, 1>>]
MCNewTraits == [conflict |-> FALSE, improves |-> FALSE, userOpposite |-> FALSE, evidence |-> 0,
                action |-> "b", counts |-> <<1, 1, 1, 1>>]
=============================================================================
