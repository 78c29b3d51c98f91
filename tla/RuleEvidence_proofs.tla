------------------------ MODULE RuleEvidence_proofs ------------------------
(***************************************************************************)
(* What holds of the policy for any evidence, and of the evidence of a     *)
(* rule for any events, any windows, any bound on the fires and any        *)
(* thresholds that LifecyclePolicy allows.                                 *)
(***************************************************************************)
EXTENDS RuleEvidence, Ranks_proofs

-----------------------------------------------------------------------------
(* The policy stays within the relation MayDecide that RuleLifecycle lets  *)
(* an evaluation choose from.                                              *)

\* _evaluate_candidate: a replaced candidate is archived, any other may be
\* archived, activated or left alone.
THEOREM CandidateWithinMayDecide ==
  ASSUME NEW e \in ShadowEvidence, NEW harmed \in BOOLEAN, NEW reach
  PROVE  MayDecide("candidate", harmed, e.replaced, reach, e.stamped, EvaluateCandidate(e))
  BY DEF MayDecide, EvaluateCandidate, CandidateFails, ShadowEvidence

\* _evaluate_active: a rule with a harmful label in its lifetime is suppressed.
THEOREM ActiveWithinMayDecide ==
  ASSUME NEW e \in FireEvidence, NEW replaced \in BOOLEAN, NEW stamped \in BOOLEAN
  PROVE  MayDecide("active", e.harmful > 0, replaced, e.scope, stamped, EvaluateActive(e))
<1>1. e.harmful > 0 => EvaluateActive(e) = "suppressed"
  BY HarmSuppresses DEF EvaluateActive, FireFails, FireEvidence
<1>2. EvaluateActive(e) \in {"suppressed", "trusted", "none"}
  BY DEF EvaluateActive
<1> QED
  BY <1>1, <1>2 DEF MayDecide

\* _evaluate_trusted: likewise, and only a project rule is promoted to global.
THEOREM TrustedWithinMayDecide ==
  ASSUME NEW e \in FireEvidence, NEW replaced \in BOOLEAN, NEW stamped \in BOOLEAN
  PROVE  MayDecide("trusted", e.harmful > 0, replaced, e.scope, stamped, EvaluateTrusted(e))
<1>1. e.harmful > 0 => EvaluateTrusted(e) = "suppressed"
  BY HarmSuppresses DEF EvaluateTrusted, FireFails, FireEvidence
<1>2. \/ EvaluateTrusted(e) \in {"suppressed", "active", "none"}
      \/ (EvaluateTrusted(e) = "global" /\ e.scope = "project")
  BY DEF EvaluateTrusted
<1> QED
  BY <1>1, <1>2 DEF MayDecide

\* _evaluate_suppressed: nothing happens without a suppression timestamp, and a
\* replaced rule does not recover.
THEOREM SuppressedWithinMayDecide ==
  ASSUME NEW e \in ShadowEvidence, NEW harmed \in BOOLEAN, NEW reach
  PROVE  MayDecide("suppressed", harmed, e.replaced, reach, e.stamped, EvaluateSuppressed(e))
  BY DEF MayDecide, EvaluateSuppressed, ShadowEvidence

-----------------------------------------------------------------------------
(* Hysteresis                                                              *)

\* A rate that is at most a threshold is not at least a greater one.
LEMMA RatesAreOrdered ==
  ASSUME NEW a \in Nat, NEW b \in Nat, NEW n \in Nat, NEW d \in Nat \ {0}, a < b
  PROVE  ~(AtMost(n, d, a) /\ AtLeast(n, d, b))
<1>1. b * d = a * d + (b - a) * d
  OBVIOUS
<1>2. (b - a) * d >= 1
  OBVIOUS
<1>3. a * d \in Int /\ b * d \in Int
  OBVIOUS
<1> QED
  BY <1>1, <1>2, <1>3 DEF AtMost, AtLeast

\* A rate that is at least a threshold is at least any smaller one.
LEMMA RatesAreMonotone ==
  ASSUME NEW a \in Nat, NEW b \in Nat, NEW n \in Nat, NEW d \in Nat, a <= b
  PROVE  AtLeast(n, d, b) => AtLeast(n, d, a)
<1>1. b * d = a * d + (b - a) * d
  OBVIOUS
<1>2. (b - a) * d >= 0
  OBVIOUS
<1>3. a * d \in Int /\ b * d \in Int
  OBVIOUS
<1> QED
  BY <1>1, <1>2, <1>3 DEF AtLeast

\* _evaluate_active then _evaluate_trusted on the same evidence: a rule that
\* has just earned trust neither loses it nor is suppressed.
THEOREM TrustIsNotLostAtOnce ==
  ASSUME NEW e \in FireEvidence, EvaluateActive(e) = "trusted"
  PROVE  EvaluateTrusted(e) \in {"none", "global"}
<1>1. ~FireFails(e, ACTIVE_TO_SUPPRESSED) /\ EarnsTrust(e)
  BY DEF EvaluateActive
<1>2. /\ e.total \in Nat \ {0} /\ e.fp \in Nat /\ e.irrelevantInLast \in Nat
      /\ e.harmful \in Nat
  BY <1>1, PromotionIsStricter DEF EarnsTrust, FireEvidence
<1>3. AtMost(e.fp, e.total, ACTIVE_TO_TRUSTED.fp)
  BY <1>1 DEF EarnsTrust
<1>4. ~AtLeast(e.fp, e.total, TRUSTED_TO_SUPPRESSED.fp)
  BY <1>2, <1>3, RatesAreOrdered, PromotionIsStricter
<1>5. ~AtLeast(e.fp, e.total, TRUSTED_TO_ACTIVE.fp)
  BY <1>2, <1>3, RatesAreOrdered, PromotionIsStricter
<1>6. ~FireFails(e, TRUSTED_TO_SUPPRESSED)
  BY <1>1, <1>2, <1>4, HarmSuppresses, PromotionIsStricter DEF FireFails
<1>7. ~TrustDecays(e)
  BY <1>5 DEF TrustDecays
<1> QED
  BY <1>6, <1>7 DEF EvaluateTrusted

\* _evaluate_trusted then _evaluate_active on the same evidence: a rule whose
\* trust has just decayed is neither promoted again nor suppressed.
THEOREM DecayIsNotUndoneAtOnce ==
  ASSUME NEW e \in FireEvidence, EvaluateTrusted(e) = "active"
  PROVE  EvaluateActive(e) = "none"
<1>1. ~FireFails(e, TRUSTED_TO_SUPPRESSED) /\ TrustDecays(e)
  BY DEF EvaluateTrusted
<1>2. /\ e.total \in Nat \ {0} /\ e.fp \in Nat /\ e.irrelevantInLast \in Nat
      /\ e.harmful \in Nat
  BY <1>1, PromotionIsStricter DEF TrustDecays, FireEvidence
<1>3. e.total >= MINIMUM_RATE_DENOMINATOR /\ AtLeast(e.fp, e.total, TRUSTED_TO_ACTIVE.fp)
  BY <1>1 DEF TrustDecays
<1>4. ~AtMost(e.fp, e.total, ACTIVE_TO_TRUSTED.fp)
  BY <1>2, <1>3, RatesAreOrdered, PromotionIsStricter
<1>5. ~AtLeast(e.fp, e.total, TRUSTED_TO_SUPPRESSED.fp)
  BY <1>1, <1>3 DEF FireFails
<1>6. ~AtLeast(e.fp, e.total, ACTIVE_TO_SUPPRESSED.fp)
  BY <1>2, <1>5, RatesAreMonotone, PromotionIsStricter
<1>7. ~FireFails(e, ACTIVE_TO_SUPPRESSED)
  BY <1>1, <1>2, <1>6, HarmSuppresses, PromotionIsStricter DEF FireFails
<1>8. ~EarnsTrust(e)
  BY <1>4 DEF EarnsTrust
<1> QED
  BY <1>7, <1>8 DEF EvaluateActive

-----------------------------------------------------------------------------
(* Sequences of events                                                     *)

\* The first n elements of a sequence are a sequence no longer than n.
LEMMA FirstOfIsSeq ==
  ASSUME NEW T, NEW seq \in Seq(T), NEW n \in Nat
  PROVE  /\ FirstOf(seq, n) \in Seq(T)
         /\ Len(FirstOf(seq, n)) <= n /\ Len(FirstOf(seq, n)) <= Len(seq)
<1> DEFINE m == IF n < Len(seq) THEN n ELSE Len(seq)
<1>1. m \in Nat /\ m <= n /\ m <= Len(seq)
  OBVIOUS
<1>2. \A i \in 1..m : seq[i] \in T
  BY <1>1
<1> HIDE DEF m
<1>3. /\ SubSeq(seq, 1, m) \in Seq(T)
      /\ Len(SubSeq(seq, 1, m)) = IF 1 <= m THEN m - 1 + 1 ELSE 0
  BY <1>1, <1>2, SubSeqProperties
<1> QED
  BY <1>1, <1>3 DEF FirstOf, m

\* An insertion moves what comes after it by one, and loses nothing.
LEMMA InsertAtKeeps ==
  ASSUME NEW T, NEW seq \in Seq(T), NEW x \in T, NEW i \in 1..Len(seq) + 1
  PROVE  /\ InsertAt(seq, i, x) \in Seq(T)
         /\ Len(InsertAt(seq, i, x)) = Len(seq) + 1
         /\ \A k \in 1..Len(seq) : InsertAt(seq, i, x)[IF k < i THEN k ELSE k + 1] = seq[k]
<1> DEFINE n == Len(seq)
           a == SubSeq(seq, 1, i - 1)
           b == SubSeq(seq, i, n)
<1>1. n \in Nat /\ i \in Nat /\ 1 <= i /\ i <= n + 1
  OBVIOUS
<1>2. \A k \in 1..n : seq[k] \in T
  OBVIOUS
<1>3. /\ a \in Seq(T) /\ Len(a) = i - 1
      /\ \A k \in 1..(i - 1) : a[k] = seq[k]
  <2>1. /\ a \in Seq(T) /\ Len(a) = IF 1 <= i - 1 THEN i - 1 - 1 + 1 ELSE 0
        /\ \A k \in 1..(i - 1 - 1 + 1) : a[k] = seq[1 + k - 1]
    BY <1>1, <1>2, SubSeqProperties
  <2> HIDE DEF a, n
  <2> QED
    BY <1>1, <2>1
<1>4. /\ b \in Seq(T) /\ Len(b) = n - i + 1
      /\ \A k \in 1..(n - i + 1) : b[k] = seq[i + k - 1]
  <2>1. /\ b \in Seq(T) /\ Len(b) = IF i <= n THEN n - i + 1 ELSE 0
        /\ \A k \in 1..(n - i + 1) : b[k] = seq[i + k - 1]
    BY <1>1, <1>2, SubSeqProperties
  <2> HIDE DEF b, n
  <2> QED
    BY <1>1, <2>1
<1> HIDE DEF a, b, n
<1>5. <<x>> \in Seq(T) /\ Len(<<x>>) = 1
  OBVIOUS
<1>6. /\ a \o <<x>> \in Seq(T) /\ Len(a \o <<x>>) = i
      /\ \A k \in 1..(i - 1) : (a \o <<x>>)[k] = a[k]
  <2>1. /\ a \o <<x>> \in Seq(T) /\ Len(a \o <<x>>) = Len(a) + Len(<<x>>)
        /\ \A k \in 1..(Len(a) + Len(<<x>>)) :
             (a \o <<x>>)[k] = IF k <= Len(a) THEN a[k] ELSE <<x>>[k - Len(a)]
    BY <1>3, <1>5, ConcatProperties
  <2> QED
    BY <1>1, <1>3, <1>5, <2>1
<1> DEFINE c == a \o <<x>>
           d == c \o b
<1>6a. /\ c \in Seq(T) /\ Len(c) = i
      /\ \A k \in 1..(i - 1) : c[k] = a[k]
  BY <1>6
<1> HIDE DEF c
<1>7. /\ d \in Seq(T) /\ Len(d) = Len(c) + Len(b)
      /\ \A k \in 1..(Len(c) + Len(b)) : d[k] = IF k <= Len(c) THEN c[k] ELSE b[k - Len(c)]
  BY <1>6a, <1>4, ConcatProperties
<1> HIDE DEF d
<1>8. Len(c) = i /\ Len(d) = n + 1
  BY <1>1, <1>6a, <1>4, <1>7
<1>9. \A k \in 1..n : d[IF k < i THEN k ELSE k + 1] = seq[k]
  <2> SUFFICES ASSUME NEW k \in 1..n
               PROVE  d[IF k < i THEN k ELSE k + 1] = seq[k]
    OBVIOUS
  <2>1. CASE k < i
    <3>1. d[k] = c[k] /\ c[k] = a[k] /\ a[k] = seq[k]
      BY <1>1, <1>3, <1>4, <1>6a, <1>7, <1>8, <2>1
    <3> QED
      BY <2>1, <3>1
  <2>2. CASE ~(k < i)
    <3> DEFINE j == k + 1
    <3>3. j \in 1..(Len(c) + Len(b)) /\ ~(j <= Len(c)) /\ j - Len(c) = k + 1 - i
      BY <1>1, <1>4, <1>8, <2>2
    <3> HIDE DEF j
    <3>4. d[j] = b[j - Len(c)]
      BY <1>7, <3>3
    <3>1. d[k + 1] = b[k + 1 - i]
      BY <3>4, <3>3 DEF j
    <3>2. b[k + 1 - i] = seq[i + (k + 1 - i) - 1] /\ i + (k + 1 - i) - 1 = k
      BY <1>1, <1>4, <2>2
    <3> QED
      BY <2>2, <3>1, <3>2
  <2> QED
    BY <2>1, <2>2
<1> QED
  BY <1>7, <1>8, <1>9 DEF InsertAt, a, b, c, d, n

\* A sequence that has a place of its own for every element with a label has no
\* fewer of them.
LEMMA NoFewer ==
  ASSUME NEW T, NEW old \in Seq(T), NEW new \in Seq(T), NEW label,
         NEW S \in SUBSET (1..Len(old)), Labelled(old, label) \subseteq S,
         NEW place \in Injection(S, 1..Len(new)), \A i \in S : new[place[i]] = old[i]
  PROVE  /\ CountOf(old, label) \in Nat /\ CountOf(new, label) \in Nat
         /\ CountOf(old, label) <= CountOf(new, label)
<1> DEFINE O == Labelled(old, label)
           N == Labelled(new, label)
           f == [i \in O |-> place[i]]
<1>1. f \in Injection(O, N)
  BY DEF Injection, IsInjective, Labelled
<1>2. IsFiniteSet(N) /\ IsFiniteSet(O)
  <2>1. IsFiniteSet(1..Len(new)) /\ IsFiniteSet(1..Len(old))
    BY FS_Interval
  <2>2. N \in SUBSET (1..Len(new)) /\ O \in SUBSET (1..Len(old))
    BY DEF Labelled
  <2> QED
    BY <2>1, <2>2, FS_Subset
<1> HIDE DEF O, N, f
<1>3. Cardinality(O) <= Cardinality(N)
  BY <1>1, <1>2, FS_Injection
<1> QED
  BY <1>2, <1>3, FS_CardinalityType DEF CountOf, O, N

-----------------------------------------------------------------------------
(* Types                                                                   *)

\* The decision of an evaluation is a status, the scope or nothing.
LEMMA DecisionIsTyped == Decision \in Statuses \cup {"none", "global"}
BY DEF Decision, EvaluateCandidate, EvaluateActive, EvaluateTrusted, EvaluateSuppressed,
       Statuses, LiveStatuses

\* The rule begins without events.
LEMMA InitTypes == Init => TypeOK
<1> SUFFICES ASSUME Init
             PROVE  TypeOK
  OBVIOUS
<1>1. fires = <<>> /\ shadows = <<>> /\ fresh = 0
  BY DEF Init
<1>2. fires \in Seq(FireEvents) /\ Len(fires) = 0 /\ shadows \in Seq(ShadowEvents) /\ Len(shadows) = 0
  BY <1>1
<1>3. MaxFires \in Nat /\ SHADOW_EVENT_WINDOW \in Nat /\ fresh \in 0..Len(fires)
  BY <1>1, <1>2, EvidenceAssumption
<1>4. Len(fires) <= MaxFires /\ Len(shadows) <= SHADOW_EVENT_WINDOW
  BY <1>2, <1>3
<1>5. /\ status \in Statuses /\ scope \in {"project", "global"}
      /\ recentHarmful \in BOOLEAN /\ expired \in BOOLEAN
  BY EvidenceAssumption DEF Init, Statuses, LiveStatuses
<1> QED
  BY <1>2, <1>3, <1>4, <1>5 DEF TypeOK

\* LabelShadow: the window is cut to its length again.
LEMMA LabelShadowTypes ==
  ASSUME TypeOK, NEW s \in ShadowEvents, NEW i \in 1..SHADOW_EVENT_WINDOW, LabelShadow(s, i)
  PROVE  TypeOK'
<1> DEFINE new == InsertAt(shadows, i, s)
<1>1. shadows \in Seq(ShadowEvents) /\ i \in 1..Len(shadows) + 1 /\ SHADOW_EVENT_WINDOW \in Nat
  BY EvidenceAssumption DEF TypeOK, LabelShadow
<1>2. new \in Seq(ShadowEvents)
  BY <1>1, InsertAtKeeps
<1>3. shadows' = FirstOf(new, SHADOW_EVENT_WINDOW)
  BY DEF LabelShadow
<1> HIDE DEF new
<1>4. shadows' \in Seq(ShadowEvents) /\ Len(shadows') <= SHADOW_EVENT_WINDOW
  BY <1>1, <1>2, <1>3, FirstOfIsSeq
<1> QED
  BY <1>4 DEF TypeOK, LabelShadow

\* LabelFire: the label falls into the window, which grows with the fires.
LEMMA LabelFireTypes ==
  ASSUME TypeOK, NEW f \in FireEvents, NEW i \in 1..MaxFires, LabelFire(f, i)
  PROVE  TypeOK'
<1>1. /\ fires \in Seq(FireEvents) /\ MaxFires \in Nat /\ fresh \in 0..Len(fires)
      /\ Len(fires) < MaxFires /\ i \in 1..fresh + 1
  BY EvidenceAssumption DEF TypeOK, LabelFire
<1>2. i \in 1..Len(fires) + 1
  BY <1>1
<1>3. fires' \in Seq(FireEvents) /\ Len(fires') = Len(fires) + 1
  BY <1>1, <1>2, InsertAtKeeps DEF LabelFire
<1>4. Len(fires') <= MaxFires /\ fresh' \in 0..Len(fires')
  BY <1>1, <1>3 DEF LabelFire
<1> QED
  BY <1>3, <1>4 DEF TypeOK, LabelFire

\* ShadowAges: the oldest match leaves the window.
LEMMA ShadowAgesTypes ==
  ASSUME TypeOK, ShadowAges
  PROVE  TypeOK'
<1>1. shadows \in Seq(ShadowEvents) /\ shadows # <<>> /\ Len(shadows) <= SHADOW_EVENT_WINDOW
  BY DEF TypeOK, ShadowAges
<1>2. Len(shadows) - 1 \in Nat /\ SHADOW_EVENT_WINDOW \in Nat
  BY <1>1, EmptySeq, EvidenceAssumption
<1>3. shadows' \in Seq(ShadowEvents) /\ Len(shadows') <= SHADOW_EVENT_WINDOW
  <2>1. shadows' = FirstOf(shadows, Len(shadows) - 1)
    BY DEF ShadowAges
  <2>2. shadows' \in Seq(ShadowEvents) /\ Len(shadows') <= Len(shadows)
    BY <1>1, <1>2, <2>1, FirstOfIsSeq
  <2> QED
    BY <1>1, <1>2, <2>2
<1> QED
  BY <1>3 DEF TypeOK, ShadowAges

\* The positions that the retention leaves alone.
Spared == 1..fresh \cup Labelled(fires, "harmful")

\* They are positions, and those of the window are among them.
LEMMA SparedFacts ==
  ASSUME TypeOK
  PROVE  /\ Spared \in SUBSET (1..Len(fires)) /\ 1..fresh \in SUBSET Spared
         /\ IsFiniteSet(Spared) /\ IsFiniteSet(1..fresh) /\ Cardinality(1..fresh) = fresh
<1>1. fires \in Seq(FireEvents) /\ fresh \in Nat /\ fresh <= Len(fires) /\ Len(fires) \in Nat
  BY DEF TypeOK
<1>2. Spared \in SUBSET (1..Len(fires)) /\ 1..fresh \in SUBSET Spared
  BY <1>1 DEF Spared, Labelled
<1>3. /\ IsFiniteSet(1..Len(fires)) /\ IsFiniteSet(1..fresh)
      /\ Cardinality(1..fresh) = IF 1 > fresh THEN 0 ELSE fresh - 1 + 1
  BY <1>1, FS_Interval
<1>4. IsFiniteSet(Spared)
  BY <1>2, <1>3, FS_Subset
<1> QED
  BY <1>1, <1>2, <1>3, <1>4

\* InjectionCleanup: the window is spared, so what it counts is still there.
LEMMA InjectionCleanupTypes ==
  ASSUME TypeOK, InjectionCleanup
  PROVE  TypeOK'
<1>1. /\ fires \in Seq(FireEvents) /\ fresh \in Nat /\ Len(fires) <= MaxFires
      /\ Len(fires) \in Nat /\ MaxFires \in Nat
  BY EvidenceAssumption DEF TypeOK
<1>2. fires' = Left(fires, Spared) /\ fresh' = fresh
  BY DEF InjectionCleanup, Spared
<1>3. /\ Spared \in SUBSET (1..Len(fires)) /\ 1..fresh \in SUBSET Spared
      /\ IsFiniteSet(Spared) /\ Cardinality(1..fresh) = fresh
  BY SparedFacts
<1>4. /\ fires' \in Seq(FireEvents) /\ Len(fires') = Cardinality(Spared)
      /\ Cardinality(Spared) \in Nat /\ Cardinality(Spared) <= Len(fires)
  BY <1>1, <1>2, <1>3, LeftKeeps
<1>5. fresh <= Cardinality(Spared)
  BY <1>3, FS_Subset
<1>6. Len(fires') <= MaxFires /\ fresh' \in 0..Len(fires')
  BY <1>1, <1>2, <1>4, <1>5
<1> QED
  BY <1>4, <1>6 DEF TypeOK, InjectionCleanup

\* Evaluate: a decision other than a status moves the scope or nothing.
LEMMA EvaluateTypes ==
  ASSUME TypeOK, Evaluate
  PROVE  TypeOK'
<1>1. SHADOW_EVENT_WINDOW \in Nat /\ shadows' = <<>>
  BY EvidenceAssumption DEF Evaluate, Transition, CrossProjectPromotion
<1>2. shadows' \in Seq(ShadowEvents) /\ Len(shadows') <= SHADOW_EVENT_WINDOW
  BY <1>1
<1>3. CASE Transition
  BY <1>2, <1>3 DEF Transition, TypeOK
<1>4. CASE CrossProjectPromotion
  BY <1>2, <1>4 DEF CrossProjectPromotion, TypeOK
<1> QED
  BY <1>3, <1>4 DEF Evaluate

\* The windows never count more events than there are, and no more than the
\* bounds: for any bounds of the windows.
THEOREM EvidenceTypes == Spec => []TypeOK
<1>1. Init => TypeOK
  BY InitTypes
<1>2. TypeOK /\ [Next]_vars => TypeOK'
  <2> SUFFICES ASSUME TypeOK, [Next]_vars
               PROVE  TypeOK'
    OBVIOUS
  <2>1. CASE \E s \in ShadowEvents, i \in 1..SHADOW_EVENT_WINDOW : LabelShadow(s, i)
    BY <2>1, LabelShadowTypes
  <2>2. CASE \E f \in FireEvents, i \in 1..MaxFires : LabelFire(f, i)
    BY <2>2, LabelFireTypes
  <2>3. CASE FireAges
    <3>1. fresh \in 0..Len(fires) /\ fresh > 0 /\ Len(fires) \in Nat
      BY <2>3 DEF TypeOK, FireAges
    <3>2. fresh - 1 \in 0..Len(fires)
      BY <3>1
    <3> QED
      BY <2>3, <3>2 DEF TypeOK, FireAges
  <2>4. CASE ShadowAges
    BY <2>4, ShadowAgesTypes
  <2>5. CASE SuppressionExpires
    BY <2>5 DEF TypeOK, SuppressionExpires
  <2>6. CASE InjectionCleanup
    BY <2>6, InjectionCleanupTypes
  <2>7. CASE Evaluate
    BY <2>7, EvaluateTypes
  <2>8. CASE UNCHANGED vars
    BY <2>8 DEF TypeOK, vars
  <2> QED
    BY <2>1, <2>2, <2>3, <2>4, <2>5, <2>6, <2>7, <2>8 DEF Next
<1> QED
  BY <1>1, <1>2, PTL DEF Spec

-----------------------------------------------------------------------------
(* Flapping                                                                *)

\* What is counted in a sequence is a number.
LEMMA CountsAreNumbers ==
  ASSUME NEW T, NEW seq \in Seq(T)
  PROVE  /\ IsFiniteSet(DOMAIN seq)
         /\ \A label : CountOf(seq, label) \in Nat
         /\ \A S \in SUBSET (DOMAIN seq) : IsFiniteSet(S) /\ Cardinality(S) \in Nat
<1> DEFINE n == Len(seq)
<1>1. n \in Nat /\ DOMAIN seq = 1..n
  OBVIOUS
<1> HIDE DEF n
<1>2. IsFiniteSet(DOMAIN seq)
  BY <1>1, FS_Interval
<1>3. \A S \in SUBSET (DOMAIN seq) : IsFiniteSet(S) /\ Cardinality(S) \in Nat
  BY <1>2, FS_Subset, FS_CardinalityType
<1>4. \A label : Labelled(seq, label) \in SUBSET (DOMAIN seq)
  BY DEF Labelled
<1> QED
  BY <1>2, <1>3, <1>4 DEF CountOf

\* What a function takes on a finite set is finite.
LEMMA ImageIsFinite ==
  ASSUME NEW S, IsFiniteSet(S), NEW f, DOMAIN f = S
  PROVE  IsFiniteSet({f[i] : i \in S})
<1> DEFINE g == [i \in S |-> f[i]]
<1>1. g \in Surjection(S, {f[i] : i \in S})
  BY DEF Surjection
<1> QED
  BY <1>1, FS_Surjection

\* What an evaluation gathers is evidence of the policy.
LEMMA EvidenceIsTyped ==
  ASSUME TypeOK
  PROVE  FireEvidenceNow \in FireEvidence
<1> DEFINE recent == FirstOf(FirstOf(fires, fresh), RECENT_EVENT_WINDOW)
           strong == {i \in Labelled(recent, "observed_useful") : recent[i].strong}
           fp == {i \in DOMAIN recent : recent[i].fp}
           sessions == {recent[i].session : i \in strong}
<1>1. /\ fires \in Seq(FireEvents) /\ fresh \in Nat /\ Len(fires) \in Nat
      /\ RECENT_EVENT_WINDOW \in Nat /\ LAST \in Nat
  BY EvidenceAssumption DEF TypeOK
<1>2. recent \in Seq(FireEvents)
  <2>1. FirstOf(fires, fresh) \in Seq(FireEvents)
    BY <1>1, FirstOfIsSeq
  <2> QED
    BY <1>1, <2>1, FirstOfIsSeq
<1>3. strong \in SUBSET (DOMAIN recent) /\ fp \in SUBSET (DOMAIN recent)
  BY DEF Labelled
<1>4. FirstOf(recent, LAST) \in Seq(FireEvents) /\ Len(recent) \in Nat
  <2> HIDE DEF recent
  <2> QED
    BY <1>1, <1>2, FirstOfIsSeq
<1>5. /\ Cardinality(strong) \in Nat /\ Cardinality(fp) \in Nat /\ IsFiniteSet(strong)
      /\ CountOf(recent, "observed_useful") \in Nat /\ CountOf(recent, "irrelevant") \in Nat
  <2> HIDE DEF recent, strong, fp
  <2> QED
    BY <1>2, <1>3, CountsAreNumbers
<1>6. CountOf(FirstOf(recent, LAST), "irrelevant") \in Nat
  <2> HIDE DEF recent
  <2> QED
    BY <1>4, CountsAreNumbers
<1>7. Cardinality(sessions) \in Nat
  <2> HIDE DEF recent, strong
  <2> DEFINE f == [i \in strong |-> recent[i].session]
  <2>0. sessions = {f[i] : i \in strong} /\ DOMAIN f = strong
    OBVIOUS
  <2> HIDE DEF f
  <2>1. IsFiniteSet(sessions)
    BY <1>5, <2>0, ImageIsFinite
  <2> QED
    BY <2>1, FS_CardinalityType
<1>8. LifetimeHarmful \in Nat
  BY <1>1, CountsAreNumbers DEF LifetimeHarmful
<1>9. Cardinality(UsefulProjects) \in Nat
  <2>1. Labelled(fires, "observed_useful") \in SUBSET (DOMAIN fires)
    BY DEF Labelled
  <2>2. IsFiniteSet(Labelled(fires, "observed_useful"))
    BY <1>1, <2>1, CountsAreNumbers
  <2> DEFINE S == Labelled(fires, "observed_useful")
             f == [i \in S |-> fires[i].project]
  <2>0. UsefulProjects = {f[i] : i \in S} /\ DOMAIN f = S
    BY DEF UsefulProjects
  <2> HIDE DEF f
  <2>3. IsFiniteSet(UsefulProjects)
    BY <2>2, <2>0, ImageIsFinite
  <2> QED
    BY <2>3, FS_CardinalityType
<1>10. scope \in {"project", "global"}
  BY DEF TypeOK
<1>11. FireEvidenceNow =
         [useful |-> Cardinality(strong),
          usefulTotal |-> CountOf(recent, "observed_useful"),
          sessions |-> Cardinality(sessions),
          irrelevant |-> CountOf(recent, "irrelevant"),
          irrelevantInLast |-> CountOf(FirstOf(recent, LAST), "irrelevant"),
          fp |-> Cardinality(fp),
          total |-> Len(recent),
          harmful |-> LifetimeHarmful,
          scope |-> scope,
          projects |-> Cardinality(UsefulProjects)]
  BY DEF FireEvidenceNow
<1> HIDE DEF recent, strong, fp, sessions
<1> QED
  BY <1>4, <1>5, <1>6, <1>7, <1>8, <1>9, <1>10, <1>11 DEF FireEvidence

\* Whatever the windows are and however labels, time and the retention change
\* them, the next evaluation of the same fires undoes neither a promotion to
\* trusted nor the decay of trust (_evaluate_active, _evaluate_trusted).
THEOREM EvaluationsDoNotFlap == Spec => []NoFlapping
<1>1. TypeOK => NoFlapping
  BY EvidenceIsTyped, TrustIsNotLostAtOnce, DecayIsNotUndoneAtOnce
     DEF NoFlapping, TrustIsStable, DecayIsStable
<1> QED
  BY <1>1, EvidenceTypes, PTL

-----------------------------------------------------------------------------
(* Harm                                                                    *)

\* The label of an event falls somewhere between the others.
LEMMA LabelFireKeepsHarm ==
  ASSUME TypeOK, NEW f \in FireEvents, NEW i \in 1..MaxFires, LabelFire(f, i)
  PROVE  LifetimeHarmful' >= LifetimeHarmful
<1> DEFINE n == Len(fires)
           place == [k \in 1..n |-> IF k < i THEN k ELSE k + 1]
<1>1. /\ fires \in Seq(FireEvents) /\ n \in Nat /\ fresh \in 0..n
      /\ i \in 1..fresh + 1 /\ i \in 1..n + 1
  BY DEF TypeOK, LabelFire
<1>2. /\ fires' \in Seq(FireEvents) /\ Len(fires') = n + 1
      /\ \A k \in 1..n : fires'[IF k < i THEN k ELSE k + 1] = fires[k]
  BY <1>1, InsertAtKeeps DEF LabelFire
<1> HIDE DEF n
<1>3. place \in [1..n -> 1..(n + 1)] /\ \A k, j \in 1..n : place[k] = place[j] => k = j
  BY <1>1
<1>4. place \in Injection(1..n, 1..Len(fires'))
  BY <1>2, <1>3 DEF Injection, IsInjective
<1>5. \A k \in 1..n : fires'[place[k]] = fires[k]
  BY <1>2
<1>6. Labelled(fires, "harmful") \subseteq 1..n /\ 1..n \in SUBSET (1..Len(fires))
  BY <1>1 DEF Labelled, n
<1> HIDE DEF place
<1> DEFINE new == fires'
<1>7. new \in Seq(FireEvents) /\ place \in Injection(1..n, 1..Len(new))
  BY <1>2, <1>4
<1>8. \A k \in 1..n : new[place[k]] = fires[k]
  BY <1>5
<1> HIDE DEF new
<1>9. /\ CountOf(fires, "harmful") \in Nat /\ CountOf(new, "harmful") \in Nat
      /\ CountOf(fires, "harmful") <= CountOf(new, "harmful")
  BY <1>1, <1>6, <1>7, <1>8, NoFewer
<1> QED
  BY <1>9 DEF LifetimeHarmful, new

\* The retention spares whatever is harmful.
LEMMA InjectionCleanupKeepsHarm ==
  ASSUME TypeOK, InjectionCleanup
  PROVE  LifetimeHarmful' >= LifetimeHarmful
<1> DEFINE new == Left(fires, Spared)
<1>1. /\ fires \in Seq(FireEvents) /\ Spared \in SUBSET (1..Len(fires))
      /\ Labelled(fires, "harmful") \subseteq Spared
  BY SparedFacts DEF TypeOK, Spared
<1>2. fires' = new
  BY DEF InjectionCleanup, Spared
<1>3. /\ new \in Seq(FireEvents) /\ Len(new) = Cardinality(Spared)
      /\ \E place \in Injection(Spared, 1..Cardinality(Spared)) :
           \A i \in Spared : new[place[i]] = fires[i]
  BY <1>1, LeftKeeps
<1> HIDE DEF new
<1>4. PICK place \in Injection(Spared, 1..Len(new)) : \A i \in Spared : new[place[i]] = fires[i]
  BY <1>3
<1>5. /\ CountOf(fires, "harmful") \in Nat /\ CountOf(new, "harmful") \in Nat
      /\ CountOf(fires, "harmful") <= CountOf(new, "harmful")
  BY <1>1, <1>3, <1>4, NoFewer
<1> QED
  BY <1>2, <1>5 DEF LifetimeHarmful

\* Neither a late label nor time nor the retention lets the lifetime harm of a
\* rule decrease (run_injection_cleanup with gather_fire_evidence).
THEOREM HarmIsForLife == Spec => HarmNeverDecays
<1>1. TypeOK /\ [Next]_vars => [LifetimeHarmful' >= LifetimeHarmful]_vars
  <2> SUFFICES ASSUME TypeOK, [Next]_vars
               PROVE  LifetimeHarmful' >= LifetimeHarmful \/ UNCHANGED vars
    OBVIOUS
  <2>1. LifetimeHarmful \in Nat
    BY CountsAreNumbers DEF TypeOK, LifetimeHarmful
  <2>2. ASSUME UNCHANGED fires
        PROVE  LifetimeHarmful' >= LifetimeHarmful
    <3>1. LifetimeHarmful' = LifetimeHarmful
      BY <2>2 DEF LifetimeHarmful
    <3> QED
      BY <2>1, <3>1
  <2>3. CASE \E s \in ShadowEvents, i \in 1..SHADOW_EVENT_WINDOW : LabelShadow(s, i)
    BY <2>2, <2>3 DEF LabelShadow
  <2>4. CASE \E f \in FireEvents, i \in 1..MaxFires : LabelFire(f, i)
    BY <2>4, LabelFireKeepsHarm
  <2>5. CASE FireAges \/ ShadowAges \/ SuppressionExpires
    BY <2>2, <2>5 DEF FireAges, ShadowAges, SuppressionExpires
  <2>6. CASE InjectionCleanup
    BY <2>6, InjectionCleanupKeepsHarm
  <2>7. CASE Evaluate
    BY <2>2, <2>7 DEF Evaluate, Transition, CrossProjectPromotion
  <2> QED
    BY <2>3, <2>4, <2>5, <2>6, <2>7 DEF Next
<1> QED
  BY <1>1, EvidenceTypes, PTL DEF Spec, HarmNeverDecays
=============================================================================
