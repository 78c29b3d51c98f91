---------------------------- MODULE RuleEvidence ----------------------------
(***************************************************************************)
(* One rule and the evidence the lifecycle gathers about it: fire events   *)
(* with their posthoc labels, shadow events with theirs, the windows they  *)
(* are counted in, the retention that deletes them, and the evaluation     *)
(* that turns them into a status.  An evaluation is one step here; what    *)
(* other writers do between its reads and its write is in RuleLifecycle.   *)
(*                                                                         *)
(* A shadow event belongs to the version of the rule that was matched, and *)
(* is counted for that version only; since versions only grow, a change of *)
(* version empties the sequence of shadow events that can still count.     *)
(***************************************************************************)
EXTENDS LifecyclePolicy, Sequences, FiniteSets, Ranks

CONSTANTS
  FireEvents,           \* labelled fires: [label, session, project, strong, fp]
  ShadowEvents,         \* labelled shadow matches: [label, session, task]
  RECENT_EVENT_WINDOW,  \* fires an evaluation looks at
  SHADOW_EVENT_WINDOW,  \* shadow matches an evaluation looks at
  LAST,                 \* the newest fires of irrelevant_in_last_5
  MaxFires,             \* bound on the fire events of the rule
  InitialScope

ASSUME EvidenceAssumption ==
  /\ \A f \in FireEvents : f.label \in {"observed_useful", "plausible_useful",
                                        "irrelevant", "harmful"}
  /\ \A s \in ShadowEvents : s.label \in {"would_help_high", "would_help_low",
                                          "irrelevant", "risky", "near_miss"}
  /\ {RECENT_EVENT_WINDOW, SHADOW_EVENT_WINDOW, LAST, MaxFires} \subseteq Nat
  /\ InitialScope \in {"project", "global"}

VARIABLES
  status, scope,
  fires,          \* labelled fire events, newest first
  fresh,          \* how many of them are in the recent time window
  shadows,        \* labelled shadow events of this version, newest first
  recentHarmful,  \* while suppressed: a fire since then is labelled harmful
  expired         \* while suppressed: for longer than the TTL

vars == <<status, scope, fires, fresh, shadows, recentHarmful, expired>>

TypeOK ==
  /\ status \in Statuses
  /\ scope \in {"project", "global"}
  /\ fires \in Seq(FireEvents) /\ Len(fires) <= MaxFires
  /\ fresh \in 0..Len(fires)
  /\ shadows \in Seq(ShadowEvents) /\ Len(shadows) <= SHADOW_EVENT_WINDOW
  /\ recentHarmful \in BOOLEAN /\ expired \in BOOLEAN

\* Inserted by nokori add or the slow path, or by the fast lane.
Init ==
  /\ status \in {"candidate", "active"}
  /\ scope = InitialScope
  /\ fires = <<>> /\ fresh = 0 /\ shadows = <<>>
  /\ recentHarmful = FALSE /\ expired = FALSE

-----------------------------------------------------------------------------
(* Counting                                                                *)

\* The first n elements; the element x put in as the i-th.
FirstOf(seq, n) == SubSeq(seq, 1, IF n < Len(seq) THEN n ELSE Len(seq))
InsertAt(seq, i, x) == SubSeq(seq, 1, i - 1) \o <<x>> \o SubSeq(seq, i, Len(seq))

Labelled(seq, label) == {i \in DOMAIN seq : seq[i].label = label}
CountOf(seq, label) == Cardinality(Labelled(seq, label))

\* Lifetime counts ignore the windows.
LifetimeHarmful == CountOf(fires, "harmful")
UsefulProjects == {fires[i].project : i \in Labelled(fires, "observed_useful")}

FireEvidenceNow ==
  LET recent == FirstOf(FirstOf(fires, fresh), RECENT_EVENT_WINDOW)
      strong == {i \in Labelled(recent, "observed_useful") : recent[i].strong} IN
  [useful |-> Cardinality(strong),
   usefulTotal |-> CountOf(recent, "observed_useful"),
   sessions |-> Cardinality({recent[i].session : i \in strong}),
   irrelevant |-> CountOf(recent, "irrelevant"),
   irrelevantInLast |-> CountOf(FirstOf(recent, LAST), "irrelevant"),
   fp |-> Cardinality({i \in DOMAIN recent : recent[i].fp}),
   total |-> Len(recent),
   harmful |-> LifetimeHarmful,
   scope |-> scope,
   projects |-> Cardinality(UsefulProjects)]

\* The single-session path never opens: no review of an inserted rule is
\* stored under the decision its quality is looked up by.
ShadowEvidenceNow ==
  [high |-> CountOf(shadows, "would_help_high"),
   evaluated |-> Len(shadows),
   sessions |-> Cardinality({shadows[i].session : i \in DOMAIN shadows}),
   irrelevant |-> CountOf(shadows, "irrelevant"),
   risky |-> CountOf(shadows, "risky") + CountOf(shadows, "near_miss"),
   fp |-> CountOf(shadows, "irrelevant") + CountOf(shadows, "near_miss"),
   tasks |-> Cardinality({<<shadows[i].session, shadows[i].task>> : i \in DOMAIN shadows}),
   sessionStrong |-> 0, contexts |-> 0, synthetic |-> FALSE, quality |-> 0, miss |-> FALSE,
   replaced |-> FALSE, stamped |-> TRUE, expired |-> expired,
   recentHarmful |-> IF recentHarmful THEN 1 ELSE 0]

-----------------------------------------------------------------------------
(* Events                                                                  *)

\* Labels arrive in any order: the event takes its place by its creation time.
LabelShadow(s, i) ==
  /\ status \in {"candidate", "suppressed"}
  /\ i \in 1..Len(shadows) + 1
  /\ shadows' = FirstOf(InsertAt(shadows, i, s), SHADOW_EVENT_WINDOW)
  /\ UNCHANGED <<status, scope, fires, fresh, recentHarmful, expired>>

\* The fire of a rule that was active; after a suppression a label may still
\* come late, and a prompt that had read the rule before may fire after it.
LabelFire(f, i) ==
  /\ status \in {"active", "trusted", "suppressed"}
  /\ Len(fires) < MaxFires
  /\ i \in 1..fresh + 1
  /\ fires' = InsertAt(fires, i, f)
  /\ fresh' = fresh + 1
  /\ \/ recentHarmful' = recentHarmful
     \/ recentHarmful' = TRUE /\ status = "suppressed" /\ f.label = "harmful" /\ i = 1
  /\ UNCHANGED <<status, scope, shadows, expired>>

-----------------------------------------------------------------------------
(* Time                                                                    *)

\* The recent window leaves the oldest event behind; that of the shadow events
\* of a suppressed rule begins with the suppression and does not move.
FireAges ==
  /\ fresh > 0
  /\ fresh' = fresh - 1
  /\ UNCHANGED <<status, scope, fires, shadows, recentHarmful, expired>>

ShadowAges ==
  /\ status = "candidate" /\ shadows # <<>>
  /\ shadows' = FirstOf(shadows, Len(shadows) - 1)
  /\ UNCHANGED <<status, scope, fires, fresh, recentHarmful, expired>>

SuppressionExpires ==
  /\ status = "suppressed" /\ ~expired
  /\ expired' = TRUE
  /\ UNCHANGED <<status, scope, fires, fresh, shadows, recentHarmful>>

\* Mutants: the retention also deletes harmful events; it deletes whatever
\* its label what the window still counts.
CleanupOfEverythingOld ==
  /\ fires' = FirstOf(fires, fresh)
  /\ UNCHANGED <<status, scope, fresh, shadows, recentHarmful, expired>>
CleanupInsideTheWindow ==
  /\ fires' = Left(fires, Labelled(fires, "harmful"))
  /\ UNCHANGED <<status, scope, fresh, shadows, recentHarmful, expired>>

\* The retention is the recent window; harmful events are kept.
InjectionCleanup ==
  /\ fires' = Left(fires, 1..fresh \cup Labelled(fires, "harmful"))
  /\ UNCHANGED <<status, scope, fresh, shadows, recentHarmful, expired>>

-----------------------------------------------------------------------------
(* Evaluation                                                              *)

Decision ==
  CASE status = "candidate" -> EvaluateCandidate(ShadowEvidenceNow)
    [] status = "active" -> EvaluateActive(FireEvidenceNow)
    [] status = "trusted" -> EvaluateTrusted(FireEvidenceNow)
    [] status = "suppressed" -> EvaluateSuppressed(ShadowEvidenceNow)
    [] OTHER -> "none"

Transition ==
  /\ Decision \in Statuses
  /\ status' = Decision
  /\ shadows' = <<>>
  /\ recentHarmful' = FALSE
  /\ expired' = FALSE
  /\ UNCHANGED <<scope, fires, fresh>>

CrossProjectPromotion ==
  /\ Decision = "global"
  /\ scope' = "global"
  /\ shadows' = <<>>
  /\ UNCHANGED <<status, fires, fresh, recentHarmful, expired>>

Evaluate == Transition \/ CrossProjectPromotion

Next ==
  \/ \E s \in ShadowEvents, i \in 1..SHADOW_EVENT_WINDOW : LabelShadow(s, i)
  \/ \E f \in FireEvents, i \in 1..MaxFires : LabelFire(f, i)
  \/ FireAges \/ ShadowAges
  \/ SuppressionExpires
  \/ InjectionCleanup
  \/ Evaluate

Spec == Init /\ [][Next]_vars

\* Daily maintenance evaluates the rule, and the days of its TTL pass.
FairSpec == Spec /\ WF_vars(Evaluate) /\ WF_vars(SuppressionExpires)

-----------------------------------------------------------------------------
(* Properties                                                              *)

\* Two evaluations in a row on the same fire evidence never undo each other:
\* what has just earned trust is neither demoted nor suppressed, and what has
\* just lost it is neither promoted nor suppressed (_evaluate_active and
\* _evaluate_trusted, whose thresholds leave a gap on purpose).
TrustIsStable == EvaluateActive(FireEvidenceNow) = "trusted" =>
                   EvaluateTrusted(FireEvidenceNow) \in {"none", "global"}
DecayIsStable == EvaluateTrusted(FireEvidenceNow) = "active" =>
                   EvaluateActive(FireEvidenceNow) = "none"
NoFlapping == TrustIsStable /\ DecayIsStable

\* Harm is lifetime evidence: neither time nor the retention of the fire
\* events makes an evaluation forget it (gather_fire_evidence with
\* run_injection_cleanup).
HarmNeverDecays == [][LifetimeHarmful' >= LifetimeHarmful]_vars

\* No rule stays suppressed for ever: the evidence recovers it, or the TTL
\* archives it, even if new evidence keeps coming (_evaluate_suppressed).
SuppressionEnds == status = "suppressed" ~> status # "suppressed"
=============================================================================
