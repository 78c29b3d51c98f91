------------------------ MODULE ColdPipeline_proofs ------------------------
(***************************************************************************)
(* Proofs about ColdPipeline, for any list of candidates, whatever the     *)
(* roles answer and whatever other processes do meanwhile, with any number *)
(* of faults: a rule the pipeline inserts as active has been evaluated and *)
(* compiles, only such a rule displaces another, and only as the other was *)
(* when the merge was planned; a candidate becomes two rules only after a  *)
(* fault.  The invariant follows what a context is worth from stage to     *)
(* stage, and through the checkpoints it may be resumed from.              *)
(***************************************************************************)
EXTENDS ColdPipeline, FiniteSetTheorems, TLAPS

\* The fields of run, and the places it may be at: up to the last stage, and those
\* only a candidate gets to whose trigger compiles.
RunFields == {"pc", "cand", "todo", "ctx", "sub", "left", "first", "result", "version"}
BeforeLast == {"admission", "build_rule_data", "final_judge", "merge_planner", "split",
               "fingerprint_check", "compile_matcher", "synthetic_eval", "fast_lane_check"}
AfterCompiling == {"synthetic_eval", "fast_lane_check", "insert_or_merge", "side_effects",
                   "merge", "reevaluate", "revert"}
PCs == BeforeLast \cup {"insert_or_merge", "side_effects", "merge", "reevaluate", "revert",
                        "idle", "next", "result"}

\* What a context is worth: a merge or a displacement has the rule it was planned
\* for, and the fast lane was only taken by what passed and was judged active.
Sound(x) ==
  /\ x \in ContextType
  /\ x.op \in MergeOps \cup Destructive => x.snapshot \in TargetType
  /\ x.fastLane => x.passed /\ x.judge = "accept_active"

\* The types of what is stored.
Checkpoint == [stage : Checkpointed \cup {"none"}, ctx : ContextType]
RowType == [status : {"none", "pending", "done", "dead", "expired"}, retries : 0..MAX_INGEST_RETRIES,
            checkpoint : Checkpoint, age : {"new", "old", "again"}]
RuleType == [cand : Cands, sub : BOOLEAN, status : {"active", "candidate"}, compiled : BOOLEAN,
             evaluated : BOOLEAN]

\* What a checkpoint is worth: it never says that the fast lane was taken, which
\* is decided after the last of them.
Resumable(c, cp) ==
  /\ Sound(cp.ctx) /\ ~cp.ctx.fastLane
  /\ cp.stage = "none" => cp = NoCheckpoint
  /\ cp.stage = "synthetic_eval" => c \in Compilable

\* The rows: one that is pending has an attempt left.
RowsOK ==
  /\ ingest \in [Cands -> RowType]
  /\ \A c \in Cands : /\ Resumable(c, ingest[c].checkpoint)
                      /\ ingest[c].status = "pending" => ingest[c].retries < MAX_INGEST_RETRIES

\* The process: who is in the chain has a row that is not done, what it knows is
\* sound, and a rule of a split has the first result noted elsewhere.
RunOK ==
  /\ DOMAIN run = RunFields
  /\ run.pc \in PCs /\ run.todo \in Seq(Cands) /\ run.sub \in BOOLEAN
  /\ Sound(run.ctx) /\ (run.pc \in BeforeLast => ~run.ctx.fastLane)
  /\ run.pc \notin {"idle", "next"} => run.cand \in Cands /\ ingest[run.cand].status \in {"pending", "dead"}
  /\ run.pc \in AfterCompiling => run.cand \in Compilable
  /\ run.pc = "result" => run.result \in Results
  /\ run.pc = "split" => ~run.sub
  /\ run.pc \in {"merge", "reevaluate", "revert", "side_effects"} => run.ctx.snapshot \in TargetType
  /\ ~run.sub => run.first = "none"

\* The rules: at the side effects the last one is the one that displaces.
RulesOK ==
  /\ rules \in Seq(RuleType)
  /\ run.pc = "side_effects" =>
       /\ rules # <<>> /\ rules[Len(rules)].sub = run.sub
       /\ rules[Len(rules)].status = "active" /\ rules[Len(rules)].compiled
  /\ \A d \in displaced : d.by \in DOMAIN rules

\* The existing rule, the dismissals and the faults.
RestOK == target \in TargetType /\ vetoed \subseteq Cands /\ faults \in 0..MaxFaults

\* The rule of a candidate is in, which its row does not say yet.
Inserted(c) ==
  /\ run.cand = c /\ ~run.sub
  /\ run.pc = "side_effects" \/ (run.pc = "result" /\ run.result \in {"active", "candidate"})

\* The rules a candidate itself became, those of a split left out.
RulesOf(c) == {i \in DOMAIN rules : rules[i].cand = c /\ ~rules[i].sub}

\* A candidate has at most a rule more than there were faults, and until its row
\* is done it has that one only while the row is about to be settled.
Counted ==
  \A c \in Cands :
    /\ ingest[c].status # "dead" => Cardinality(RulesOf(c)) <= 1 + faults
    /\ ingest[c].status \notin {"done", "dead"} /\ ~Inserted(c) => Cardinality(RulesOf(c)) <= faults

\* The inductive invariant.
IInv ==
  /\ RowsOK /\ RunOK /\ RulesOK /\ RestOK /\ Counted
  /\ ActiveIsEarned /\ DisplacedByActiveOnly /\ DisplacedAsPlanned

-----------------------------------------------------------------------------
\* The order of the stages.
LEMMA Chain ==
  /\ After("admission") = "build_rule_data" /\ After("build_rule_data") = "final_judge"
  /\ After("final_judge") = "merge_planner" /\ After("merge_planner") = "fingerprint_check"
  /\ After("fingerprint_check") = "compile_matcher" /\ After("compile_matcher") = "synthetic_eval"
  /\ After("synthetic_eval") = "fast_lane_check" /\ After("fast_lane_check") = "insert_or_merge"
<1>1. DOMAIN STAGE_CHAIN = 1..9
  BY DEF STAGE_CHAIN
<1>2. /\ STAGE_CHAIN[1] = "admission" /\ STAGE_CHAIN[2] = "build_rule_data" /\ STAGE_CHAIN[3] = "final_judge"
      /\ STAGE_CHAIN[4] = "merge_planner" /\ STAGE_CHAIN[5] = "fingerprint_check"
      /\ STAGE_CHAIN[6] = "compile_matcher" /\ STAGE_CHAIN[7] = "synthetic_eval"
      /\ STAGE_CHAIN[8] = "fast_lane_check" /\ STAGE_CHAIN[9] = "insert_or_merge"
  BY DEF STAGE_CHAIN
<1>3. \A i, j \in 1..9 : STAGE_CHAIN[i] = STAGE_CHAIN[j] => i = j
  BY <1>2
<1>4. ASSUME NEW i \in 1..9
      PROVE  StageIndex(STAGE_CHAIN[i]) = i
  BY <1>1, <1>3, <1>4 DEF StageIndex
<1>5. \A i \in 1..9 : After(STAGE_CHAIN[i]) = STAGE_CHAIN[i + 1]
  BY <1>4 DEF After
<1> QED
  BY <1>2, <1>5

\* What Go leaves of run, and what it changes.
LEMMA GoFields ==
  ASSUME DOMAIN run = RunFields, NEW changes, DOMAIN changes \subseteq RunFields, Go(changes)
  PROVE  /\ DOMAIN run' = RunFields
         /\ \A f \in RunFields : run'[f] = IF f \in DOMAIN changes THEN changes[f] ELSE run[f]
  BY DEF Go

\* The changes the stages make.
LEMMA GoPc ==
  ASSUME DOMAIN run = RunFields, NEW pc, NEW ctx, Go([ctx |-> ctx, pc |-> pc])
  PROVE  /\ DOMAIN run' = RunFields
         /\ run'.pc = pc /\ run'.ctx = ctx
         /\ run'.cand = run.cand /\ run'.todo = run.todo /\ run'.sub = run.sub /\ run'.left = run.left
         /\ run'.first = run.first /\ run'.result = run.result /\ run'.version = run.version
<1> DEFINE c == [ctx |-> ctx, pc |-> pc]
<1>1. DOMAIN c = {"pc", "ctx"} /\ c.pc = pc /\ c.ctx = ctx
  OBVIOUS
<1> HIDE DEF c
<1>2. /\ DOMAIN run' = RunFields
      /\ \A f \in RunFields : run'[f] = IF f \in DOMAIN c THEN c[f] ELSE run[f]
  BY <1>1, GoFields DEF RunFields, c
<1> QED
  BY <1>1, <1>2 DEF RunFields

\* The end of the chain with a result.
LEMMA ReturnFields ==
  ASSUME DOMAIN run = RunFields, NEW result, Return(result)
  PROVE  /\ DOMAIN run' = RunFields
         /\ run'.pc = "result" /\ run'.result = result
         /\ run'.cand = run.cand /\ run'.todo = run.todo /\ run'.sub = run.sub /\ run'.left = run.left
         /\ run'.first = run.first /\ run'.ctx = run.ctx /\ run'.version = run.version
<1> DEFINE c == [pc |-> "result", result |-> result]
<1>1. DOMAIN c = {"pc", "result"} /\ c.pc = "result" /\ c.result = result
  OBVIOUS
<1>0. Go(c)
  BY DEF Return
<1> HIDE DEF c
<1>2. /\ DOMAIN run' = RunFields
      /\ \A f \in RunFields : run'[f] = IF f \in DOMAIN c THEN c[f] ELSE run[f]
  BY <1>0, <1>1, GoFields DEF RunFields
<1> QED
  BY <1>1, <1>2 DEF RunFields

-----------------------------------------------------------------------------
(* Contexts                                                                *)

\* A new context, and a row without a checkpoint, are sound.
LEMMA FreshIsSound ==
  /\ Fresh \in ContextType /\ Sound(Fresh) /\ ~Fresh.fastLane
  /\ NoCheckpoint \in Checkpoint /\ \A c : Resumable(c, NoCheckpoint)
<1>1. Fresh \in ContextType
  BY DEF Fresh, ContextType
<1>2. Fresh.op = "none" /\ Fresh.fastLane = FALSE
  BY DEF Fresh
<1>3. Sound(Fresh)
  BY <1>1, <1>2 DEF Sound, MergeOps, Destructive
<1>4. NoCheckpoint.ctx = Fresh /\ NoCheckpoint.stage = "none" /\ NoCheckpoint \in Checkpoint
  BY <1>1 DEF NoCheckpoint, Checkpoint
<1> QED
  BY <1>1, <1>2, <1>3, <1>4 DEF Resumable

\* Merging, updating and displacing are only planned for a rule there is.
LEMMA PolicyNamesRule ==
  ASSUME NEW p, NEW e, NEW n, ApplyMergePolicy(p, e, n) \in MergeOps \cup Destructive
  PROVE  e # NoRule
  BY DEF ApplyMergePolicy, MergeOps, Destructive

\* The merge policy ends in one of the operations.
LEMMA PolicyOperation ==
  ASSUME NEW p, NEW e, NEW n
  PROVE  ApplyMergePolicy(p, e, n) \in Operations
  BY DEF ApplyMergePolicy, Operations

\* The admission gate ends in one of three decisions.
LEMMA AdmissionDecision ==
  ASSUME NEW scores PROVE EnforceAdmission(scores) \in {"accept", "revise", "reject"}
  BY DEF EnforceAdmission

\* What a checkpoint keeps of a context is as sound as the context.
LEMMA KeptIsSound ==
  ASSUME NEW x, Sound(x), ~x.fastLane, NEW kept,
         kept \in {x, [x EXCEPT !.compiled = FALSE, !.cases = FALSE]}
  PROVE  Sound(kept) /\ ~kept.fastLane
<1>1. x \in ContextType
  BY DEF Sound
<1>2. CASE kept = [x EXCEPT !.compiled = FALSE, !.cases = FALSE]
  <2>1. /\ kept \in ContextType
        /\ kept.op = x.op /\ kept.snapshot = x.snapshot /\ kept.passed = x.passed /\ kept.judge = x.judge
    BY <1>1, <1>2 DEF ContextType
  <2>2. kept.fastLane = x.fastLane
    BY <1>1, <1>2 DEF ContextType
  <2> QED
    BY <2>1, <2>2 DEF Sound
<1> QED
  BY <1>2

-----------------------------------------------------------------------------
(* Steps that leave the rules alone                                        *)

\* The process goes from one stage to the next, or to a result, with the row of
\* the candidate or without; nothing else changes.
Onward(x) ==
  /\ DOMAIN run' = RunFields
  /\ run'.cand = run.cand /\ run'.todo = run.todo /\ run'.sub = run.sub /\ run'.first = run.first
  /\ run'.ctx = x /\ Sound(x)
  /\ target' \in TargetType /\ faults' \in 0..MaxFaults /\ faults <= faults'
  /\ UNCHANGED <<rules, vetoed, displaced>>

\* The rows are as they were, or that of the candidate has a checkpoint more.
Saved ==
  \/ UNCHANGED ingest
  \/ \E cp \in Checkpoint :
       /\ Resumable(run.cand, cp) /\ ingest[run.cand].status = "pending"
       /\ ingest' = [ingest EXCEPT ![run.cand].checkpoint = cp]

\* Writing a checkpoint keeps the rows in order and changes no status.
LEMMA SavedRows ==
  ASSUME RowsOK, Saved
  PROVE  RowsOK' /\ \A c \in Cands : ingest'[c].status = ingest[c].status
<1>1. CASE UNCHANGED ingest
  BY <1>1 DEF RowsOK
<1>2. ASSUME NEW cp \in Checkpoint, Resumable(run.cand, cp),
             ingest' = [ingest EXCEPT ![run.cand].checkpoint = cp]
      PROVE  RowsOK' /\ \A c \in Cands : ingest'[c].status = ingest[c].status
  <2>1. ASSUME NEW c \in Cands
        PROVE  /\ ingest'[c] \in RowType /\ ingest'[c].status = ingest[c].status
               /\ ingest'[c].retries = ingest[c].retries /\ Resumable(c, ingest'[c].checkpoint)
    <3>1. ingest[c] \in RowType /\ Resumable(c, ingest[c].checkpoint) /\ ingest \in [Cands -> RowType]
      BY DEF RowsOK
    <3>2. CASE c = run.cand
      <4>1. ingest'[c] = [ingest[c] EXCEPT !.checkpoint = cp]
        BY <1>2, <3>1, <3>2
      <4>2. /\ ingest'[c] \in RowType /\ ingest'[c].status = ingest[c].status
            /\ ingest'[c].retries = ingest[c].retries /\ ingest'[c].checkpoint = cp
        BY <3>1, <4>1 DEF RowType
      <4> QED
        BY <1>2, <3>2, <4>2
    <3>3. CASE c # run.cand
      BY <1>2, <3>1, <3>3
    <3> QED
      BY <3>2, <3>3
  <2>2. ingest' \in [Cands -> RowType]
    <3>1. DOMAIN ingest' = Cands /\ ingest' = [c \in Cands |-> ingest'[c]]
      BY <1>2 DEF RowsOK
    <3> QED
      BY <2>1, <3>1
  <2> QED
    BY <2>1, <2>2 DEF RowsOK
<1> QED
  BY <1>1, <1>2 DEF Saved

\* With the rules as they are, and the displacements, what is said of them stays.
LEMMA RulesStay ==
  ASSUME IInv, UNCHANGED <<rules, displaced>>
  PROVE  ActiveIsEarned' /\ DisplacedByActiveOnly' /\ DisplacedAsPlanned'
  BY DEF IInv, ActiveIsEarned, DisplacedByActiveOnly, DisplacedAsPlanned

\* The counts of the rules are naturals.
LEMMA RulesAreFinite ==
  ASSUME RulesOK, NEW c
  PROVE  RulesOf(c) \subseteq 1..Len(rules) /\ IsFiniteSet(RulesOf(c)) /\ Cardinality(RulesOf(c)) \in Nat
<1>1. RulesOf(c) \subseteq 1..Len(rules) /\ Len(rules) \in Nat
  BY DEF RulesOf, RulesOK
<1>2. IsFiniteSet(1..Len(rules))
  BY <1>1, FS_Interval
<1> QED
  BY <1>1, <1>2, FS_Subset, FS_CardinalityType

\* With the rules as they are and no fewer faults the counts stay, for every row
\* that is not reopened.
LEMMA CountsStay ==
  ASSUME IInv, UNCHANGED rules, faults' \in Nat, faults <= faults',
         \A c \in Cands :
            /\ ingest'[c].status # "dead" => ingest[c].status # "dead"
            /\ ingest'[c].status \notin {"done", "dead"} /\ ~Inserted(c)' =>
                 \/ ingest[c].status \notin {"done", "dead"} /\ ~Inserted(c)
                 \/ ingest[c].status # "dead" /\ faults < faults'
  PROVE  Counted'
<1> SUFFICES ASSUME NEW c \in Cands
             PROVE  /\ ingest'[c].status # "dead" => Cardinality(RulesOf(c)) <= 1 + faults'
                    /\ ingest'[c].status \notin {"done", "dead"} /\ ~Inserted(c)' =>
                         Cardinality(RulesOf(c)) <= faults'
  <2>1. \A c \in Cands : RulesOf(c)' = RulesOf(c)
    BY DEF RulesOf
  <2> QED
    BY <2>1 DEF Counted
<1>1. Cardinality(RulesOf(c)) \in Nat /\ faults \in Nat
  BY RulesAreFinite, ColdAssumption DEF IInv, RestOK
<1>2. /\ ingest[c].status # "dead" => Cardinality(RulesOf(c)) <= 1 + faults
      /\ ingest[c].status \notin {"done", "dead"} /\ ~Inserted(c) => Cardinality(RulesOf(c)) <= faults
  BY DEF IInv, Counted
<1> QED
  BY <1>1, <1>2

\* In the chain.
Working == PCs \ {"idle", "next", "result"}

\* Such a step keeps the invariant.
LEMMA OnwardStep ==
  ASSUME IInv, NEW x, Onward(x), Saved, run.pc \in Working \ {"side_effects"},
         run'.pc \in (Working \cup {"result"}) \ {"side_effects"},
         run'.pc \in BeforeLast => ~x.fastLane,
         run'.pc \in AfterCompiling => run.cand \in Compilable,
         run'.pc = "result" => run'.result \in {"rejected", "pending", "merged"},
         run'.pc = "split" => ~run.sub,
         run'.pc \in {"merge", "reevaluate", "revert"} => x.snapshot \in TargetType
  PROVE  IInv'
<1>1. RowsOK' /\ \A c \in Cands : ingest'[c].status = ingest[c].status
  BY SavedRows DEF IInv
<1>2. run.cand \in Cands /\ ingest[run.cand].status \in {"pending", "dead"}
  BY DEF IInv, RunOK, Working
<1>3. RunOK'
  <2>1. run'.cand \in Cands /\ ingest'[run'.cand].status \in {"pending", "dead"}
    BY <1>1, <1>2 DEF Onward
  <2>2. run'.todo \in Seq(Cands) /\ run'.sub \in BOOLEAN /\ (~run'.sub => run'.first = "none")
    BY DEF Onward, IInv, RunOK
  <2>3. run'.pc \in PCs /\ run'.pc \notin {"idle", "next", "side_effects"}
    BY DEF Working, PCs, BeforeLast
  <2> QED
    BY <2>1, <2>2, <2>3 DEF Onward, RunOK, Results
<1>4. RulesOK'
  <2>1. run'.pc # "side_effects"
    OBVIOUS
  <2> QED
    BY <2>1 DEF IInv, RulesOK, Onward
<1>5. RestOK'
  BY DEF IInv, RestOK, Onward
<1>6. Counted'
  <2>1. \A c \in Cands : ~Inserted(c) /\ ~Inserted(c)'
    BY DEF Inserted, Working
  <2>2. faults' \in Nat
    BY ColdAssumption DEF Onward
  <2> QED
    BY <1>1, <2>1, <2>2, CountsStay DEF Onward
<1>7. ActiveIsEarned' /\ DisplacedByActiveOnly' /\ DisplacedAsPlanned'
  BY RulesStay DEF Onward
<1> QED
  BY <1>1, <1>3, <1>4, <1>5, <1>6, <1>7 DEF IInv

\* An end of the chain.
LEMMA EndStep ==
  ASSUME IInv, NEW result \in {"rejected", "pending", "merged"}, Return(result),
         run.pc \in Working \ {"side_effects"}, UNCHANGED <<ingest, rules, vetoed, displaced>>,
         target' \in TargetType, faults' \in 0..MaxFaults, faults <= faults'
  PROVE  IInv'
<1>1. DOMAIN run = RunFields /\ Sound(run.ctx)
  BY DEF IInv, RunOK
<1>2. Onward(run.ctx) /\ run'.pc = "result" /\ run'.result = result
  BY <1>1, ReturnFields DEF Onward
<1>3. Saved
  BY DEF Saved
<1>4. run'.pc \in (Working \cup {"result"}) \ {"side_effects"} /\ run'.pc \notin BeforeLast \cup AfterCompiling
  BY <1>2 DEF BeforeLast, AfterCompiling
<1> QED
  BY <1>2, <1>3, <1>4, OnwardStep

\* ... when nothing else happens.
LEMMA EndsStep ==
  ASSUME IInv, NEW result \in {"rejected", "pending", "merged"}, Ends(result),
         run.pc \in Working \ {"side_effects"}
  PROVE  IInv'
  BY EndStep, ColdAssumption DEF Ends, db, IInv, RestOK

\* A stage that ends with a sound context, with or without a checkpoint.
LEMMA PassStep ==
  ASSUME IInv, NEW stage, NEW ctx, Pass(stage, ctx), run.pc = stage,
         stage \in BeforeLast \ {"split"}, Sound(ctx),
         ctx.fastLane => stage = "fast_lane_check",
         stage \in {"compile_matcher", "synthetic_eval", "fast_lane_check"} => run.cand \in Compilable
  PROVE  IInv'
<1> DEFINE kept == [ctx EXCEPT !.compiled = FALSE, !.cases = FALSE]
           cp == [stage |-> stage, ctx |-> kept]
<1>1. DOMAIN run = RunFields /\ faults \in 0..MaxFaults /\ target \in TargetType /\ run.cand \in Cands
  BY DEF IInv, RunOK, RestOK, BeforeLast
<1>2. run'.pc = After(stage) /\ Onward(ctx)
  BY <1>1, GoPc, ColdAssumption DEF Pass, Onward, db
<1>3. /\ run'.pc \in (Working \cup {"result"}) \ {"side_effects"}
      /\ run'.pc \notin {"merge", "reevaluate", "revert", "result", "split"}
      /\ run'.pc \in BeforeLast => stage # "fast_lane_check"
      /\ run'.pc \in AfterCompiling => stage \in {"compile_matcher", "synthetic_eval", "fast_lane_check"}
  BY <1>2, Chain DEF Working, PCs, BeforeLast, AfterCompiling
<1>4. Saved
  <2>1. CASE stage \in Checkpointed /\ ~run.sub /\ ingest[run.cand].status = "pending"
    <3>1. Sound(kept) /\ ~kept.fastLane
      <4>1. ~ctx.fastLane
        BY <2>1 DEF Checkpointed
      <4> QED
        BY <4>1, KeptIsSound
    <3>2. cp \in Checkpoint /\ cp.ctx = kept /\ cp.stage = stage
      <4> HIDE DEF kept
      <4> QED
        BY <2>1, <3>1 DEF Checkpoint, Sound
    <3>3. Resumable(run.cand, cp)
      <4> HIDE DEF cp, kept
      <4> QED
        BY <2>1, <3>1, <3>2 DEF Resumable, Checkpointed
    <3>4. ingest' = [ingest EXCEPT ![run.cand].checkpoint = cp]
      BY <2>1 DEF Pass
    <3> HIDE DEF cp
    <3> QED
      BY <2>1, <3>2, <3>3, <3>4 DEF Saved
  <2>2. CASE ~(stage \in Checkpointed /\ ~run.sub /\ ingest[run.cand].status = "pending")
    BY <2>2 DEF Pass, Saved
  <2> QED
    BY <2>1, <2>2
<1>5. run.pc \in Working \ {"side_effects"}
  BY DEF Working, PCs, BeforeLast
<1>6. run'.pc \in BeforeLast => ~ctx.fastLane
  BY <1>3
<1>7. run'.pc \in AfterCompiling => run.cand \in Compilable
  BY <1>3
<1> QED
  BY <1>2, <1>3, <1>4, <1>5, <1>6, <1>7, OnwardStep

-----------------------------------------------------------------------------
(* Each step keeps the invariant                                           *)

\* Each stage keeps the invariant: what it writes into the context leaves the
\* context sound.
LEMMA AdmissionKeeps ==
  ASSUME IInv, Admission
  PROVE  IInv'
<1>1. /\ run.pc = "admission" /\ run.pc \in Working \ {"side_effects"}
      /\ Sound(run.ctx) /\ run.ctx \in ContextType
      /\ ~run.ctx.fastLane
  BY DEF Admission, Working, PCs, BeforeLast, IInv, RunOK, Sound
<1>2. ASSUME NEW scores \in AdmissionScores, NEW decision \in {"accept", "revise"},
             Pass("admission", [run.ctx EXCEPT !.scores = scores, !.decision = decision])
      PROVE  IInv'
  <2> DEFINE ctx == [run.ctx EXCEPT !.scores = scores, !.decision = decision]
  <2>1. /\ ctx \in ContextType /\ ctx.op = run.ctx.op /\ ctx.snapshot = run.ctx.snapshot
        /\ ctx.fastLane = run.ctx.fastLane
    BY <1>1 DEF ContextType
  <2>2. Pass("admission", ctx)
    BY <1>2
  <2> HIDE DEF ctx
  <2>3. Sound(ctx) /\ ~ctx.fastLane
    BY <1>1, <2>1 DEF Sound
  <2> QED
    BY <1>1, <2>2, <2>3, PassStep DEF BeforeLast
<1>3. ASSUME NEW scores \in AdmissionScores, EnforceAdmission(scores) # "reject",
             Pass("admission", [run.ctx EXCEPT !.scores = scores, !.decision = EnforceAdmission(scores)])
      PROVE  IInv'
  <2>1. EnforceAdmission(scores) \in {"accept", "revise"}
    BY <1>3, AdmissionDecision
  <2> QED
    BY <1>2, <1>3, <2>1
<1>4. ASSUME Ends("rejected")
      PROVE  IInv'
  BY <1>1, <1>4, EndsStep
<1> QED
  BY <1>3, <1>4 DEF Admission, AdmissionAnswers

\* The rewriting changes nothing told apart here.
LEMMA BuildRuleDataKeeps ==
  ASSUME IInv, BuildRuleData
  PROVE  IInv'
<1>1. run.pc = "build_rule_data" /\ Sound(run.ctx) /\ ~run.ctx.fastLane
  BY DEF BuildRuleData, BeforeLast, IInv, RunOK
<1>2. Pass("build_rule_data", run.ctx)
  BY DEF BuildRuleData
<1> QED
  BY <1>1, <1>2, PassStep DEF BeforeLast

\* The judgement comes before the fast lane, which depends on it.
LEMMA FinalJudgeKeeps ==
  ASSUME IInv, FinalJudge
  PROVE  IInv'
<1>1. /\ run.pc = "final_judge" /\ run.pc \in Working \ {"side_effects"}
      /\ Sound(run.ctx) /\ run.ctx \in ContextType
      /\ ~run.ctx.fastLane
  BY DEF FinalJudge, Working, PCs, BeforeLast, IInv, RunOK, Sound
<1>2. ASSUME NEW judge \in {"accept_active", "accept_candidate"},
             Pass("final_judge", [run.ctx EXCEPT !.judge = judge])
      PROVE  IInv'
  <2> DEFINE ctx == [run.ctx EXCEPT !.judge = judge]
  <2>1. /\ ctx \in ContextType /\ ctx.op = run.ctx.op /\ ctx.snapshot = run.ctx.snapshot
        /\ ctx.fastLane = run.ctx.fastLane
    BY <1>1 DEF ContextType
  <2>2. Pass("final_judge", ctx)
    BY <1>2
  <2> HIDE DEF ctx
  <2>3. Sound(ctx) /\ ~ctx.fastLane
    BY <1>1, <2>1 DEF Sound
  <2> QED
    BY <1>1, <2>2, <2>3, PassStep DEF BeforeLast
<1>3. ASSUME Ends("rejected")
      PROVE  IInv'
  BY <1>1, <1>3, EndsStep
<1> QED
  BY <1>2, <1>3 DEF FinalJudge, JudgeAnswers

\* The veto ends the chain or lets through.
LEMMA FingerprintCheckKeeps ==
  ASSUME IInv, FingerprintCheck
  PROVE  IInv'
<1>1. /\ run.pc = "fingerprint_check" /\ run.pc \in Working \ {"side_effects"}
      /\ Sound(run.ctx) /\ ~run.ctx.fastLane
  BY DEF FingerprintCheck, Working, PCs, BeforeLast, IInv, RunOK
<1>2. CASE Ends("rejected")
  BY <1>1, <1>2, EndsStep
<1>3. CASE Pass("fingerprint_check", run.ctx)
  BY <1>1, <1>3, PassStep DEF BeforeLast
<1> QED
  BY <1>2, <1>3 DEF FingerprintCheck

\* Nothing that does not compile gets beyond here.
LEMMA CompileMatcherKeeps ==
  ASSUME IInv, CompileMatcher
  PROVE  IInv'
<1>1. /\ run.pc = "compile_matcher" /\ run.pc \in Working \ {"side_effects"}
      /\ Sound(run.ctx) /\ run.ctx \in ContextType
      /\ ~run.ctx.fastLane
  BY DEF CompileMatcher, Working, PCs, BeforeLast, IInv, RunOK, Sound
<1>2. CASE Ends("rejected")
  BY <1>1, <1>2, EndsStep
<1>3. ASSUME run.cand \in Compilable, Pass("compile_matcher", [run.ctx EXCEPT !.compiled = TRUE])
      PROVE  IInv'
  <2> DEFINE ctx == [run.ctx EXCEPT !.compiled = TRUE]
  <2>1. /\ ctx \in ContextType /\ ctx.op = run.ctx.op /\ ctx.snapshot = run.ctx.snapshot
        /\ ctx.fastLane = run.ctx.fastLane
    BY <1>1 DEF ContextType
  <2>2. Pass("compile_matcher", ctx)
    BY <1>3
  <2> HIDE DEF ctx
  <2>3. Sound(ctx) /\ ~ctx.fastLane
    BY <1>1, <2>1 DEF Sound
  <2> QED
    BY <1>1, <1>3, <2>2, <2>3, PassStep DEF BeforeLast
<1> QED
  BY <1>2, <1>3 DEF CompileMatcher

\* The evaluation comes before the fast lane too.
LEMMA SyntheticEvalKeeps ==
  ASSUME IInv, SyntheticEval
  PROVE  IInv'
<1>1. run.pc = "synthetic_eval" /\ Sound(run.ctx) /\ run.ctx \in ContextType /\ ~run.ctx.fastLane
      /\ run.cand \in Compilable
  BY DEF SyntheticEval, BeforeLast, AfterCompiling, IInv, RunOK, Sound
<1>2. NeedsEval \in BOOLEAN
  BY DEF NeedsEval
<1>3. ASSUME NEW passed \in BOOLEAN, NEW needs \in BOOLEAN,
             Pass("synthetic_eval", [run.ctx EXCEPT !.passed = passed, !.cases = needs])
      PROVE  IInv'
  <2> DEFINE ctx == [run.ctx EXCEPT !.passed = passed, !.cases = needs]
  <2>1. /\ ctx \in ContextType /\ ctx.op = run.ctx.op /\ ctx.snapshot = run.ctx.snapshot
        /\ ctx.fastLane = run.ctx.fastLane
    BY <1>1 DEF ContextType
  <2>2. Pass("synthetic_eval", ctx)
    BY <1>3
  <2> HIDE DEF ctx
  <2>3. Sound(ctx) /\ ~ctx.fastLane
    BY <1>1, <2>1 DEF Sound
  <2> QED
    BY <1>1, <2>2, <2>3, PassStep DEF BeforeLast
<1>4. PICK passed \in BOOLEAN : Pass("synthetic_eval", [run.ctx EXCEPT !.passed = passed, !.cases = NeedsEval])
  BY DEF SyntheticEval, EvalAnswers
<1> QED
  BY <1>2, <1>3, <1>4

\* The fast lane is for what passed and was judged active.
LEMMA FastLaneNeeds ==
  ASSUME NEW scores, NEW passed, NEW judge, NEW op
  PROVE  FastLane(scores, passed, judge, op) \in BOOLEAN
         /\ (FastLane(scores, passed, judge, op) => passed /\ judge = "accept_active")
  BY DEF FastLane

\* The only stage that may open the fast lane.
LEMMA FastLaneCheckKeeps ==
  ASSUME IInv, FastLaneCheck
  PROVE  IInv'
<1>1. run.pc = "fast_lane_check" /\ Sound(run.ctx) /\ run.ctx \in ContextType /\ run.cand \in Compilable
  BY DEF FastLaneCheck, BeforeLast, AfterCompiling, IInv, RunOK, Sound
<1>2. PICK lane \in BOOLEAN : lane = FastLane(run.ctx.scores, run.ctx.passed, run.ctx.judge, run.ctx.op)
  BY FastLaneNeeds
<1> DEFINE ctx == [run.ctx EXCEPT !.fastLane = lane]
<1>3. /\ ctx \in ContextType /\ ctx.op = run.ctx.op /\ ctx.snapshot = run.ctx.snapshot
      /\ ctx.fastLane = lane /\ ctx.passed = run.ctx.passed /\ ctx.judge = run.ctx.judge
  BY <1>1 DEF ContextType
<1>4. Pass("fast_lane_check", ctx)
  BY <1>2 DEF FastLaneCheck
<1>5. lane => run.ctx.passed /\ run.ctx.judge = "accept_active"
  BY <1>2, FastLaneNeeds
<1> HIDE DEF ctx
<1>6. Sound(ctx)
  BY <1>1, <1>3, <1>5 DEF Sound
<1> QED
  BY <1>1, <1>4, <1>6, PassStep DEF BeforeLast

\* An operation on the existing rule comes with its snapshot; a split that is put
\* off leaves the context in the row.
LEMMA MergePlannerKeeps ==
  ASSUME IInv, MergePlanner
  PROVE  IInv'
<1>1. /\ run.pc = "merge_planner" /\ run.pc \in Working \ {"side_effects"} /\ Sound(run.ctx)
      /\ run.ctx \in ContextType /\ ~run.ctx.fastLane /\ target \in TargetType /\ run.cand \in Cands
      /\ DOMAIN run = RunFields /\ faults \in 0..MaxFaults
  BY DEF MergePlanner, Working, PCs, BeforeLast, IInv, RunOK, RestOK, Sound
<1>2. ASSUME NEW op \in Operations, NEW snapshot \in TargetType \cup {NoRule},
             op \in MergeOps \cup Destructive => snapshot \in TargetType
      PROVE  LET ctx == [run.ctx EXCEPT !.op = op, !.snapshot = snapshot]
             IN  ctx \in ContextType /\ Sound(ctx) /\ ~ctx.fastLane
  <2> DEFINE ctx == [run.ctx EXCEPT !.op = op, !.snapshot = snapshot]
  <2>1. /\ ctx \in ContextType /\ ctx.op = op /\ ctx.snapshot = snapshot
        /\ ctx.fastLane = run.ctx.fastLane /\ ctx.passed = run.ctx.passed /\ ctx.judge = run.ctx.judge
    BY <1>1 DEF ContextType
  <2> HIDE DEF ctx
  <2>2. ctx \in ContextType /\ Sound(ctx) /\ ~ctx.fastLane
    BY <1>1, <1>2, <2>1 DEF Sound
  <2> QED
    BY <2>2 DEF ctx
<1>3. PICK p, e :
        LET op == ApplyMergePolicy(p, e, NewTraits)
            ctx == [run.ctx EXCEPT !.op = op, !.snapshot = IF e = NoRule THEN NoRule ELSE target] IN
        IF op = "reject_new" THEN Ends("rejected")
        ELSE IF op # "split_required" THEN Pass("merge_planner", ctx)
        ELSE /\ Go([ctx |-> ctx, pc |-> IF MayBeSplit THEN "split" ELSE "result",
                    result |-> IF MayBeSplit THEN "none" ELSE "pending"])
             /\ ingest' = IF ~run.sub /\ ingest[run.cand].status = "pending"
                  THEN [ingest EXCEPT ![run.cand].checkpoint = [stage |-> "merge_planner", ctx |-> ctx]]
                  ELSE ingest
             /\ UNCHANGED <<db, faults>>
  BY DEF MergePlanner
<1> DEFINE op == ApplyMergePolicy(p, e, NewTraits)
           snapshot == IF e = NoRule THEN NoRule ELSE target
           ctx == [run.ctx EXCEPT !.op = op, !.snapshot = snapshot]
<1>4. op \in Operations /\ snapshot \in TargetType \cup {NoRule}
      /\ (op \in MergeOps \cup Destructive => snapshot \in TargetType)
  BY <1>1, PolicyOperation, PolicyNamesRule
<1>5. ctx \in ContextType /\ Sound(ctx) /\ ~ctx.fastLane
  <2> HIDE DEF op, snapshot
  <2> QED
    BY <1>2, <1>4
<1>6. CASE op = "reject_new"
  <2>1. Ends("rejected")
    BY <1>3, <1>6
  <2> QED
    BY <1>1, <2>1, EndsStep
<1>7. CASE op \notin {"reject_new", "split_required"}
  <2>1. Pass("merge_planner", ctx)
    BY <1>3, <1>7
  <2> HIDE DEF ctx
  <2> QED
    BY <1>1, <1>5, <2>1, PassStep DEF BeforeLast
<1>8. CASE op = "split_required"
  <2> DEFINE pc == IF MayBeSplit THEN "split" ELSE "result"
             result == IF MayBeSplit THEN "none" ELSE "pending"
             c == [ctx |-> ctx, pc |-> pc, result |-> result]
             cp == [stage |-> "merge_planner", ctx |-> ctx]
  <2>1. /\ Go(c) /\ UNCHANGED <<db, faults>>
        /\ ingest' = IF ~run.sub /\ ingest[run.cand].status = "pending"
                     THEN [ingest EXCEPT ![run.cand].checkpoint = cp] ELSE ingest
    BY <1>3, <1>8
  <2>2. /\ pc \in {"split", "result"} /\ (pc = "split" => ~run.sub)
        /\ pc = "result" => result = "pending"
    BY DEF MayBeSplit
  <2> HIDE DEF ctx, pc, result
  <2>3. DOMAIN c = {"ctx", "pc", "result"} /\ c.ctx = ctx /\ c.pc = pc /\ c.result = result
    OBVIOUS
  <2>4. cp \in Checkpoint /\ cp.ctx = ctx /\ cp.stage = "merge_planner"
    BY <1>5 DEF Checkpoint, Checkpointed
  <2> HIDE DEF c, cp
  <2>5. /\ DOMAIN run' = RunFields
        /\ \A f \in RunFields : run'[f] = IF f \in DOMAIN c THEN c[f] ELSE run[f]
    BY <1>1, <2>1, <2>3, GoFields DEF RunFields
  <2>6. /\ run'.pc = pc /\ run'.ctx = ctx /\ run'.result = result
        /\ run'.cand = run.cand /\ run'.todo = run.todo /\ run'.sub = run.sub /\ run'.first = run.first
    BY <2>3, <2>5 DEF RunFields
  <2>7. Onward(ctx)
    BY <1>1, <1>5, <2>1, <2>5, <2>6, ColdAssumption DEF Onward, db
  <2>8. Saved
    <3>1. Resumable(run.cand, cp)
      BY <1>5, <2>4 DEF Resumable
    <3> QED
      BY <2>1, <2>4, <3>1 DEF Saved
  <2>9. /\ run'.pc \in (Working \cup {"result"}) \ {"side_effects"}
        /\ run'.pc \notin AfterCompiling /\ run'.pc \notin {"merge", "reevaluate", "revert"}
    BY <2>2, <2>6 DEF Working, PCs, BeforeLast, AfterCompiling
  <2> QED
    BY <1>1, <1>5, <2>2, <2>6, <2>7, <2>8, <2>9, OnwardStep
<1> QED
  BY <1>6, <1>7, <1>8

\* The rules of a split start with a new context, and are no longer counted.
LEMMA SplitKeeps ==
  ASSUME IInv, Split
  PROVE  IInv'
<1>1. /\ run.pc = "split" /\ run.pc \in Working \ {"side_effects"} /\ ~run.sub /\ run.first = "none"
      /\ DOMAIN run = RunFields /\ run.cand \in Cands
  BY DEF Split, Working, PCs, BeforeLast, IInv, RunOK
<1>2. UNCHANGED <<ingest, target, rules, vetoed, displaced, faults>> /\ RestOK /\ RowsOK /\ RulesOK
  BY DEF Split, db, IInv
<1>3. CASE Return("pending")
  BY <1>1, <1>2, <1>3, EndStep, ColdAssumption DEF RestOK
<1>4. ASSUME NEW n \in 1..MaxSubRules, Go([pc |-> "admission", ctx |-> Fresh, sub |-> TRUE, left |-> n])
      PROVE  IInv'
  <2> DEFINE c == [pc |-> "admission", ctx |-> Fresh, sub |-> TRUE, left |-> n]
  <2>1. /\ DOMAIN c = {"pc", "ctx", "sub", "left"} /\ c.pc = "admission" /\ c.ctx = Fresh /\ c.sub = TRUE
        /\ Go(c)
    BY <1>4
  <2> HIDE DEF c
  <2>2. /\ DOMAIN run' = RunFields
        /\ \A f \in RunFields : run'[f] = IF f \in DOMAIN c THEN c[f] ELSE run[f]
    BY <1>1, <2>1, GoFields DEF RunFields
  <2>3. /\ run'.pc = "admission" /\ run'.ctx = Fresh /\ run'.sub = TRUE
        /\ run'.cand = run.cand /\ run'.todo = run.todo /\ run'.first = run.first
    BY <2>1, <2>2 DEF RunFields
  <2>4. RunOK'
    BY <1>1, <1>2, <2>2, <2>3, FreshIsSound DEF IInv, RunOK, PCs, BeforeLast, AfterCompiling
  <2>5. RowsOK' /\ RestOK'
    BY <1>2 DEF RowsOK, RestOK
  <2>6. RulesOK'
    BY <1>2, <2>3 DEF RulesOK
  <2>7. Counted'
    <3>1. \A d \in Cands : ~Inserted(d) /\ ~Inserted(d)'
      BY <1>1, <2>3 DEF Inserted
    <3> QED
      BY <1>2, <3>1, CountsStay, ColdAssumption DEF RestOK
  <2>8. ActiveIsEarned' /\ DisplacedByActiveOnly' /\ DisplacedAsPlanned'
    BY <1>2, RulesStay
  <2> QED
    BY <2>4, <2>5, <2>6, <2>7, <2>8 DEF IInv
<1> QED
  BY <1>3, <1>4 DEF Split

\* A displacement that does not qualify ends as a rejection.
LEMMA RejectMergeKeeps ==
  ASSUME IInv, RejectMerge
  PROVE  IInv'
<1>1. run.pc \in Working \ {"side_effects"} /\ Ends("rejected")
  BY DEF RejectMerge, AtLast, Working, PCs, BeforeLast
<1> QED
  BY <1>1, EndsStep

\* A step of a merge into the existing rule.
LEMMA MergeStep ==
  ASSUME IInv, NEW c, DOMAIN c \subseteq {"pc", "version"}, "pc" \in DOMAIN c, Go(c),
         c.pc \in {"merge", "reevaluate", "revert"},
         run.pc \in {"insert_or_merge", "merge", "reevaluate"}, run.ctx.snapshot \in TargetType,
         UNCHANGED <<ingest, rules, vetoed, displaced, faults>>, target' \in TargetType
  PROVE  IInv'
<1>1. /\ DOMAIN run = RunFields /\ run.pc \in Working \ {"side_effects"} /\ Sound(run.ctx)
      /\ faults \in 0..MaxFaults /\ run.cand \in Compilable
  BY DEF Working, PCs, BeforeLast, AfterCompiling, IInv, RunOK, RestOK
<1>2. /\ DOMAIN run' = RunFields
      /\ \A f \in RunFields : run'[f] = IF f \in DOMAIN c THEN c[f] ELSE run[f]
  BY <1>1, GoFields DEF RunFields
<1>3. /\ run'.pc = c.pc /\ run'.ctx = run.ctx
      /\ run'.cand = run.cand /\ run'.todo = run.todo /\ run'.sub = run.sub /\ run'.first = run.first
  BY <1>2 DEF RunFields
<1>4. Onward(run.ctx) /\ Saved
  BY <1>1, <1>2, <1>3, ColdAssumption DEF Onward, Saved
<1>5. run'.pc \in Working \ {"side_effects"} /\ run'.pc \notin BeforeLast /\ run'.pc \notin {"result", "split"}
  BY <1>3 DEF Working, PCs, BeforeLast
<1> QED
  BY <1>1, <1>4, <1>5, OnwardStep

\* The variants of the existing rule are written with the next version.
LEMMA TargetWritten ==
  ASSUME NEW t \in TargetType, NEW v \in SUBSET (Cands \cup {Own}),
         NEW u, u = [t EXCEPT !.variants = v, !.version = @ + 1]
  PROVE  u \in TargetType
<1>1. PICK n \in Nat : n = t.version + 1
  BY DEF TargetType
<1>2. u = [t EXCEPT !.variants = v, !.version = n]
  BY <1>1
<1> QED
  BY <1>2 DEF TargetType

\* A merge was planned for a rule there is.
LEMMA ReadForMergeKeeps ==
  ASSUME IInv, ReadForMerge
  PROVE  IInv'
<1> DEFINE c == [pc |-> "merge", version |-> target.version]
<1>1. DOMAIN c = {"pc", "version"} /\ c.pc = "merge" /\ Go(c)
  BY DEF ReadForMerge
<1>2. run.pc = "insert_or_merge" /\ run.ctx.snapshot \in TargetType
  BY DEF ReadForMerge, AtLast, IInv, RunOK, Sound
<1>3. UNCHANGED <<ingest, rules, vetoed, displaced, faults>> /\ target' \in TargetType
  BY DEF ReadForMerge, db, IInv, RestOK
<1> HIDE DEF c
<1> QED
  BY <1>1, <1>2, <1>3, MergeStep

\* The union of the variants is a set of variants.
LEMMA MergeFieldsKeeps ==
  ASSUME IInv, MergeFields
  PROVE  IInv'
<1> DEFINE c == [pc |-> "reevaluate"]
<1>1. DOMAIN c = {"pc"} /\ c.pc = "reevaluate" /\ Go(c)
  BY DEF MergeFields
<1>2. run.pc = "merge" /\ run.ctx.snapshot \in TargetType /\ run.cand \in Cands /\ target \in TargetType
  BY DEF MergeFields, IInv, RunOK, RestOK
<1>3. target' \in TargetType
  <2>1. target.variants \cup {run.cand} \in SUBSET (Cands \cup {Own})
    BY <1>2 DEF TargetType
  <2>2. CASE target' = target
    BY <1>2, <2>2
  <2>3. CASE target' = [target EXCEPT !.variants = target.variants \cup {run.cand}, !.version = @ + 1]
    BY <1>2, <2>1, <2>3, TargetWritten
  <2> QED
    BY <2>2, <2>3 DEF MergeFields
<1>4. UNCHANGED <<ingest, rules, vetoed, displaced, faults>>
  BY DEF MergeFields
<1> HIDE DEF c
<1> QED
  BY <1>1, <1>2, <1>3, <1>4, MergeStep

\* The rule is kept, or the merge is to be taken back.
LEMMA ReevaluateKeeps ==
  ASSUME IInv, Reevaluate
  PROVE  IInv'
<1>1. /\ run.pc = "reevaluate" /\ run.pc \in Working \ {"side_effects"}
      /\ run.ctx.snapshot \in TargetType /\ target \in TargetType /\ faults \in 0..MaxFaults
  BY DEF Reevaluate, Working, PCs, IInv, RunOK, RestOK
<1>2. UNCHANGED <<ingest, target, rules, vetoed, displaced, faults>>
  BY DEF Reevaluate, db
<1>3. CASE Return("merged")
  BY <1>1, <1>2, <1>3, EndStep, ColdAssumption
<1>4. CASE Go([pc |-> "revert", version |-> target.version])
  <2> DEFINE c == [pc |-> "revert", version |-> target.version]
  <2>1. DOMAIN c = {"pc", "version"} /\ c.pc = "revert" /\ Go(c)
    BY <1>4
  <2> HIDE DEF c
  <2> QED
    BY <1>1, <1>2, <2>1, MergeStep
<1> QED
  BY <1>3, <1>4 DEF Reevaluate

\* The snapshot has what is written back.
LEMMA RevertKeeps ==
  ASSUME IInv, Revert
  PROVE  IInv'
<1>1. /\ run.pc = "revert" /\ run.pc \in Working \ {"side_effects"}
      /\ run.ctx.snapshot \in TargetType /\ target \in TargetType /\ faults \in 0..MaxFaults
  BY DEF Revert, Working, PCs, IInv, RunOK, RestOK
<1>2. UNCHANGED <<ingest, rules, vetoed, displaced, faults>> /\ Return("rejected")
  BY DEF Revert
<1>3. target' \in TargetType
  <2>1. run.ctx.snapshot.variants \in SUBSET (Cands \cup {Own})
    BY <1>1 DEF TargetType
  <2>2. CASE target' = target
    BY <1>1, <2>2
  <2>3. CASE target' = [target EXCEPT !.variants = run.ctx.snapshot.variants, !.version = @ + 1]
    BY <1>1, <2>1, <2>3, TargetWritten
  <2> QED
    BY <2>2, <2>3 DEF Revert
<1> QED
  BY <1>1, <1>2, <1>3, EndStep, ColdAssumption

\* A role that fails ends the chain with the row as it is.
LEMMA RoleFailsKeeps ==
  ASSUME IInv, RoleFails
  PROVE  IInv'
<1>1. /\ run.pc \in Working \ {"side_effects"} /\ Return("pending") /\ target \in TargetType
      /\ faults \in 0..MaxFaults
  BY DEF RoleFails, Asks, Working, PCs, BeforeLast, IInv, RestOK
<1>2. UNCHANGED <<ingest, target, rules, vetoed, displaced>> /\ faults < MaxFaults /\ faults' = faults + 1
  BY DEF RoleFails, Fault, db
<1> QED
  BY <1>1, <1>2, EndStep, ColdAssumption

\* The new rule is active only after the fast lane, hence evaluated and compiled; a
\* rule that displaces is active, and its candidate had no other without a fault.
LEMMA InsertKeeps ==
  ASSUME IInv, Insert
  PROVE  IInv'
<1> DEFINE lane == run.ctx.judge = "accept_active" /\ run.ctx.fastLane
           status == IF lane THEN "active" ELSE "candidate"
           rule == [cand |-> run.cand, sub |-> run.sub, status |-> status, compiled |-> run.ctx.compiled,
                    evaluated |-> run.ctx.passed]
           n == Len(rules)
<1>1. /\ run.pc = "insert_or_merge" /\ DOMAIN run = RunFields /\ run.ctx \in ContextType
      /\ Sound(run.ctx) /\ run.cand \in Cands /\ run.cand \in Compilable /\ run.sub \in BOOLEAN
      /\ ingest[run.cand].status \in {"pending", "dead"} /\ run.todo \in Seq(Cands)
      /\ run.ctx.compiled \in BOOLEAN /\ run.ctx.passed \in BOOLEAN /\ (~run.sub => run.first = "none")
  BY DEF Insert, AfterCompiling, IInv, RunOK, Sound, ContextType
<1>2. /\ run.ctx.op \notin MergeOps /\ rules' = Append(rules, rule)
      /\ UNCHANGED <<ingest, target, vetoed, displaced, faults>>
      /\ run.ctx.op \in Destructive => Go([pc |-> "side_effects"])
      /\ run.ctx.op \notin Destructive => Return(status)
  BY DEF Insert
<1>3. run.ctx.op \in Destructive => run.ctx.compiled /\ status = "active" /\ run.ctx.snapshot \in TargetType
  BY <1>1 DEF Insert, ValidTransaction, Sound
<1>4. status \in {"active", "candidate"} /\ (status = "active" => run.ctx.passed)
  BY <1>1 DEF Sound
<1> HIDE DEF status
<1>5. /\ rule \in RuleType /\ rule.cand = run.cand /\ rule.sub = run.sub /\ rule.status = status
      /\ rule.compiled = run.ctx.compiled /\ rule.evaluated = run.ctx.passed
  BY <1>1, <1>4 DEF RuleType
<1> HIDE DEF rule
<1>6. rules \in Seq(RuleType) /\ n \in Nat
  BY DEF IInv, RulesOK
<1>7. /\ rules' \in Seq(RuleType) /\ Len(rules') = n + 1 /\ rules'[n + 1] = rule
      /\ \A i \in 1..n : rules'[i] = rules[i]
      /\ DOMAIN rules = 1..n /\ DOMAIN rules' = 1..(n + 1)
  BY <1>2, <1>5, <1>6
<1>8. /\ DOMAIN run' = RunFields
      /\ run'.cand = run.cand /\ run'.todo = run.todo /\ run'.sub = run.sub /\ run'.first = run.first
      /\ run'.ctx = run.ctx
      /\ \/ run'.pc = "side_effects" /\ run.ctx.op \in Destructive
         \/ run'.pc = "result" /\ run'.result = status
  <2>1. CASE run.ctx.op \in Destructive
    <3> DEFINE c == [pc |-> "side_effects"]
    <3>1. DOMAIN c = {"pc"} /\ c.pc = "side_effects" /\ Go(c)
      BY <1>2, <2>1
    <3> HIDE DEF c
    <3>2. /\ DOMAIN run' = RunFields
          /\ \A f \in RunFields : run'[f] = IF f \in DOMAIN c THEN c[f] ELSE run[f]
      BY <1>1, <3>1, GoFields DEF RunFields
    <3> QED
      BY <2>1, <3>1, <3>2 DEF RunFields
  <2>2. CASE run.ctx.op \notin Destructive
    BY <1>1, <1>2, <2>2, ReturnFields
  <2> QED
    BY <2>1, <2>2
<1>9. RunOK'
  BY <1>1, <1>2, <1>3, <1>4, <1>8 DEF RunOK, PCs, BeforeLast, AfterCompiling, Results
<1>10. RulesOK'
  <2>1. \A d \in displaced' : d.by \in DOMAIN rules'
    BY <1>2, <1>7 DEF IInv, RulesOK
  <2>2. run'.pc = "side_effects" =>
          rule.status = "active" /\ rule.compiled /\ rule.sub = run'.sub
    BY <1>3, <1>5, <1>8
  <2>3. rules' # <<>> /\ rules'[Len(rules')] = rule
    BY <1>6, <1>7
  <2> QED
    BY <1>7, <2>1, <2>2, <2>3 DEF RulesOK
<1>11. RowsOK' /\ RestOK'
  BY <1>2 DEF IInv, RowsOK, RestOK
<1>12. Counted'
  <2> SUFFICES ASSUME NEW d \in Cands
               PROVE  /\ ingest[d].status # "dead" => Cardinality(RulesOf(d)') <= 1 + faults
                      /\ ingest[d].status \notin {"done", "dead"} /\ ~Inserted(d)' =>
                           Cardinality(RulesOf(d)') <= faults
    BY <1>2 DEF Counted
  <2>1. /\ RulesOf(d) \subseteq 1..n /\ IsFiniteSet(RulesOf(d)) /\ Cardinality(RulesOf(d)) \in Nat
        /\ faults \in Nat
    BY RulesAreFinite, ColdAssumption DEF IInv, RestOK
  <2>2. /\ ingest[d].status # "dead" => Cardinality(RulesOf(d)) <= 1 + faults
        /\ ingest[d].status \notin {"done", "dead"} => Cardinality(RulesOf(d)) <= faults
    BY <1>1 DEF IInv, Counted, Inserted
  <2>3. CASE d = run.cand /\ ~run.sub
    <3>1. RulesOf(d)' = RulesOf(d) \cup {n + 1}
      BY <1>5, <1>6, <1>7, <2>3 DEF RulesOf
    <3>2. Cardinality(RulesOf(d)') = Cardinality(RulesOf(d)) + 1
      <4>1. n + 1 \notin RulesOf(d)
        BY <1>6, <2>1
      <4> QED
        BY <2>1, <3>1, <4>1, FS_AddElement
    <3>3. Inserted(d)'
      BY <1>4, <1>8, <2>3 DEF Inserted
    <3> QED
      BY <1>1, <2>1, <2>2, <2>3, <3>2, <3>3
  <2>4. CASE ~(d = run.cand /\ ~run.sub)
    <3>1. RulesOf(d)' = RulesOf(d)
      BY <1>5, <1>6, <1>7, <2>4 DEF RulesOf
    <3> QED
      BY <2>1, <2>2, <3>1
  <2> QED
    BY <2>3, <2>4
<1>13. ActiveIsEarned'
  <2>1. \A i \in 1..n : rules[i].status = "active" => rules[i].evaluated /\ rules[i].cand \in Compilable
    BY <1>7 DEF IInv, ActiveIsEarned
  <2>2. rule.status = "active" => rule.evaluated /\ rule.cand \in Compilable
    BY <1>1, <1>4, <1>5
  <2> QED
    BY <1>6, <1>7, <2>1, <2>2 DEF ActiveIsEarned
<1>14. DisplacedByActiveOnly' /\ DisplacedAsPlanned'
  BY <1>2, <1>7 DEF IInv, RulesOK, DisplacedByActiveOnly, DisplacedAsPlanned
<1> QED
  BY <1>9, <1>10, <1>11, <1>12, <1>13, <1>14 DEF IInv

\* The rule that displaces is the last one inserted, and the version is that of the
\* snapshot.
LEMMA SideEffectsKeeps ==
  ASSUME IInv, SideEffects
  PROVE  IInv'
<1> DEFINE last == rules[Len(rules)]
           d == [by |-> Len(rules), seen |-> run.ctx.snapshot.version, was |-> target.version]
<1>1. /\ run.pc = "side_effects" /\ DOMAIN run = RunFields /\ Sound(run.ctx) /\ run.cand \in Cands
      /\ run.ctx.snapshot \in TargetType /\ run.todo \in Seq(Cands) /\ run.sub \in BOOLEAN
      /\ ingest[run.cand].status \in {"pending", "dead"} /\ (~run.sub => run.first = "none")
  BY DEF SideEffects, IInv, RunOK
<1>2. /\ rules \in Seq(RuleType) /\ rules # <<>> /\ last.status = "active" /\ last.compiled
      /\ Len(rules) \in DOMAIN rules
  <2>1. rules \in Seq(RuleType) /\ rules # <<>> /\ last.status = "active" /\ last.compiled
    BY <1>1 DEF IInv, RulesOK
  <2> QED
    BY <2>1
<1>3. /\ UNCHANGED <<ingest, rules, vetoed, faults>> /\ Return("active")
  BY <1>2 DEF SideEffects
<1>4. /\ DOMAIN run' = RunFields /\ run'.pc = "result" /\ run'.result = "active"
      /\ run'.cand = run.cand /\ run'.todo = run.todo /\ run'.sub = run.sub /\ run'.first = run.first
      /\ run'.ctx = run.ctx
  BY <1>1, <1>3, ReturnFields
<1>5. RunOK'
  BY <1>1, <1>3, <1>4 DEF RunOK, PCs, BeforeLast, AfterCompiling, Results
<1>6. d.by = Len(rules) /\ d.seen = run.ctx.snapshot.version /\ d.was = target.version
  OBVIOUS
<1>7. \/ target' = target /\ displaced' = displaced
      \/ /\ run.ctx.snapshot.version = target.version /\ displaced' = displaced \cup {d}
         /\ \E s \in {"suppressed", "archived"} : target' = [target EXCEPT !.version = @ + 1, !.status = s]
  BY DEF SideEffects, AsPlanned
<1> HIDE DEF d, last
<1>8. target' \in TargetType
  <2>1. target \in TargetType
    BY DEF IInv, RestOK
  <2>2. ASSUME NEW s \in {"suppressed", "archived"}, target' = [target EXCEPT !.version = @ + 1, !.status = s]
        PROVE  target' \in TargetType
    <3>1. PICK m \in Nat : m = target.version + 1
      BY <2>1 DEF TargetType
    <3>2. target' = [target EXCEPT !.version = m, !.status = s]
      BY <2>2, <3>1
    <3> QED
      BY <2>1, <3>2 DEF TargetType
  <2> QED
    BY <1>7, <2>1, <2>2
<1>9. RowsOK' /\ RestOK'
  BY <1>3, <1>8 DEF IInv, RowsOK, RestOK
<1>10. RulesOK'
  BY <1>2, <1>3, <1>4, <1>6, <1>7 DEF IInv, RulesOK
<1>11. Counted'
  <2>1. \A c \in Cands : Inserted(c) => Inserted(c)'
    BY <1>4 DEF Inserted
  <2> QED
    BY <1>3, <2>1, CountsStay, ColdAssumption DEF IInv, RestOK
<1>12. ActiveIsEarned'
  BY <1>3 DEF IInv, ActiveIsEarned
<1>13. DisplacedByActiveOnly' /\ DisplacedAsPlanned'
  BY <1>2, <1>3, <1>6, <1>7 DEF last, IInv, DisplacedByActiveOnly, DisplacedAsPlanned
<1> QED
  BY <1>5, <1>9, <1>10, <1>11, <1>12, <1>13 DEF IInv

\* The next rule of a split.
LEMMA NextSubRuleKeeps ==
  ASSUME IInv, NextSubRule
  PROVE  IInv'
<1> DEFINE c == [pc |-> "admission", ctx |-> Fresh, left |-> run.left - 1, result |-> "none",
                 first |-> IF run.first = "none" THEN run.result ELSE run.first]
<1>1. /\ run.pc = "result" /\ run.sub = TRUE /\ DOMAIN run = RunFields /\ run.cand \in Cands
      /\ ingest[run.cand].status \in {"pending", "dead"} /\ run.todo \in Seq(Cands)
  BY DEF NextSubRule, IInv, RunOK
<1>2. UNCHANGED <<ingest, target, rules, vetoed, displaced, faults>> /\ Go(c)
  BY DEF NextSubRule, db
<1>3. DOMAIN c = {"pc", "ctx", "left", "result", "first"} /\ c.pc = "admission" /\ c.ctx = Fresh
  OBVIOUS
<1> HIDE DEF c
<1>4. /\ DOMAIN run' = RunFields
      /\ \A f \in RunFields : run'[f] = IF f \in DOMAIN c THEN c[f] ELSE run[f]
  BY <1>1, <1>2, <1>3, GoFields DEF RunFields
<1>5. /\ run'.pc = "admission" /\ run'.ctx = Fresh /\ run'.sub = TRUE
      /\ run'.cand = run.cand /\ run'.todo = run.todo
  BY <1>1, <1>3, <1>4 DEF RunFields
<1>6. RunOK'
  BY <1>1, <1>2, <1>4, <1>5, FreshIsSound DEF RunOK, PCs, BeforeLast, AfterCompiling
<1>7. RowsOK' /\ RestOK' /\ RulesOK'
  BY <1>2, <1>5 DEF IInv, RowsOK, RestOK, RulesOK
<1>8. Counted'
  <2>1. \A d \in Cands : ~Inserted(d) /\ ~Inserted(d)'
    BY <1>1, <1>5 DEF Inserted
  <2> QED
    BY <1>2, <2>1, CountsStay, ColdAssumption DEF IInv, RestOK
<1>9. ActiveIsEarned' /\ DisplacedByActiveOnly' /\ DisplacedAsPlanned'
  BY <1>2, RulesStay
<1> QED
  BY <1>6, <1>7, <1>8, <1>9 DEF IInv

\* The process is between two candidates, or there is none.
Between(pc, todo) ==
  /\ DOMAIN run' = RunFields /\ run'.pc = pc /\ run'.todo = todo
  /\ run'.sub = FALSE /\ run'.first = "none" /\ run'.ctx = Fresh

\* The fields of Idle.
LEMMA IdleFields ==
  /\ DOMAIN Idle = RunFields /\ Idle.pc = "idle" /\ Idle.todo = <<>>
  /\ Idle.sub = FALSE /\ Idle.first = "none" /\ Idle.ctx = Fresh
  BY DEF Idle, RunFields

\* The process ends.
LEMMA IdleIsBetween ==
  ASSUME run' = Idle
  PROVE  \E todo \in Seq(Cands) : Between("idle", todo)
<1> DEFINE empty == <<>>
<1>1. empty \in Seq(Cands)
  OBVIOUS
<1>2. Between("idle", empty)
  BY IdleFields DEF Between
<1> HIDE DEF empty
<1> QED
  BY <1>1, <1>2

\* The process goes on to the next candidate.
LEMMA NextIsBetween ==
  ASSUME NEW pc, NEW todo, run' = [Idle EXCEPT !.pc = pc, !.todo = todo]
  PROVE  Between(pc, todo)
<1>1. /\ DOMAIN Idle = RunFields /\ Idle.sub = FALSE /\ Idle.first = "none" /\ Idle.ctx = Fresh
  BY IdleFields
<1> QED
  BY <1>1 DEF Between, RunFields

\* The process leaves the candidate.
LEMMA LeaveStep ==
  ASSUME IInv, RowsOK', NEW pc \in {"idle", "next"}, NEW todo \in Seq(Cands),
         Between(pc, todo), UNCHANGED <<target, rules, vetoed, displaced>>, faults' \in 0..MaxFaults, faults <= faults',
         \A c \in Cands :
            /\ ingest'[c].status # "dead" => ingest[c].status # "dead"
            /\ ingest'[c].status \notin {"done", "dead"} =>
                 \/ ingest[c].status \notin {"done", "dead"} /\ ~Inserted(c)
                 \/ ingest[c].status # "dead" /\ faults < faults'
  PROVE  IInv'
<1>1. /\ DOMAIN run' = RunFields /\ run'.pc = pc /\ run'.todo = todo
      /\ run'.sub = FALSE /\ run'.first = "none" /\ run'.ctx = Fresh
  BY DEF Between
<1>2. RunOK'
  BY <1>1, FreshIsSound DEF RunOK, PCs, BeforeLast, AfterCompiling
<1>3. RulesOK' /\ RestOK'
  BY <1>1 DEF IInv, RulesOK, RestOK
<1>4. Counted'
  BY CountsStay, ColdAssumption
<1>5. ActiveIsEarned' /\ DisplacedByActiveOnly' /\ DisplacedAsPlanned'
  BY RulesStay
<1> QED
  BY <1>2, <1>3, <1>4, <1>5 DEF IInv

\* Writing one row in order keeps all of them in order.
LEMMA RowWritten ==
  ASSUME RowsOK, NEW c \in Cands, NEW row \in RowType, Resumable(c, row.checkpoint),
         row.status = "pending" => row.retries < MAX_INGEST_RETRIES,
         ingest' = [ingest EXCEPT ![c] = row]
  PROVE  RowsOK' /\ ingest'[c] = row /\ \A d \in Cands \ {c} : ingest'[d] = ingest[d]
<1>1. /\ ingest' \in [Cands -> RowType] /\ ingest'[c] = row
      /\ \A d \in Cands \ {c} : ingest'[d] = ingest[d]
  BY DEF RowsOK
<1>2. ASSUME NEW d \in Cands
      PROVE  /\ Resumable(d, ingest'[d].checkpoint)
             /\ ingest'[d].status = "pending" => ingest'[d].retries < MAX_INGEST_RETRIES
  <2>1. CASE d = c
    BY <1>1, <2>1
  <2>2. CASE d # c
    BY <1>1, <2>2 DEF RowsOK
  <2> QED
    BY <2>1, <2>2
<1> QED
  BY <1>1, <1>2 DEF RowsOK

\* A row that is closed is in order.
LEMMA ClosedRow ==
  ASSUME NEW row \in RowType, NEW status \in {"done", "dead", "expired"}
  PROVE  /\ Closed(row, status) \in RowType /\ Closed(row, status).status = status
         /\ Closed(row, status).checkpoint = NoCheckpoint
<1>1. PICK age \in {"new", "again"} : age = IF status = "expired" THEN "again" ELSE "new"
  OBVIOUS
<1>2. Closed(row, status) = [row EXCEPT !.status = status, !.checkpoint = NoCheckpoint, !.age = age]
  BY <1>1 DEF Closed
<1>3. NoCheckpoint \in Checkpoint
  BY FreshIsSound
<1> DEFINE r == [row EXCEPT !.status = status, !.checkpoint = NoCheckpoint, !.age = age]
<1>4. r \in RowType /\ r.status = status /\ r.checkpoint = NoCheckpoint
  BY <1>3 DEF RowType
<1> HIDE DEF r
<1> QED
  BY <1>2, <1>4 DEF r

\* A rule that was inserted is noted in the row, unless the row is dead; what stays
\* pending was not inserted.
LEMMA SettleKeeps ==
  ASSUME IInv, Settle
  PROVE  IInv'
<1>1. PICK result : result = IF run.first = "none" THEN run.result ELSE run.first
  OBVIOUS
<1>2. /\ run.pc = "result" /\ run.cand \in Cands /\ run.todo \in Seq(Cands)
      /\ ingest[run.cand].status \in {"pending", "dead"} /\ (~run.sub => run.first = "none")
      /\ RowsOK /\ ingest[run.cand] \in RowType /\ faults \in 0..MaxFaults
  BY DEF Settle, IInv, RunOK, RowsOK, RestOK
<1>3. /\ Between("next", run.todo)
      /\ UNCHANGED <<target, rules, vetoed, displaced, faults>>
  BY NextIsBetween DEF Settle, db
<1>4. CASE ingest' = ingest /\ (StillPending(result) \/ ingest[run.cand].status # "pending")
  <2>1. RowsOK'
    BY <1>2, <1>4 DEF RowsOK
  <2>2. ASSUME NEW c \in Cands, ingest[c].status \notin {"done", "dead"}
        PROVE  ~Inserted(c)
    <3>1. SUFFICES ASSUME c = run.cand, ~run.sub
                   PROVE  run.result \notin {"active", "candidate"}
      BY <1>2 DEF Inserted
    <3> QED
      BY <1>1, <1>2, <1>4, <2>2, <3>1 DEF StillPending
  <2> QED
    BY <1>2, <1>3, <1>4, <2>1, <2>2, LeaveStep, ColdAssumption
<1>5. CASE ingest' = [ingest EXCEPT ![run.cand] = Closed(ingest[run.cand], "done")]
           /\ ingest[run.cand].status = "pending"
  <2> DEFINE row == Closed(ingest[run.cand], "done")
  <2>1. row \in RowType /\ row.status = "done" /\ row.checkpoint = NoCheckpoint
    BY <1>2, ClosedRow
  <2> HIDE DEF row
  <2>2. RowsOK' /\ ingest'[run.cand] = row /\ \A d \in Cands \ {run.cand} : ingest'[d] = ingest[d]
    <3>1. ingest' = [ingest EXCEPT ![run.cand] = row]
      BY <1>5 DEF row
    <3> QED
      BY <1>2, <2>1, <3>1, RowWritten, FreshIsSound
  <2>3. ASSUME NEW c \in Cands, ingest'[c].status \notin {"done", "dead"}
        PROVE  ingest[c].status \notin {"done", "dead"} /\ ~Inserted(c)
    BY <2>1, <2>2, <2>3 DEF Inserted
  <2>4. \A c \in Cands : ingest'[c].status # "dead" => ingest[c].status # "dead"
    BY <1>5, <2>2
  <2> QED
    BY <1>2, <1>3, <2>2, <2>3, <2>4, LeaveStep, ColdAssumption
<1> QED
  BY <1>1, <1>2, <1>4, <1>5 DEF Settle

\* The last candidate is settled.
LEMMA EndProcessKeeps ==
  ASSUME IInv, EndProcess
  PROVE  IInv'
<1>1. PICK todo \in Seq(Cands) : Between("idle", todo)
  BY IdleIsBetween DEF EndProcess
<1>2. UNCHANGED <<ingest, target, rules, vetoed, displaced, faults>> /\ run.pc = "next"
  BY DEF EndProcess, db
<1>3. RowsOK' /\ faults \in 0..MaxFaults /\ \A c \in Cands : ~Inserted(c)
  BY <1>2 DEF IInv, RowsOK, RestOK, Inserted
<1> QED
  BY <1>1, <1>2, <1>3, LeaveStep, ColdAssumption

\* Expiring a row does not count the rules of its candidate: there is no rule
\* beyond the faults while it is pending.
LEMMA StartProcessKeeps ==
  ASSUME IInv, StartProcess
  PROVE  IInv'
<1>1. /\ run.pc = "idle" /\ Between("next", Candidates)
      /\ UNCHANGED <<target, rules, vetoed, displaced, faults>>
      /\ ingest' = [c \in Cands |-> IF ingest[c].status = "pending" /\ ingest[c].age = "old"
                                    THEN Closed(ingest[c], "expired") ELSE ingest[c]]
  BY NextIsBetween DEF StartProcess, db
<1>2. ASSUME NEW c \in Cands
      PROVE  /\ ingest'[c] \in RowType /\ Resumable(c, ingest'[c].checkpoint)
             /\ ingest'[c].status = "pending" => ingest'[c].retries < MAX_INGEST_RETRIES
             /\ ingest'[c].status # "dead" => ingest[c].status # "dead"
             /\ ingest'[c].status \notin {"done", "dead"} => ingest[c].status \notin {"done", "dead"}
  <2>1. /\ ingest[c] \in RowType /\ Resumable(c, ingest[c].checkpoint)
        /\ ingest[c].status = "pending" => ingest[c].retries < MAX_INGEST_RETRIES
    BY DEF IInv, RowsOK
  <2>2. CASE ingest'[c] = ingest[c]
    BY <2>1, <2>2
  <2>3. CASE ingest[c].status = "pending" /\ ingest'[c] = Closed(ingest[c], "expired")
    BY <2>1, <2>3, ClosedRow, FreshIsSound
  <2> QED
    BY <1>1, <2>2, <2>3
<1>3. RowsOK'
  <2>1. ingest' = [c \in Cands |-> ingest'[c]]
    BY <1>1
  <2> QED
    BY <1>2, <2>1 DEF RowsOK
<1>4. faults \in 0..MaxFaults /\ \A c \in Cands : ~Inserted(c)
  BY <1>1 DEF IInv, RestOK, Inserted
<1> QED
  BY <1>1, <1>2, <1>3, <1>4, LeaveStep, ColdAssumption

\* What was inserted before a crash is covered by the fault.
LEMMA CrashKeeps ==
  ASSUME IInv, Crash
  PROVE  IInv'
<1>1. PICK todo \in Seq(Cands) : Between("idle", todo)
  BY IdleIsBetween DEF Crash
<1>2. UNCHANGED <<ingest, target, rules, vetoed, displaced>> /\ faults < MaxFaults /\ faults' = faults + 1
  BY DEF Crash, Fault, db
<1>3. RowsOK' /\ faults \in 0..MaxFaults
  BY <1>2 DEF IInv, RowsOK, RestOK
<1> QED
  BY <1>1, <1>2, <1>3, LeaveStep, ColdAssumption

\* So is what was inserted before an error; the row has an attempt left or is dead.
LEMMA RaisesKeeps ==
  ASSUME IInv, Raises
  PROVE  IInv'
<1> DEFINE n == ingest[run.cand].retries + 1
           tried == [ingest[run.cand] EXCEPT !.retries = n]
           row == IF n >= MAX_INGEST_RETRIES THEN Closed(tried, "dead") ELSE tried
<1>1. /\ Between("next", run.todo)
      /\ UNCHANGED <<target, rules, vetoed, displaced>> /\ faults < MaxFaults /\ faults' = faults + 1
      /\ \/ ingest[run.cand].status # "pending" /\ ingest' = ingest
         \/ ingest[run.cand].status = "pending" /\ ingest' = [ingest EXCEPT ![run.cand] = row]
  BY NextIsBetween DEF Raises, Fault, db
<1>2. /\ run.pc \in PCs \ {"idle", "next"} /\ run.cand \in Cands /\ run.todo \in Seq(Cands)
      /\ RowsOK /\ ingest[run.cand] \in RowType /\ faults \in 0..MaxFaults
      /\ Resumable(run.cand, ingest[run.cand].checkpoint)
  BY DEF Raises, IInv, RunOK, RowsOK, RestOK
<1>3. CASE ingest' = ingest
  <2>1. RowsOK'
    BY <1>2, <1>3 DEF RowsOK
  <2> QED
    BY <1>1, <1>2, <1>3, <2>1, LeaveStep, ColdAssumption
<1>4. CASE ingest[run.cand].status = "pending" /\ ingest' = [ingest EXCEPT ![run.cand] = row]
  <2>1. n \in 1..MAX_INGEST_RETRIES
    BY <1>2, <1>4, ColdAssumption DEF RowsOK, RowType
  <2> HIDE DEF n
  <2>2. tried \in RowType /\ tried.status = "pending" /\ tried.retries = n
        /\ Resumable(run.cand, tried.checkpoint)
    <3>1. tried \in RowType /\ tried.status = "pending" /\ tried.retries = n
          /\ tried.checkpoint = ingest[run.cand].checkpoint
      BY <1>2, <1>4, <2>1 DEF RowType
    <3> HIDE DEF tried
    <3> QED
      BY <1>2, <3>1
  <2> HIDE DEF tried
  <2>3. /\ row \in RowType /\ Resumable(run.cand, row.checkpoint) /\ row.status \in {"pending", "dead"}
        /\ row.status = "pending" => row.retries < MAX_INGEST_RETRIES
    <3>1. CASE n >= MAX_INGEST_RETRIES
      BY <2>2, <3>1, ClosedRow, FreshIsSound
    <3>2. CASE ~(n >= MAX_INGEST_RETRIES)
      BY <2>1, <2>2, <3>2, ColdAssumption
    <3> QED
      BY <3>1, <3>2
  <2> HIDE DEF row
  <2>4. RowsOK' /\ ingest'[run.cand] = row /\ \A d \in Cands \ {run.cand} : ingest'[d] = ingest[d]
    BY <1>2, <1>4, <2>3, RowWritten
  <2>5. \A c \in Cands : ingest'[c].status # "dead" => ingest[c].status # "dead"
    BY <1>4, <2>4
  <2> QED
    BY <1>1, <1>2, <2>4, <2>5, LeaveStep, ColdAssumption
<1> QED
  BY <1>1, <1>3, <1>4

\* The rest of the candidates.
LEMMA TailOfCands ==
  ASSUME NEW s \in Seq(Cands), s # <<>>
  PROVE  Head(s) \in Cands /\ Tail(s) \in Seq(Cands)
  OBVIOUS

\* A candidate that is done is passed over.
LEMMA SkipDoneKeeps ==
  ASSUME IInv, NEW c \in Cands, SkipDone(c)
  PROVE  IInv'
<1> DEFINE t == Tail(run.todo)
           d == [todo |-> t]
<1>1. /\ run.pc = "next" /\ DOMAIN run = RunFields /\ t \in Seq(Cands) /\ run.sub \in BOOLEAN
      /\ Sound(run.ctx) /\ (~run.sub => run.first = "none") /\ faults \in 0..MaxFaults
  BY TailOfCands DEF SkipDone, AtNext, IInv, RunOK, RestOK
<1>2. UNCHANGED <<ingest, target, rules, vetoed, displaced, faults>> /\ Go(d)
  BY DEF SkipDone, db
<1> HIDE DEF t
<1>3. DOMAIN d = {"todo"} /\ d.todo = t
  OBVIOUS
<1> HIDE DEF d
<1>4. /\ DOMAIN run' = RunFields
      /\ \A f \in RunFields : run'[f] = IF f \in DOMAIN d THEN d[f] ELSE run[f]
  BY <1>1, <1>2, <1>3, GoFields DEF RunFields
<1>5. /\ run'.pc = "next" /\ run'.todo = t /\ run'.sub = run.sub /\ run'.ctx = run.ctx
      /\ run'.first = run.first
  BY <1>1, <1>3, <1>4 DEF RunFields
<1>6. RunOK'
  BY <1>1, <1>4, <1>5 DEF RunOK, PCs, BeforeLast, AfterCompiling
<1>7. RowsOK' /\ RestOK' /\ RulesOK'
  BY <1>2, <1>5 DEF IInv, RowsOK, RestOK, RulesOK
<1>8. Counted'
  <2>1. \A e \in Cands : ~Inserted(e)
    BY <1>1 DEF Inserted
  <2> QED
    BY <1>1, <1>2, <2>1, CountsStay, ColdAssumption
<1>9. ActiveIsEarned' /\ DisplacedByActiveOnly' /\ DisplacedAsPlanned'
  BY <1>2, RulesStay
<1> QED
  BY <1>6, <1>7, <1>8, <1>9 DEF IInv

\* A row of the transcript's first reading, or of the reading after it expired.
LEMMA NewRow ==
  ASSUME NEW age \in {"new", "old", "again"}, NEW row,
         row = [NoRow EXCEPT !.status = "pending", !.age = age]
  PROVE  /\ row \in RowType
         /\ row.status = "pending" /\ row.checkpoint = NoCheckpoint /\ row.retries = 0
<1>1. PICK cp : cp = NoCheckpoint
  OBVIOUS
<1>2. row = [status |-> "pending", retries |-> 0, checkpoint |-> cp, age |-> age]
  BY <1>1 DEF NoRow
<1>3. cp \in Checkpoint /\ 0 \in 0..MAX_INGEST_RETRIES
  BY <1>1, FreshIsSound, ColdAssumption
<1>4. row.status = "pending" /\ row.checkpoint = cp /\ row.retries = 0
  <2> DEFINE r == [status |-> "pending", retries |-> 0, checkpoint |-> cp, age |-> age]
  <2>1. r.status = "pending" /\ r.checkpoint = cp /\ r.retries = 0
    OBVIOUS
  <2> HIDE DEF r
  <2> QED
    BY <1>2, <2>1 DEF r
<1>5. row \in RowType
  BY <1>2, <1>3 DEF RowType
<1> QED
  BY <1>1, <1>4, <1>5

\* The process is at a stage with the candidate, or just took it.
Taken(c, pc, ctx) ==
  /\ DOMAIN run' = RunFields /\ run'.pc = pc /\ run'.cand = c /\ run'.todo = Tail(run.todo)
  /\ run'.sub = FALSE /\ run'.first = "none" /\ run'.ctx = ctx

\* ... with the context it was left with, or a new one.
LEMMA TakenFields ==
  ASSUME NEW c, NEW pc, NEW ctx,
         \/ run' = [Idle EXCEPT !.pc = pc, !.cand = c, !.todo = Tail(run.todo), !.ctx = ctx]
         \/ run' = [Idle EXCEPT !.pc = pc, !.cand = c, !.todo = Tail(run.todo)] /\ ctx = Fresh
  PROVE  Taken(c, pc, ctx)
<1>1. /\ DOMAIN Idle = RunFields /\ Idle.sub = FALSE /\ Idle.first = "none" /\ Idle.ctx = Fresh
  BY IdleFields
<1> QED
  BY <1>1 DEF Taken, RunFields

\* What is taken up from a checkpoint is as sound as it was; it is taken up before
\* the fast lane, behind the compilation only if it compiles.
LEMMA TakeKeeps ==
  ASSUME IInv, NEW c \in Cands, Take(c)
  PROVE  IInv'
<1>1. PICK row : row = IF ingest[c].status \in {"none", "expired"}
                       THEN [NoRow EXCEPT !.status = "pending", !.age = ingest[c].age]
                       ELSE ingest[c]
  OBVIOUS
<1>2. /\ run.pc = "next" /\ Tail(run.todo) \in Seq(Cands) /\ ingest[c].status # "done"
      /\ ingest[c] \in RowType /\ Resumable(c, ingest[c].checkpoint) /\ RowsOK
      /\ ingest[c].status = "pending" => ingest[c].retries < MAX_INGEST_RETRIES
  BY TailOfCands DEF Take, AtNext, IInv, RunOK, RowsOK
<1>3. /\ ingest' = [ingest EXCEPT ![c] = row]
      /\ UNCHANGED <<target, rules, vetoed, displaced, faults>>
      /\ run' = IF row.status = "pending" /\ row.checkpoint # NoCheckpoint
                THEN [Idle EXCEPT !.pc = ResumeAt(row.checkpoint.stage), !.cand = c,
                                  !.todo = Tail(run.todo), !.ctx = row.checkpoint.ctx]
                ELSE [Idle EXCEPT !.pc = "admission", !.cand = c, !.todo = Tail(run.todo)]
  BY <1>1 DEF Take, db
<1>4. /\ row \in RowType /\ row.status \in {"pending", "dead"} /\ Resumable(c, row.checkpoint)
      /\ row.status = "pending" => row.retries < MAX_INGEST_RETRIES
      /\ row.status = "dead" => ingest[c].status = "dead"
      /\ row.status = "pending" => ingest[c].status \notin {"done", "dead"}
  <2>1. CASE ingest[c].status \in {"none", "expired"}
    <3>1. ingest[c].age \in {"new", "old", "again"}
      BY <1>2 DEF RowType
    <3>2. row = [NoRow EXCEPT !.status = "pending", !.age = ingest[c].age]
      BY <1>1, <2>1
    <3>3. /\ row \in RowType /\ row.status = "pending" /\ row.checkpoint = NoCheckpoint /\ row.retries = 0
      BY <3>1, <3>2, NewRow
    <3> QED
      BY <2>1, <3>3, FreshIsSound, ColdAssumption
  <2>2. CASE ingest[c].status \notin {"none", "expired"}
    <3>1. row = ingest[c]
      BY <1>1, <2>2
    <3> QED
      BY <1>2, <2>2, <3>1 DEF RowType
  <2> QED
    BY <2>1, <2>2
<1>5. PICK pc, ctx :
        /\ pc \in BeforeLast \ {"split"} /\ Taken(c, pc, ctx) /\ Sound(ctx) /\ ~ctx.fastLane
        /\ pc \in AfterCompiling => c \in Compilable
  <2>1. CASE row.status = "pending" /\ row.checkpoint # NoCheckpoint
    <3> DEFINE cp == row.checkpoint
               pc == ResumeAt(cp.stage)
    <3>1. cp.stage \in Checkpointed /\ Sound(cp.ctx) /\ ~cp.ctx.fastLane
          /\ (cp.stage = "synthetic_eval" => c \in Compilable)
      BY <1>4, <2>1 DEF Resumable, RowType, Checkpoint
    <3>2. Taken(c, pc, cp.ctx)
      <4>1. run' = [Idle EXCEPT !.pc = pc, !.cand = c, !.todo = Tail(run.todo), !.ctx = cp.ctx]
        BY <1>3, <2>1
      <4> HIDE DEF pc, cp
      <4> QED
        BY <4>1, TakenFields
    <3>3. /\ pc \in BeforeLast \ {"split"}
          /\ pc \in AfterCompiling => cp.stage = "synthetic_eval"
      BY <3>1, Chain DEF ResumeAt, Checkpointed, BeforeLast, AfterCompiling
    <3> HIDE DEF pc, cp
    <3> QED
      BY <3>1, <3>2, <3>3
  <2>2. CASE ~(row.status = "pending" /\ row.checkpoint # NoCheckpoint)
    <3>1. run' = [Idle EXCEPT !.pc = "admission", !.cand = c, !.todo = Tail(run.todo)]
      BY <1>3, <2>2
    <3>2. Taken(c, "admission", Fresh)
      BY <3>1, TakenFields
    <3> QED
      BY <3>2, FreshIsSound DEF BeforeLast, AfterCompiling
  <2> QED
    BY <2>1, <2>2
<1>6. RowsOK' /\ ingest'[c] = row /\ \A d \in Cands \ {c} : ingest'[d] = ingest[d]
  BY <1>2, <1>3, <1>4, RowWritten
<1>7. RunOK'
  <2>1. /\ pc \in PCs /\ pc \notin {"result", "split", "merge", "reevaluate", "revert", "side_effects"}
    BY <1>5 DEF PCs, BeforeLast
  <2> QED
    BY <1>2, <1>4, <1>5, <1>6, <2>1 DEF RunOK, Taken
<1>8. RestOK' /\ RulesOK'
  <2>1. run'.pc # "side_effects"
    BY <1>5 DEF Taken, BeforeLast
  <2> QED
    BY <1>3, <2>1 DEF IInv, RestOK, RulesOK
<1>9. Counted'
  <2>1. \A e \in Cands : ~Inserted(e)
    BY <1>2 DEF Inserted
  <2>2. faults' = faults /\ faults \in Nat
    BY <1>3, ColdAssumption DEF IInv, RestOK
  <2>3. ASSUME NEW e \in Cands
        PROVE  /\ ingest'[e].status # "dead" => ingest[e].status # "dead"
               /\ ingest'[e].status \notin {"done", "dead"} => ingest[e].status \notin {"done", "dead"}
    BY <1>4, <1>6
  <2> QED
    BY <1>3, <2>1, <2>2, <2>3, CountsStay
<1>10. ActiveIsEarned' /\ DisplacedByActiveOnly' /\ DisplacedAsPlanned'
  BY <1>3, RulesStay
<1> QED
  BY <1>6, <1>7, <1>8, <1>9, <1>10 DEF IInv

\* A step of another process, which changes neither a status of a row nor a rule
\* the pipeline inserted.
LEMMA OthersStep ==
  ASSUME IInv, UNCHANGED <<run, rules, displaced, faults>>, RowsOK',
         target' \in TargetType, vetoed' \subseteq Cands,
         \A c \in Cands : ingest'[c].status = ingest[c].status
  PROVE  IInv'
<1>1. RunOK'
  BY DEF IInv, RunOK
<1>2. RulesOK' /\ RestOK'
  BY DEF IInv, RulesOK, RestOK
<1>3. Counted'
  <2>1. \A c \in Cands : Inserted(c)' <=> Inserted(c)
    BY DEF Inserted
  <2>2. faults' = faults /\ faults \in Nat
    BY ColdAssumption DEF IInv, RestOK
  <2> QED
    BY <2>1, <2>2, CountsStay
<1>4. ActiveIsEarned' /\ DisplacedByActiveOnly' /\ DisplacedAsPlanned'
  BY RulesStay
<1> QED
  BY <1>1, <1>2, <1>3, <1>4 DEF IInv

\* The existing rule changes.
LEMMA MoveTargetKeeps ==
  ASSUME IInv, MoveTarget
  PROVE  IInv'
<1>1. target \in TargetType /\ vetoed \subseteq Cands /\ RowsOK
  BY DEF IInv, RestOK
<1>2. UNCHANGED <<ingest, run, rules, vetoed, displaced, faults>>
  BY DEF MoveTarget
<1>3. target' \in TargetType
  <2>1. PICK s \in {"active", "trusted", "suppressed", "archived"} :
          target' = [target EXCEPT !.status = s, !.version = @ + 1]
    BY ColdAssumption DEF MoveTarget
  <2>2. PICK m \in Nat : m = target.version + 1
    BY <1>1 DEF TargetType
  <2>3. target' = [target EXCEPT !.status = s, !.version = m]
    BY <2>1, <2>2
  <2> QED
    BY <1>1, <2>3 DEF TargetType
<1>4. RowsOK'
  BY <1>1, <1>2 DEF RowsOK
<1> QED
  BY <1>1, <1>2, <1>3, <1>4, OthersStep

\* Content is dismissed.
LEMMA DismissKeeps ==
  ASSUME IInv, NEW c \in Cands, Dismiss(c)
  PROVE  IInv'
<1>1. target \in TargetType /\ vetoed \subseteq Cands /\ RowsOK
  BY DEF IInv, RestOK
<1>2. UNCHANGED <<ingest, run, target, rules, displaced, faults>> /\ vetoed' = vetoed \cup {c}
  BY DEF Dismiss
<1>3. RowsOK'
  BY <1>1, <1>2 DEF RowsOK
<1> QED
  BY <1>1, <1>2, <1>3, OthersStep

\* A row gets old.
LEMMA GetOldKeeps ==
  ASSUME IInv, NEW c \in Cands, GetOld(c)
  PROVE  IInv'
<1> DEFINE row == [ingest[c] EXCEPT !.age = "old"]
<1>1. /\ target \in TargetType /\ vetoed \subseteq Cands /\ RowsOK
      /\ ingest[c] \in RowType /\ Resumable(c, ingest[c].checkpoint)
      /\ ingest[c].status = "pending" => ingest[c].retries < MAX_INGEST_RETRIES
  BY DEF IInv, RestOK, RowsOK
<1>2. /\ UNCHANGED <<run, target, rules, vetoed, displaced, faults>>
      /\ ingest' = [ingest EXCEPT ![c] = row]
  BY <1>1 DEF GetOld, db
<1>3. /\ row \in RowType /\ row.status = ingest[c].status /\ row.retries = ingest[c].retries
      /\ row.checkpoint = ingest[c].checkpoint
  BY <1>1 DEF RowType
<1> HIDE DEF row
<1>4. RowsOK' /\ ingest'[c] = row /\ \A d \in Cands \ {c} : ingest'[d] = ingest[d]
  BY <1>1, <1>2, <1>3, RowWritten
<1>5. \A d \in Cands : ingest'[d].status = ingest[d].status
  BY <1>3, <1>4
<1> QED
  BY <1>1, <1>2, <1>4, <1>5, OthersStep

-----------------------------------------------------------------------------
\* The empty database is in order.
LEMMA InitIsInvariant ==
  ASSUME Init
  PROVE  IInv
<1>1. RowsOK
  <2>1. NoRow \in RowType /\ NoRow.checkpoint = NoCheckpoint /\ NoRow.status = "none"
    <3>1. NoRow.checkpoint = NoCheckpoint /\ NoRow.status = "none"
      BY DEF NoRow
    <3>2. NoCheckpoint \in Checkpoint /\ 0 \in 0..MAX_INGEST_RETRIES
      BY FreshIsSound, ColdAssumption
    <3>3. NoRow \in RowType
      BY <3>2 DEF NoRow, RowType
    <3> QED
      BY <3>1, <3>3
  <2>2. ingest = [c \in Cands |-> NoRow]
    BY DEF Init
  <2> QED
    BY <2>1, <2>2, FreshIsSound DEF RowsOK
<1>2. rules = <<>> /\ displaced = {} /\ vetoed = {} /\ faults = 0 /\ run = Idle
  BY DEF Init
<1>3. RunOK
  <2> DEFINE empty == <<>>
  <2>1. empty \in Seq(Cands)
    OBVIOUS
  <2>2. /\ DOMAIN run = RunFields /\ run.pc = "idle" /\ run.todo = empty
        /\ run.sub = FALSE /\ run.first = "none" /\ run.ctx = Fresh
    BY <1>2, IdleFields
  <2> HIDE DEF empty
  <2> QED
    BY <2>1, <2>2, FreshIsSound DEF RunOK, PCs, BeforeLast, AfterCompiling
<1>4. RulesOK
  <2>1. rules \in Seq(RuleType)
    BY <1>2
  <2>2. run.pc = "idle"
    BY <1>2, IdleFields
  <2> QED
    BY <1>2, <2>1, <2>2 DEF RulesOK
<1>5. RestOK
  <2> DEFINE t == [status |-> "active", version |-> 1, variants |-> {Own}]
  <2>1. t \in TargetType
    BY DEF TargetType
  <2>2. target = t
    BY DEF Init
  <2> HIDE DEF t
  <2> QED
    BY <1>2, <2>1, <2>2, ColdAssumption DEF RestOK
<1>6. Counted
  <2>1. \A c \in Cands : RulesOf(c) = {}
    BY <1>2 DEF RulesOf
  <2>2. Cardinality({}) = 0
    BY FS_EmptySet
  <2>3. \A c \in Cands : Cardinality(RulesOf(c)) = 0
    BY <2>1, <2>2
  <2> QED
    BY <1>2, <2>3 DEF Counted
<1>7. ActiveIsEarned /\ DisplacedByActiveOnly /\ DisplacedAsPlanned
  BY <1>2 DEF ActiveIsEarned, DisplacedByActiveOnly, DisplacedAsPlanned
<1> QED
  BY <1>1, <1>3, <1>4, <1>5, <1>6, <1>7 DEF IInv

\* Every step keeps the invariant.
LEMMA StepKeeps ==
  ASSUME IInv, [Next]_vars
  PROVE  IInv'
<1>1. CASE Stages
  BY <1>1, AdmissionKeeps, BuildRuleDataKeeps, FinalJudgeKeeps, MergePlannerKeeps, SplitKeeps,
     FingerprintCheckKeeps, CompileMatcherKeeps, SyntheticEvalKeeps, FastLaneCheckKeeps,
     RejectMergeKeeps, InsertKeeps, SideEffectsKeeps, ReadForMergeKeeps, MergeFieldsKeeps,
     ReevaluateKeeps, RevertKeeps DEF Stages
<1>2. CASE StartProcess \/ NextSubRule \/ Settle \/ EndProcess
  BY <1>2, StartProcessKeeps, NextSubRuleKeeps, SettleKeeps, EndProcessKeeps
<1>3. ASSUME NEW c \in Cands, SkipDone(c) \/ Take(c)
      PROVE  IInv'
  BY <1>3, SkipDoneKeeps, TakeKeeps
<1>4. CASE RoleFails \/ Raises \/ Crash
  BY <1>4, RoleFailsKeeps, RaisesKeeps, CrashKeeps
<1>5. CASE MoveTarget
  BY <1>5, MoveTargetKeeps
<1>6. ASSUME NEW c \in Cands, Dismiss(c) \/ GetOld(c)
      PROVE  IInv'
  BY <1>6, DismissKeeps, GetOldKeeps
<1>7. CASE UNCHANGED vars
  <2>1. UNCHANGED <<ingest, run, target, rules, vetoed, displaced, faults>>
    BY <1>7 DEF vars
  <2>2. RowsOK' /\ target' \in TargetType /\ vetoed' \subseteq Cands
    BY <2>1 DEF IInv, RowsOK, RestOK
  <2> QED
    BY <2>1, <2>2, OthersStep
<1> QED
  BY <1>1, <1>2, <1>3, <1>4, <1>5, <1>6, <1>7 DEF Next, Process

\* The inductive invariant holds in every state the pipeline can be in.
THEOREM ColdInvariant == Spec => []IInv
<1>1. Init => IInv
  BY InitIsInvariant
<1>2. IInv /\ [Next]_vars => IInv'
  BY StepKeeps
<1> QED
  BY <1>1, <1>2, PTL DEF Spec

\* It says of every variable what it can be.
LEMMA InvariantTypes ==
  ASSUME IInv
  PROVE  TypeOK
<1>1. ASSUME NEW c \in Cands
      PROVE  /\ ingest[c].status \in {"none", "pending", "done", "dead", "expired"}
             /\ ingest[c].retries \in 0..MAX_INGEST_RETRIES
             /\ ingest[c].checkpoint.stage \in Checkpointed \cup {"none"}
             /\ ingest[c].checkpoint.ctx \in ContextType
  BY DEF IInv, RowsOK, RowType, Checkpoint
<1>2. run.pc \in StageNames \cup {"idle", "next", "split", "side_effects", "merge", "reevaluate",
                                  "revert", "result"}
  <2>1. StageNames = {"admission", "build_rule_data", "final_judge", "merge_planner", "fingerprint_check",
                      "compile_matcher", "synthetic_eval", "fast_lane_check", "insert_or_merge"}
    <3>1. /\ STAGE_CHAIN[1] = "admission" /\ STAGE_CHAIN[2] = "build_rule_data"
          /\ STAGE_CHAIN[3] = "final_judge" /\ STAGE_CHAIN[4] = "merge_planner"
          /\ STAGE_CHAIN[5] = "fingerprint_check" /\ STAGE_CHAIN[6] = "compile_matcher"
          /\ STAGE_CHAIN[7] = "synthetic_eval" /\ STAGE_CHAIN[8] = "fast_lane_check"
          /\ STAGE_CHAIN[9] = "insert_or_merge" /\ DOMAIN STAGE_CHAIN = 1..9
      BY DEF STAGE_CHAIN
    <3> QED
      BY <3>1 DEF StageNames
  <2> QED
    BY <2>1 DEF IInv, RunOK, PCs, BeforeLast
<1>3. /\ run.todo \in Seq(Cands) /\ run.ctx \in ContextType
      /\ run.pc \notin {"idle", "next"} => run.cand \in Cands
      /\ run.pc = "result" => run.result \in Results
      /\ run.pc = "split" => ~run.sub
      /\ run.pc \in {"merge", "reevaluate", "revert", "side_effects"} => run.ctx.snapshot \in TargetType
  BY DEF IInv, RunOK, Sound
<1>4. target \in TargetType /\ vetoed \subseteq Cands /\ faults \in 0..MaxFaults
  BY DEF IInv, RestOK
<1> QED
  BY <1>1, <1>2, <1>3, <1>4 DEF TypeOK

\* Every row, checkpoint and context is of its type, wherever a run was resumed.
THEOREM ColdTypes == Spec => []TypeOK
  BY ColdInvariant, InvariantTypes, PTL

\* Whatever was resumed and from where, a rule inserted as active has passed its
\* evaluation and compiles (stages.py: run_insert_or_merge).
THEOREM ActiveRulesAreEarned == Spec => []ActiveIsEarned
<1>1. IInv => ActiveIsEarned
  BY DEF IInv
<1> QED
  BY <1>1, ColdInvariant, PTL

\* Only a rule that went into service with a matcher takes another out of it
\* (integrate.py: _apply_merge_side_effects).
THEOREM OnlyActiveRulesDisplace == Spec => []DisplacedByActiveOnly
<1>1. IInv => DisplacedByActiveOnly
  BY DEF IInv
<1> QED
  BY <1>1, ColdInvariant, PTL

\* A rule is displaced only as it was when the merge was planned, however many
\* processes and faults came between (integrate.py: its comparison of versions).
THEOREM DisplacementsAreAsPlanned == Spec => []DisplacedAsPlanned
<1>1. IInv => DisplacedAsPlanned
  BY DEF IInv
<1> QED
  BY <1>1, ColdInvariant, PTL

\* A candidate becomes a rule a second time only after a fault, or with a row that
\* is dead (process.py: the row is settled after the insertion).
THEOREM SecondInsertionNeedsFault == Spec => []InsertedTwiceOnlyByFault
<1>1. IInv => InsertedTwiceOnlyByFault
  BY DEF IInv, Counted, InsertedTwiceOnlyByFault, RulesOf
<1> QED
  BY <1>1, ColdInvariant, PTL
=============================================================================
