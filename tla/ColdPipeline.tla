---------------------------- MODULE ColdPipeline ----------------------------
(***************************************************************************)
(* The cold pipeline: the candidates extracted from a transcript go one by *)
(* one through a chain of stages that ends in a rejection, a merge into an *)
(* existing rule or a new rule.  Some stages leave a checkpoint in the     *)
(* candidate's ingest row; a run that fails or dies is taken up from it by *)
(* the next one.  One process runs the pipeline (extract.lock); meanwhile  *)
(* other processes move the existing rule and dismiss content.             *)
(***************************************************************************)
EXTENDS Integers, Sequences, FiniteSets, MergePolicy, ColdPolicy

CONSTANTS
  Candidates,          \* the candidates of a transcript, in the order they were extracted
  Own,                 \* the variants the existing rule was created with
  Compilable,          \* candidates whose trigger compiles
  AdmissionScores,     \* what the admission judge may say
  Plans,               \* what the merge planner may say of each
  Traits,              \* fields of the existing rule that only the merge policy reads
  NewTraits,           \* the same of a candidate
  Moves,               \* statuses other processes give the existing rule
  MaxSubRules, MAX_INGEST_RETRIES,
  MaxFaults, MaxVersion, MaxRules, MaxDismissals  \* bounds

\* A candidate also stands for its trigger variants.
Cands == ToSet(Candidates)

ASSUME ColdAssumption ==
  /\ Candidates \in Seq(Cands) /\ Own \notin Cands /\ Compilable \subseteq Cands
  /\ AdmissionScores \subseteq [Dimensions -> 0..100]
  /\ Moves \subseteq {"active", "trusted", "suppressed", "archived"}
  /\ MaxSubRules \in 1..3 /\ MAX_INGEST_RETRIES \in Nat \ {0}
  /\ MaxFaults \in Nat /\ MaxVersion \in Nat /\ MaxRules \in Nat /\ MaxDismissals \in Nat

VARIABLES
  ingest,   \* [Cands -> [status, retries, checkpoint, age]]: rows of transcript_ingest_jobs
  run,      \* the process: where it is, the candidate, the context of the stages
  target,   \* the existing rule: [status, version, variants]
  rules,    \* rules inserted, in order
  vetoed,   \* candidates whose content is in archived_fingerprints
  displaced,\* history: the displacements of the existing rule
  faults

vars == <<ingest, run, target, rules, vetoed, displaced, faults>>
db == <<target, rules, vetoed, displaced>>

STAGE_CHAIN == <<"admission", "build_rule_data", "final_judge", "merge_planner",
                 "fingerprint_check", "compile_matcher", "synthetic_eval",
                 "fast_lane_check", "insert_or_merge">>
Checkpointed == {"admission", "build_rule_data", "final_judge", "merge_planner", "synthetic_eval"}
StageIndex(name) == CHOOSE i \in DOMAIN STAGE_CHAIN : STAGE_CHAIN[i] = name
After(name) == STAGE_CHAIN[StageIndex(name) + 1]

\* CandidateContext.  compiled and cases are not written to a checkpoint.
NoScores == [d \in Dimensions |-> 0]
Fresh == [scores |-> NoScores, decision |-> "none", judge |-> "none", op |-> "none",
          snapshot |-> NoRule, passed |-> FALSE, fastLane |-> FALSE,
          compiled |-> FALSE, cases |-> FALSE]
NoCheckpoint == [stage |-> "none", ctx |-> Fresh]

Idle == [pc |-> "idle", cand |-> Own, todo |-> <<>>, ctx |-> Fresh,
         sub |-> FALSE, left |-> 0, first |-> "none", result |-> "none", version |-> 0]
NoRow == [status |-> "none", retries |-> 0, checkpoint |-> NoCheckpoint, age |-> "new"]

Init ==
  /\ ingest = [c \in Cands |-> NoRow]
  /\ run = Idle
  /\ target = [status |-> "active", version |-> 1, variants |-> {Own}]
  /\ rules = <<>>
  /\ vetoed = {}
  /\ displaced = {}
  /\ faults = 0

\* A row that is not pending keeps its checkpoint, which nothing reads; again
\* says that the row has expired before.
Closed(row, status) ==
  [row EXCEPT !.status = status, !.checkpoint = NoCheckpoint,
              !.age = IF status = "expired" THEN "again" ELSE "new"]

\* The process goes on with these fields changed.
Go(changes) == run' = [f \in DOMAIN run |-> IF f \in DOMAIN changes THEN changes[f] ELSE run[f]]

-----------------------------------------------------------------------------
(* The process takes the candidates of a transcript                        *)

\* A crash, or a return, leaves the transcript unread: it is taken again.
\* Rows past their time are expired first.
StartProcess ==
  /\ run.pc = "idle" /\ \E c \in Cands : ingest[c].status \notin {"done", "dead"}
  /\ ingest' = [c \in Cands |-> IF ingest[c].status = "pending" /\ ingest[c].age = "old"
                                THEN Closed(ingest[c], "expired") ELSE ingest[c]]
  /\ run' = [Idle EXCEPT !.pc = "next", !.todo = Candidates]
  /\ UNCHANGED <<db, faults>>

AtNext(c) == run.pc = "next" /\ run.todo # <<>> /\ c = Head(run.todo)

SkipDone(c) ==
  /\ AtNext(c) /\ ingest[c].status = "done"
  /\ Go([todo |-> Tail(run.todo)])
  /\ UNCHANGED <<ingest, db, faults>>

\* Mutant: the stage of the checkpoint is run again.
SameStage(name) == name
ResumeAt(name) == After(name)

\* A done row is skipped; one that is dead stays as it is, and is run.
Take(c) ==
  LET row == IF ingest[c].status \in {"none", "expired"}
             THEN [NoRow EXCEPT !.status = "pending", !.age = ingest[c].age]
             ELSE ingest[c]
      cp == row.checkpoint IN
  /\ AtNext(c) /\ ingest[c].status # "done"
  /\ ingest' = [ingest EXCEPT ![c] = row]
  /\ run' = IF row.status = "pending" /\ cp # NoCheckpoint
            THEN [Idle EXCEPT !.pc = ResumeAt(cp.stage), !.cand = c, !.todo = Tail(run.todo), !.ctx = cp.ctx]
            ELSE [Idle EXCEPT !.pc = "admission", !.cand = c, !.todo = Tail(run.todo)]
  /\ UNCHANGED <<db, faults>>

-----------------------------------------------------------------------------
(* Stages                                                                  *)

\* The stage ends with this context; the rules of a split have no ingest row.
Pass(stage, ctx) ==
  /\ Go([ctx |-> ctx, pc |-> After(stage)])
  /\ ingest' =
       IF stage \in Checkpointed /\ ~run.sub /\ ingest[run.cand].status = "pending"
       THEN [ingest EXCEPT ![run.cand].checkpoint =
               [stage |-> stage, ctx |-> [ctx EXCEPT !.compiled = FALSE, !.cases = FALSE]]]
       ELSE ingest
  /\ UNCHANGED <<db, faults>>

Return(result) == Go([pc |-> "result", result |-> result])
Ends(result) == Return(result) /\ UNCHANGED <<ingest, db, faults>>

\* What the roles may answer.  The rewriter is only asked about what is to be
\* revised, and what it writes is not told apart here.
AdmissionAnswers == AdmissionScores
RewriterAnswers(decision) == IF decision = "revise" THEN {"rewritten"} ELSE {"as it is"}
JudgeAnswers == {"reject", "accept_active", "accept_candidate"}

Admission ==
  /\ run.pc = "admission"
  /\ \E scores \in AdmissionAnswers :
       LET decision == EnforceAdmission(scores) IN
       IF decision = "reject" THEN Ends("rejected")
       ELSE Pass("admission", [run.ctx EXCEPT !.scores = scores, !.decision = decision])

BuildRuleData ==
  /\ run.pc = "build_rule_data"
  /\ \E answer \in RewriterAnswers(run.ctx.decision) : Pass("build_rule_data", run.ctx)

FinalJudge ==
  /\ run.pc = "final_judge"
  /\ \E judge \in JudgeAnswers :
       IF judge = "reject" THEN Ends("rejected")
       ELSE Pass("final_judge", [run.ctx EXCEPT !.judge = judge])

\* The neighbour the planner names, with the fields as they are now.
Neighbour == [Traits EXCEPT !.status = target.status] @@ target

\* The planner is only asked about neighbours that are not archived; it need
\* not name one of them.
PlannerAnswers == Plans[run.cand] \X ({NoRule} \cup (IF target.status = "archived" THEN {} ELSE {Neighbour}))

\* Mutant: a sub-rule is split like its parent.
SplitsAgain == TRUE
MayBeSplit == ~run.sub

MergePlanner ==
  /\ run.pc = "merge_planner"
  /\ \E answer \in PlannerAnswers :
       LET existing == answer[2]
           op == ApplyMergePolicy(answer[1], existing, NewTraits)
           ctx == [run.ctx EXCEPT !.op = op, !.snapshot =
                     IF existing = NoRule THEN NoRule ELSE target] IN
       IF op = "reject_new" THEN Ends("rejected")
       ELSE IF op # "split_required" THEN Pass("merge_planner", ctx)
       ELSE /\ Go([ctx |-> ctx, pc |-> IF MayBeSplit THEN "split" ELSE "result",
                   result |-> IF MayBeSplit THEN "none" ELSE "pending"])
            /\ ingest' = IF ~run.sub /\ ingest[run.cand].status = "pending"
                 THEN [ingest EXCEPT ![run.cand].checkpoint = [stage |-> "merge_planner", ctx |-> ctx]]
                 ELSE ingest
            /\ UNCHANGED <<db, faults>>

\* The rewriter names the sub-rules; each goes through the chain, and the
\* result of the first is that of the candidate.  Without a checkpoint, as for
\* a dead row, there is nothing to split.
Split ==
  /\ run.pc = "split"
  /\ \/ \E n \in 1..MaxSubRules :
          /\ ingest[run.cand].status = "pending"
          /\ Go([pc |-> "admission", ctx |-> Fresh, sub |-> TRUE, left |-> n])
     \/ ingest[run.cand].status # "pending" /\ Return("pending")
  /\ UNCHANGED <<ingest, db, faults>>

FingerprintCheck ==
  /\ run.pc = "fingerprint_check"
  /\ IF run.cand \in vetoed THEN Ends("rejected") ELSE Pass("fingerprint_check", run.ctx)

CompileMatcher ==
  /\ run.pc = "compile_matcher"
  /\ IF run.cand \in Compilable
     THEN Pass("compile_matcher", [run.ctx EXCEPT !.compiled = TRUE])
     ELSE Ends("rejected")

NeedsEval == \/ run.ctx.judge = "accept_active"
             \/ run.ctx.op \in {"merge_into_existing", "update_existing_fields"}

\* The cases are written by a role and run against the compiled rule.
EvalAnswers == IF NeedsEval THEN BOOLEAN ELSE {FALSE}

SyntheticEval ==
  /\ run.pc = "synthetic_eval"
  /\ \E passed \in EvalAnswers :
       Pass("synthetic_eval", [run.ctx EXCEPT !.passed = passed, !.cases = NeedsEval])

FastLaneCheck ==
  /\ run.pc = "fast_lane_check"
  /\ Pass("fast_lane_check", [run.ctx EXCEPT !.fastLane =
                                FastLane(run.ctx.scores, run.ctx.passed, run.ctx.judge, run.ctx.op)])

-----------------------------------------------------------------------------
(* The last stage                                                          *)

MergeOps == {"merge_into_existing", "update_existing_fields"}
AtLast(ops) == run.pc = "insert_or_merge" /\ run.ctx.op \in ops

\* The veto was passed, or the run would have ended.
RejectMerge ==
  /\ AtLast(Destructive)
  /\ \/ run.ctx.snapshot = NoRule
     \/ ~ValidTransaction(run.ctx.op, run.ctx.passed, TRUE, run.ctx.compiled, run.ctx.fastLane)
  /\ Ends("rejected")

\* Active only for what was judged active and took the fast lane.
Insert ==
  LET status == IF run.ctx.judge = "accept_active" /\ run.ctx.fastLane THEN "active" ELSE "candidate"
      rule == [cand |-> run.cand, sub |-> run.sub, status |-> status, compiled |-> run.ctx.compiled,
               evaluated |-> run.ctx.passed] IN
  /\ run.pc = "insert_or_merge" /\ run.ctx.op \notin MergeOps
  /\ ValidTransaction(run.ctx.op, run.ctx.passed, TRUE, run.ctx.compiled, run.ctx.fastLane)
  /\ Len(rules) < MaxRules
  /\ rules' = Append(rules, rule)
  /\ IF run.ctx.op \in Destructive THEN Go([pc |-> "side_effects"]) ELSE Return(status)
  /\ UNCHANGED <<ingest, target, vetoed, displaced, faults>>

\* Mutant: the version is left out of the comparison.
SameStatusOnly(snapshot) == target.status = snapshot.status
AsPlanned(snapshot) == target.status = snapshot.status /\ target.version = snapshot.version

\* The existing rule goes out of service, if it is still what the plan was
\* made for.
SideEffects ==
  LET snapshot == run.ctx.snapshot
      planned == run.ctx.op IN
  /\ run.pc = "side_effects"
  /\ IF AsPlanned(snapshot)
     THEN /\ target' = [target EXCEPT !.version = @ + 1, !.status =
                          IF planned = "suppress_existing" THEN "suppressed" ELSE "archived"]
          /\ displaced' = displaced \cup
               {[by |-> Len(rules), seen |-> snapshot.version, was |-> target.version]}
     ELSE UNCHANGED <<target, displaced>>
  /\ Return(rules[Len(rules)].status)
  /\ UNCHANGED <<ingest, rules, vetoed, faults>>

\* Reads the row of the rule to merge into, then writes the union if the row
\* is unchanged; that it was not is only logged.
ReadForMerge ==
  /\ AtLast(MergeOps)
  /\ Go([pc |-> "merge", version |-> target.version])
  /\ UNCHANGED <<ingest, db, faults>>

MergeFields ==
  /\ run.pc = "merge"
  /\ target' = IF target.version = run.version /\ run.cand \notin target.variants
               THEN [target EXCEPT !.variants = @ \cup {run.cand}, !.version = @ + 1] ELSE target
  /\ Go([pc |-> "reevaluate"])
  /\ UNCHANGED <<ingest, rules, vetoed, displaced, faults>>

\* Recompiles and evaluates the row as it is now; without cases, as after a
\* checkpoint, only the compilation counts.
Reevaluate ==
  /\ run.pc = "reevaluate"
  /\ \/ Return("merged")
     \/ /\ run.ctx.cases \/ target.variants \cap (Cands \ Compilable) # {}
        /\ Go([pc |-> "revert", version |-> target.version])
  /\ UNCHANGED <<ingest, db, faults>>

\* Writes back the fields of the plan's snapshot.
Revert ==
  /\ run.pc = "revert"
  /\ target' = IF target.version = run.version
               THEN [target EXCEPT !.variants = run.ctx.snapshot.variants, !.version = @ + 1] ELSE target
  /\ Return("rejected")
  /\ UNCHANGED <<ingest, rules, vetoed, displaced, faults>>

-----------------------------------------------------------------------------
(* Results                                                                 *)

NextSubRule ==
  /\ run.pc = "result" /\ run.sub /\ run.left > 1
  /\ Go([pc |-> "admission", ctx |-> Fresh, left |-> run.left - 1, result |-> "none",
         first |-> IF run.first = "none" THEN run.result ELSE run.first])
  /\ UNCHANGED <<ingest, db, faults>>

\* Mutant: only what is rejected, merged or active is over.
PendingCandidate(result) == result \in {"pending", "candidate"}
StillPending(result) == result = "pending"

\* What is still pending stays in its row; everything else is done.
Settle ==
  LET result == IF run.first = "none" THEN run.result ELSE run.first IN
  /\ run.pc = "result" /\ (run.sub => run.left = 1)
  /\ ingest' = IF StillPending(result) \/ ingest[run.cand].status # "pending" THEN ingest
               ELSE [ingest EXCEPT ![run.cand] = Closed(@, "done")]
  /\ run' = [Idle EXCEPT !.pc = "next", !.todo = run.todo]
  /\ UNCHANGED <<db, faults>>

EndProcess ==
  /\ run.pc = "next" /\ run.todo = <<>>
  /\ run' = Idle
  /\ UNCHANGED <<ingest, db, faults>>

-----------------------------------------------------------------------------
(* Faults                                                                  *)

Fault == faults < MaxFaults /\ faults' = faults + 1

Asks == {"admission", "build_rule_data", "final_judge", "merge_planner", "split", "synthetic_eval"}

\* A language model that does not answer, answers out of schema or is cut off
\* by the circuit breaker leaves the candidate pending.
RoleFails ==
  /\ Fault /\ run.pc \in Asks
  /\ run.pc = "build_rule_data" => run.ctx.decision = "revise"
  /\ run.pc = "synthetic_eval" => NeedsEval
  /\ Return("pending")
  /\ UNCHANGED <<ingest, db>>

\* Any other error, the database being locked for instance, leaves the chain
\* and counts against the row.
Raises ==
  LET row == ingest[run.cand]
      n == row.retries + 1 IN
  /\ Fault /\ run.pc \notin {"idle", "next", "result"}
  /\ ingest' = IF row.status # "pending" THEN ingest
               ELSE [ingest EXCEPT ![run.cand] =
                       IF n >= MAX_INGEST_RETRIES THEN Closed([row EXCEPT !.retries = n], "dead")
                       ELSE [row EXCEPT !.retries = n]]
  /\ run' = [Idle EXCEPT !.pc = "next", !.todo = run.todo]
  /\ UNCHANGED db

Crash ==
  /\ Fault /\ run.pc # "idle"
  /\ run' = Idle
  /\ UNCHANGED <<ingest, db>>

-----------------------------------------------------------------------------
(* Other processes                                                         *)

\* An evaluation or a user moves the rule; a merge of another process adds to it.
MoveTarget ==
  /\ target.version < MaxVersion
  /\ \E s \in Moves :
       target' = [target EXCEPT !.status = s, !.version = @ + 1]
  /\ UNCHANGED <<ingest, run, rules, vetoed, displaced, faults>>

Dismiss(c) ==
  /\ c \notin vetoed /\ Cardinality(vetoed) < MaxDismissals
  /\ vetoed' = vetoed \cup {c}
  /\ UNCHANGED <<ingest, run, target, rules, displaced, faults>>

\* No process for longer than a row lives (72 hours), which only matters when
\* the next process starts.  Bound: the row of a candidate gets old once.
GetOld(c) ==
  /\ run.pc = "idle" /\ ingest[c].status = "pending" /\ ingest[c].age = "new"
  /\ ingest' = [ingest EXCEPT ![c].age = "old"]
  /\ UNCHANGED <<run, db, faults>>

Stages ==
  \/ Admission \/ BuildRuleData \/ FinalJudge \/ MergePlanner \/ Split
  \/ FingerprintCheck \/ CompileMatcher \/ SyntheticEval \/ FastLaneCheck
  \/ RejectMerge \/ Insert \/ SideEffects
  \/ ReadForMerge \/ MergeFields \/ Reevaluate \/ Revert

Process ==
  \/ StartProcess \/ (\E c \in Cands : SkipDone(c) \/ Take(c)) \/ Stages
  \/ NextSubRule \/ Settle \/ EndProcess

Next ==
  \/ Process
  \/ RoleFails \/ Raises \/ Crash
  \/ MoveTarget
  \/ \E c \in Cands : Dismiss(c) \/ GetOld(c)

Spec == Init /\ [][Next]_vars

\* nokori extract is run again as long as the transcript is not finished, and
\* goes on.
FairSpec == Spec /\ WF_vars(Process)

-----------------------------------------------------------------------------
(* Properties                                                              *)

StageNames == {STAGE_CHAIN[i] : i \in DOMAIN STAGE_CHAIN}
Results == {"rejected", "pending", "candidate", "active", "merged"}
TargetType == [status : {"active", "trusted", "suppressed", "archived"}, version : Nat,
               variants : SUBSET (Cands \cup {Own})]
ContextType ==
  [scores : AdmissionScores \cup {NoScores}, decision : {"none", "accept", "revise"},
   judge : {"none", "accept_active", "accept_candidate"}, op : Operations \cup {"none"},
   snapshot : TargetType \cup {NoRule}, passed : BOOLEAN, fastLane : BOOLEAN,
   compiled : BOOLEAN, cases : BOOLEAN]

\* A sub-rule is never at the split of its parent, and a merge in progress has
\* the snapshot it may be reverted to.
TypeOK ==
  /\ \A c \in Cands :
       /\ ingest[c].status \in {"none", "pending", "done", "dead", "expired"}
       /\ ingest[c].retries \in 0..MAX_INGEST_RETRIES
       /\ ingest[c].checkpoint.stage \in Checkpointed \cup {"none"}
       /\ ingest[c].checkpoint.ctx \in ContextType
  /\ run.pc \in StageNames \cup {"idle", "next", "split", "side_effects", "merge", "reevaluate",
                                 "revert", "result"}
  /\ run.todo \in Seq(Cands) /\ run.ctx \in ContextType
  /\ run.pc \notin {"idle", "next"} => run.cand \in Cands
  /\ run.pc = "result" => run.result \in Results
  /\ run.pc = "split" => ~run.sub
  /\ run.pc \in {"merge", "reevaluate", "revert", "side_effects"} => run.ctx.snapshot \in TargetType
  /\ target \in TargetType
  /\ vetoed \subseteq Cands
  /\ faults \in 0..MaxFaults

\* Whatever was resumed and from where, a rule the pipeline inserts as active
\* has passed its synthetic evaluation, and its matcher compiles.
ActiveIsEarned ==
  \A i \in DOMAIN rules : rules[i].status = "active" =>
    rules[i].evaluated /\ rules[i].cand \in Compilable

\* An existing rule goes out of service only for one that goes into service: a
\* mere candidate, or a rule without a matcher, displaces nothing.
DisplacedByActiveOnly ==
  \A d \in displaced : rules[d.by].status = "active" /\ rules[d.by].compiled

\* ... and only as it was when the merge was planned, however long the
\* candidate has been pending since.
DisplacedAsPlanned == \A d \in displaced : d.was = d.seen

\* A candidate becomes two rules only after a fault between the insertion and
\* the end of the run, or when its row is dead.
InsertedTwiceOnlyByFault ==
  \A c \in Cands : ingest[c].status # "dead" =>
    Cardinality({i \in DOMAIN rules : rules[i].cand = c /\ ~rules[i].sub}) <= 1 + faults

\* Once faults stop, every candidate is settled, wherever it was left.
EveryCandidateSettles == \A c \in Cands : <>(ingest[c].status \in {"done", "dead"})

\* "Matcher compilation is required before insertion" (pipeline.py:10).
InsertedIsCompiled == \A i \in DOMAIN rules : rules[i].compiled
=============================================================================
