# Verification of nokori

nokori gives a coding agent a memory of rules. Rules are extracted from
transcripts, observed in shadow, injected into prompts, judged after the fact,
promoted, suppressed, merged and archived; a trusted rule may block ("gate") a
tool call once per message. Everything runs as short-lived processes (hooks of
the host, CLI commands, forked workers, a web server) that share one SQLite
database and some directories of small files. Nobody holds a lock on the
database for longer than one transaction, and any process may be killed by the
host. That is where this code is hard to test, and what the concurrent models
are about; the algorithms without state have a module of questions of their own.

Python paths are relative to `src/nokori/`.

## Components

| component | state | operations | interacts with | hard part |
|---|---|---|---|---|
| rule lifecycle (`lifecycle/`, `db/`) | `rules`, `archived_fingerprints` | evaluate, apply by compare-and-swap, candidate cleanup, recovery of orphaned rules | everything that writes a rule | reads outside of the transaction that uses them |
| policy and evidence (`policy.py`, `lifecycle/transition_evaluate.py`, `transition_barriers.py`, `lifecycle/evidence.py`, `events/`) | `rule_fire_events`, `rule_shadow_events` | label, count in windows, retention, decide, explain | posthoc and shadow workers | late labels, sliding windows, neighbouring thresholds |
| user commands (`commands/`, `web/api/rules.py`) | `rules` | add, dismiss, edit, import | lifecycle, gate markers | check and act apart; `archive_rule` leaves the version alone |
| merge (`merge/`, `cold/integrate.py`) | `rules`, `rule_lineage` | find neighbours, plan, replace, suppress, archive, merge fields, revert | cold pipeline, lifecycle | minutes or days between plan and write |
| gate (`gate/`, `hooks/`) | marker, ack, deferral and claim files | write, prune, read, consume, strip | prompt injection, tool hooks, dismiss | parallel hooks, repeated prompts, killed hooks |
| retrieval and matcher (`search/`, `matcher/`) | none (indexes) | rank, match, apply the policy, select | prompt injection, synthetic evaluation | exclusions, edges of thresholds, budgets |
| synthetic evaluation (`eval/`) | none | try a rule on its cases | cold pipeline, matcher | what it tells about the later rule |
| posthoc (`posthoc/`) | `posthoc_jobs`, labels, stamps | enqueue, populate windows, label, retry | session ends, fire events, lifecycle | two session ends, two workers, retention without a lock, crashes |
| cold pipeline (`cold/`) | checkpoints in `transcript_ingest_jobs`, context of a run | nine stages, split, insertion or merge | merge, fingerprints, LLM | resumption, faults between transactions |
| extraction (`extract/`) | job files, lock, offsets in `extract_state` | queue, lock, drain, fork, quarantine | session hooks, cold pipeline | crash between offset and delete, errors that are caught and logged, resumed and compacted sessions |
| session hooks (`hooks/session_*.py`) | session files, claims | start, end | extraction, posthoc | ends that come twice |
| installation (`commands/install.py`, `install_targets.py`) | settings of the hosts, recorded platforms | install, uninstall, disable, enable | the user's own hooks | sequences on files of others, writes that fail in between |
| configuration, embedding server, LLM adapter, observability, web views | | | | input and output only |

What makes them correct: a rule only makes moves of status that one of its writers
makes on its own, however they interleave; a decision is written over the row it was made from; what was archived
stays vetoed; harm is acted upon and never forgotten by time; neighbouring
decisions do not undo each other; a suppression ends; a marker denies once, a
dismissed rule denies nothing, and the agent always gets through; every fire is
judged once, on its own part of the transcript; every job ends; every candidate
settles, is inserted once and displaces only what it was planned to; the ways an
ended session is forgotten or a part of a transcript passed over unread are known
and few; less evidence never makes a rule louder; and of the user's settings of a
host nothing is lost but what is taken for Nokori's.

## Modules

```
StatusGraph            the abstract lifecycle: the moves the writers make (not the diagram of the docs)
  ^ refined by
RuleLifecycle          the rules table under all its writers
  ^ extended by MCRuleLifecycle, DismissalHistory (MCDismissalHistory), RuleLifecycle_proofs
LifecycleDecisions     what an evaluation may decide; used by both of the above
  ^ implemented by
LifecyclePolicy        what it does decide, from counts
  ^ extended by
RuleEvidence           one rule, its events and evaluations  -- MCRuleEvidence, RuleEvidence_proofs
                       (which also proves what LifecyclePolicy implements)

Gate                   the marker files of one session
  ^ extended by GateHistory (MCGate, Gate_proofs)

EvaluationLedger       the abstract life of a fire event and its job
  ^ refined by
PosthocJobs            session ends, maintenance, retention  -- MCPosthocJobs, PosthocJobs_proofs

ColdPolicy, MergePolicy  the deterministic gates over what the roles answer
  ^ used by
ColdPipeline           candidates, stages, checkpoints       -- MCColdPipeline, ColdPipeline_proofs
ExtractJobs            job files, lock, offsets; is its own MC module -- ExtractJobs_proofs

Matcher, Applicability  ->  Retrieval  ->  SyntheticEval  \
LifecyclePolicy         ->  PromotionBarriers               ->  Policies
EventWindow, MergeNeighbours, Installation                 /    (MCPolicies, Policies_proofs)

Ranks                  sorting and filtering, by rank                -- Ranks_proofs
                       used by RuleEvidence, PosthocJobs, Retrieval, MergeNeighbours, Installation
```

**RuleLifecycle.** Each SQL transaction is one step (`Db.transaction` is
`BEGIN IMMEDIATE`, so writers are serialised); what the code reads before the
transaction that uses it is kept in the variable of its actor. `task` is an
evaluation: `ReadRule`, `Decide`, then `ApplyTransition`,
`ApplyCrossProjectPromotion` or `DecideNothing`, then
`CreateSystemArchiveFingerprint`. `command` is a command that has looked at the
status. `plan` is a cold pipeline from its merge planner to its side effects.
`sweep` is a recovery sweep that has judged one rule. `veto` is the table
`archived_fingerprints` by signature, with the strength of the entry and the
rule that first created it. Processes die between steps (`EvaluatorDies`,
`PipelineDies`; a command or a sweep that stops for ever is a process that
died). `Decide` is any decision of `MayDecide`, and that relation is proved to
contain the policy.

**LifecyclePolicy** is the four pure functions of `transition_evaluate.py` over
the counts of `EvidenceSnapshot`, **PromotionBarriers** the same thresholds as
they are told to the user. **RuleEvidence** feeds the policy: labelled fire
events and shadow events in order of creation, the window by time (`fresh`) and
by number, late and overwritten labels, retention, the TTL of a suppression.

**Gate.** A step is one access to the marker files or to the database. `submit`
is the prompt hook, `call` the hooks before tool calls that run in parallel,
`dismissal` a dismissal walking through the marker files. A prompt is its hash,
so it may come again; `claims` are the coalesce claims that take a repeated
prompt for a duplicate. Cursor may skip the prompt hook (`SendUnseen`), which the
acknowledgements and the atomic deferral claims make up for. **GateHistory** and
**DismissalHistory** add history variables for what no state of the database can
express; the history changes nothing.

**PosthocJobs.** `ReadFires` and `Enqueue` are the read and the transaction of a
session end, `PopulateWindow` stores the window of one job. A maintenance worker
holds the file lock, takes a batch, asks the evaluator, and per job writes the
label with the job's status in one transaction, the usefulness stamp in the next
(`posthoc/jobs.py:209`), and evaluates the touched rules at the end. Failures
read `retries` first and write it later. `InjectionCleanup` is the retention,
which takes no lock. `Crash` strikes a worker anywhere. A `verdict` that cannot
be parsed is a failure. The variable `failures` is history.

**ColdPipeline.** `run` is the process: where it is in `STAGE_CHAIN`, and the
`CandidateContext`, of which `compiled` and `cases` are not checkpointed.
`ingest` is the row of each candidate with its checkpoint and retries. The roles
answer anything within their schema; the gates over their answers (`ColdPolicy`,
`MergePolicy`) are the code's. The last stage takes its transactions one by one:
`Insert`, then `SideEffects` with its compare-and-swap; or `ReadForMerge`,
`MergeFields`, `Reevaluate`, `Revert`. `RoleFails`, `Raises` and `Crash` are the
three ways a run ends early; `MoveTarget` and `Dismiss` are other processes;
`GetOld` is the time after which a pending row expires.

**ExtractJobs.** A worker is `nokori extract` or the runner of a forked session;
both take the one lock, read from the recorded offset, extract, `Mark` the new
offset and `DeleteJob`, in separate steps. The host appends to, compacts and
deletes transcripts at any time. The hook at the end of a session takes its claim
(`SessionEnd`) and then writes a job file (`WriteJob`), which may fail
(`HookFails`); an end under the claim of an earlier one does nothing
(`EndUnderClaim`). A job file is named by the transcript and its length (standing
for the modification time), so a second end of a session makes a second file. A
runner looks for a compaction (`StartFork`) and forks the session later
(`ForkSession`). What comes of the candidates of a part is `Settled`,
`LeftPending` (a failing role or an open circuit breaker: no failure is counted),
or `Fails`: a failure is counted, unless the row has expired or the candidate is
worded anew, and the offset moves on once all that failed are dead, also past
candidates a database error kept from being queued. `MarkFails`, `Quarantine` and
`Discards` are the other errors the code catches and logs. `extracted`, `missed`,
`ended` and `lost` are history: `lost` holds the transcripts an end of which was
left without a job file, `missed` the positions that no run will extract, and the
steps that add to them are those the two properties name.

**Policies.** The algorithms. One action per kind of question chooses the input,
and an invariant per kind compares the algorithm with what it promises. A
question stays as it was asked, but for the installation: there `Command` runs
any command of `nokori install` on the files the last one has left, any number of
times (`preview` is the dry run, which writes nothing), and each may fail at any
of its writes; `torn` holds the hosts written by a command that then failed. `Matcher` works on sequences of words with the substring semantics of
the code (a word may be inside another); `Applicability` is the table of
`search/applicability.py`; `Retrieval` is the fusion of the two rankings, the
evidence, and the selector with its budgets, where the size of the pool decides
whether embeddings are used, and the formal rules alone are ranked by words in
another order than with the shadow rules; `SyntheticEval` runs cases through
both; `EventWindow` is `posthoc/windowing.py`; `MergeNeighbours` the search of
`merge/policy.py`; `Installation` the editing of hook files. Rates are
percentages and sums of IDF hundredths. **Ranks** says what Python's sorts and list
comprehensions and SQLite's `ORDER BY` and `DELETE` make of a list: an element of a
sorted list stands one place after the number of those before it.

## Runs

| run | asks | instance | result |
|---|---|---|---|
| merges | row invariants, refinement of the moves of single writers, memory of vetoes | two rules of the same content, one actor of each kind | holds |
| one_rule | transitions over a row that has moved on; harm under fair evaluation | one rule, `MaxVersion` 4 | holds |
| dismissed_returns | does a dismissed rule stay retired? | two rules | violated |
| evidence | flapping; harm over time; does every suppression end? | scaled windows and thresholds | holds |
| gate | marker and dismissal safety | two parallel calls, one dismissal, two turns | holds |
| gate_progress | does the agent get through? | Cursor, timeouts, two turns, new versions | holds |
| gate_stale | does a marker of another turn pass? | one call at a time, three turns | violated |
| posthoc | refinement of the ledger, one job per fire, retries, stamps, settlement | two fires, two session ends, two workers, one crash | holds |
| cold | what becomes active, what is displaced, double insertion, settlement | two candidates, splits into up to two, one fault | holds |
| cold_resume | is a matcher compiled before insertion? | one candidate, one crash | violated |
| extract | ends, skipped parts, offsets, consumption of jobs | one extractor, one forked runner, two faults, 519,629 states | holds |
| policies | seven questions about algorithms, and what installation does to files of others | bounded inputs, 287,226 states in all | holds |

Every property of a passing run has a mutant of the code that breaks it; the
mutants stand before the definitions they mutate.

**Bounds.** `MaxVersion` bounds the versions that merges and promotions give a
row; races between two writers need two or three. Two rules of one content are
enough for replacement chains of length one, shared vetoes and their cascade;
the proofs cover any number. In `RuleEvidence` windows and thresholds are scaled
down together, with the order between the thresholds of `policy.py` preserved
(assumption `PromotionIsStricter`, which TLC evaluates on every run of it);
`MaxFires` reaches the window, so that events fall out of its last `LAST`. The
gate needs two prompts for markers of different turns, two calls for the race on
a marker and three turns for a prompt that comes back. `gate` leaves timeouts and
versions out, `gate_progress` has them; symmetry is used on calls in `gate` only,
which has no liveness property. In `posthoc` one fire has a locatable prompt and
one has not, `POSTHOC_MAX_RETRIES` is 2 (retry and give up both happen), and
`MaxJobs` equals the fires, so a second job for a fire would show in place of
the other's. In `cold` the first candidate compiles and may merge or replace,
the second does not compile and may be split; `MaxRules` is above what the run
reaches, or a blocked insertion would show as a violation of
`EveryCandidateSettles`; `MAX_INGEST_RETRIES` is 1, so that one exception makes a
row dead; the row of a candidate gets old once. The existing rule changes its
version there, not its status, which the comparison includes. In `extract`
`MaxFaults` allows a crash and an error after it, and lengths up to 2 allow a
session resumed while its first part is in work. It bounds everything that keeps a
job file from being used up: crashes, errors, candidates left pending, rows that
expire and candidates worded anew. Without an end of those a job file stays for
ever, as only dead candidates let the offset move on (`extract/process.py:116`). The inputs of `policies` are
chosen around the edges: both sides of every threshold of `policy.py` that the
table reads, pools below and above the small pool, prompts of up to three words,
rankings of up to four rules (`TOP_K` 3, embeddings from `EMBED_POOL` 3 rules on, so
that a cut and a pool on either side of it happen), transcripts of up to four turns, three
rules for neighbours (limit 1 and 2). The files of a user have hooks for two events,
among them one that names nokori and one that shares an entry with it.
Installation needs no bound on commands: the
files it can make of those of a user are finitely many, so the run goes on until no
command leads to new ones.

Deadlock checking is off where the system really may stop: all rules archived
with nobody left to act, all candidates settled, a question answered; the
configurations say so.

## Fairness

`one_rule`: `FairEvaluation` says that no live rule is passed over for ever by
the daily maintenance and by the workers that have just labelled it, and that an
evaluator does not die at the same point in every one of infinitely many passes
(hence strong fairness). `MaxVersion` bounds the merges that can defeat its
compare-and-swap: a stream of merges that hits the row between every read and
write could delay the suppression for ever, and the code does not exclude it.
`evidence`: the daily maintenance evaluates the rule and the days of the TTL
pass (weak fairness); nothing is assumed about the labels.
`gate_progress`: hooks run to their end when the host does not kill them, and the
agent goes on calling its tool. Timeouts, dismissals and prompts are not fair.
`posthoc`: a clock goes on, maintenance is started again and again, and a worker
that runs goes on; crashes are bounded by `MaxCrashes`, session ends are not
fair, and neither is the retention.
`cold`: the process is run again as long as the transcript is not finished, and
goes on (weak fairness of `Process`). The faults are bounded, so the property
says: once faults stop, every candidate settles.
`extract`: a started process goes on; `nokori extract` is started again and
again, at times too when no forked runner holds the lock (strong fairness, as
the lock comes and goes). The host is not fair, and the faults are bounded, so the
property says: once faults stop, every job file is used up.

## Refinements

`FollowsStatusGraph`: the concurrent lifecycle implements `StatusGraph` with the
identity on `status` (checked in `merges`, proved for every instance). The graph is
read from the writers, each taken on its own; what the refinement shows is that
their interleavings, stale reads and crashes add no move. It does not show that the
code follows `docs/en/lifecycle.md`: it does not, and the graph keeps the moves of
the diagram (`Drawn`) apart from the others (`Undrawn`).
`FollowsLedger`: `PosthocJobs` implements `EvaluationLedger` where the outcome of
a fire is computed from its label and the status of its jobs together; a label
without a done job, a done job without a label or two jobs that disagree map to
an outcome ("torn") no step of the ledger leads to. So label and job change
atomically, are settled once, and harm outlives the retention.

## Findings

1. *dismissed_returns.* A rule archived by a replacement has a `replacement_id`.
   Dismissed in a prompt (which does not look at the status) it keeps it; when
   the replacement becomes inactive the recovery sweep makes it a candidate.
   `docs/en/architecture.md:96` says a dismissed rule is retired.
2. *gate_stale.* The payload before a tool has no prompt, so the current hash is
   guessed from the newest marker; if the prompt sent since was coalesced as a
   duplicate, the old marker denies a call of the new turn
   (`docs/en/gate.md:89`).
3. *cold_resume.* The compiled matcher is not checkpointed, and the checkpoint of
   `synthetic_eval` lies behind `compile_matcher`: a resumed pipeline inserts a
   rule without a matcher. `cold/pipeline.py:10` says compilation is required
   before insertion.

### Observations without a run

Lifecycle and vetoes. The diagram of `docs/en/lifecycle.md:9-14` differs from the
code in these moves. It calls archived terminal, as does
`docs/en/architecture.md:20`, but the recovery of orphaned rules makes an archived
rule a candidate (`lifecycle/maintenance.py:118`). It lets a suppressed rule become
a candidate only; the code makes it active (`lifecycle/transition_evaluate.py:250`,
as `docs/en/architecture.md:70` has it) and never a candidate. Its line 61 says that
the cleanup archives old candidates; the code deletes them with all they have
(`db/queries.py:408`). A trusted rule also goes back to active when its use decays,
and an import may create an archived rule; neither is drawn.
`docs/en/lifecycle.md:30` says that `edit --status` is
rejected, but it may archive, and does so without a fingerprint. The comment at
`policy.py:264` lists the status among the compared fields; the promotion of the
scope compares version and scope only, which is harmless as no other writer
depends on it. An entry of `archived_fingerprints` belongs to the rule that
first created it and is deleted with it, though another rule of the same content
was dismissed since (`db/queries.py:363` and `:406`). The count of useful
projects is described as lifetime (`lifecycle/transition_evaluate.py:238`), but
retention deletes the events it counts (`lifecycle/maintenance.py:147`). The
recovery of a suppressed rule does not reset its lifetime harm, so a rule
suppressed for harm that recovers is suppressed again by the next evaluation. The
single-session path to active cannot be taken, because no review is stored under
the decision its quality is looked up by.

Gate and sessions. Two hooks of parallel calls can both read the marker before
either deletes it, and both deny (`gate/engine.py:136`); `hooks/coalesce.py:33`
says the second one passes. A second end of a resumed session within a day
queues nothing, because its claim is keyed by the transcript
(`hooks/coalesce.py:57`). A prompt sent twice in a session within a day gets no
rules the second time.

Extraction. `docs/en/extraction.md:113` promises a fallback that
`extract/fork_runner.py:309-322` does not have. A forked runner records the size
of the transcript at its end (`fork_runner.py:166`), so what was said meanwhile
is skipped; a session compacted before its first extraction, or between the look
for a compaction and the fork, is forked without what the summary replaced. When
the offset cannot be recorded, the runner logs that and deletes the job file all
the same (`fork_runner.py:166-176`, `:327-330`, `:351-355`): the end of the session
is forgotten until the next one. It is forgotten too when the hook is killed, or
cannot write, between its claim and its job file (`hooks/coalesce.py:66`,
`hooks/session_end.py:131`), when a session ends again under the claim of an end
that was already extracted, in a crash between the two steps of the rename of a job
file (`extract/jobs.py:115`), and with a job file that is quarantined, which the
drain also does for an error in parsing anything else (`fork_runner.py:243`). A
candidate that could not be looked up or queued is no failed segment
(`extract/process.py:254-269`), so that the offset passes it when the others are
dead (`:103`). A candidate that stays pending, or expires and is queued again, or is
worded another way by each extraction, never becomes dead, and its job file stays
(`extract/process.py:116`, `cold/jobs.py:240-247`, `:277`). An unreadable
transcript (`extract/reader.py:172`) resets its offset to 0 and its job file is
deleted; one that is too long fails for ever. `NOKORI_EXTRACT_DEFER_ACTIVE`
(`docs/en/extraction.md:85`) is not read.

Cold pipeline. The circuit breaker has three types. The first two, by the failures
of a role and by those of a model (`cold/jobs.py:137-184`), open and close again.
The third, by answers that do not parse, looks for the prompt version "1.0.0"
(`cold/jobs.py:189-196`) while rows are stored under `compute_prompt_version`
("1.0.0-" and a hash, `cold/_llm_call.py:89`), so it never opens.
The docstring of `_revert_merge` (`cold/integrate.py:294`) speaks of the fields
before the merge; it restores those of the planning. A candidate left pending
with a plan to split is inserted whole when it is resumed. A dead row is not
skipped, so it may be run, and inserted, again by every later run of its
transcript. `check_trusted_replacement` is always false in practice,
`_rewriter_broadened_scope` and `apply_merge_with_reeval` are used in tests only.
A crash between a label and its stamp (`posthoc/jobs.py:209`) leaves the stamp
out for good. One deleted fire makes the whole transaction of a session end roll
back (`posthoc/jobs.py:41`).

Retrieval. `search/engine.py:80` says that shadow never steals formal slots, and
`docs/en/architecture.md:65` that the pools are retrieved separately. They are
scored as one: the cut to the best ten of each ranking is on the union; the union
is counted for whether embeddings are used at all (`engine.py:87`,
`search/embedding.py:344`); what a word is worth for the ranking depends on it; and
the ranks decide between formal rules of equal utility. `SelectionIsFair` says when
none of this matters. Candidates have no utility, so
they are never selected hot; hot rules are not charged to the budget of
characters; warm rules need not have a positive utility; the threshold of the
second hot rule is static. The window of a nearby exclusion looks for anchors as
whole words while triggers match substrings. Tool-pattern concepts never match on
the hot path, which also compiles without the canonical trigger that
`cold/stages.py:319` includes. Synthetic evaluation judges a new rule with static
thresholds: hostile prompts it covers by less than 15% pass by newness alone, and
a candidate target is cold on everything, so that it passes the positive cases
that expect no more than cold, which the role is allowed to write
(`cold/roles.py:329`), and its trial says nothing of it in service. A merged rule
is tried with the history of the target (`cold/integrate.py:256`). Posthoc: of two equal prompts
without a turn index the second fire is judged on the window of the first.
Neighbours: the fallback to recent rules does not exclude the rule itself.

Installation. `docs/en/installation.md:111` says that other hooks are never touched,
`:117` that only those of Nokori are removed. What is taken for Nokori's is any
entry with "nokori" in one of its commands (`commands/install.py:362-380`), so a
hook of the user that has it in its path is lost at the first install or uninstall,
and so is a hook that shares a Claude entry with one. Such hooks, when there is one
for each event, also make `nokori status` say that Nokori is installed
(`:461-482`). A write that fails ends the command with the earlier files written and
nothing recorded (`:640`, `:847-942`). Uninstalling leaves `NOKORI_DISABLED=1`; an
unmanaged extension of Pi or OMP makes the default uninstall refuse everything.

## Proofs

The policy (`RuleEvidence_proofs`, first part): for all evidence and thresholds the
policy stays within `MayDecide` (so the concurrent model has every decision of the
code), and for all thresholds ordered like those of `policy.py` neither trust nor its
decay is undone by the next evaluation. The arithmetic rests on two lemmas about
rates compared by cross-multiplication. Assumptions: `HarmSuppresses`,
`PromotionIsStricter`.

`Ranks_proofs`: what can be said of a sorted or filtered list without induction
over it. The ranks of a strict total order on a finite set with n elements are 0 to n - 1, each
taken once: they are distinct (`SmallerOrders`), and n distinct numbers below n are
all of them. So a sorted list has every element of the set once, in the order
(`ListedInOrder`); what is left of a sequence has the elements that stay, each once
and in their order (`Places`, `LeftInOrder`, `LeftKeeps`), and where only a prefix
stays it is that prefix (`LeftOfPrefix`). These lemmas carry the proofs about
retention, about batches, and about the three questions below that rest on sorts.

`RuleLifecycle_proofs`: for any sets of rules and actors, type correctness,
`ReplacementMeansArchived`, `SuppressedIsStamped`, `VetoNeverWeakens`, `DecidesOnCurrentRow`
and the refinement of `StatusGraph`. The invariants are not inductive alone. A stale
evaluation could move an archived rule unless its decision is one its snapshot
allows (`DecisionIsAllowed`), the snapshot status being compared; a new row could
inherit a pointer unless a rule that has no row yet has none (`PlannedIsUnborn`
also says that two writers do not insert one row); and a merge could aim at
nothing (`TargetIsRule`). `IInv` is the conjunction; the proof has one lemma per
action. The refinement then needs, per action, only that the moved row was where
`IInv` says, and the memory of vetoes that the upsert takes the stronger of two
entries and keeps the owner. `DecidesOnCurrentRow` adds one invariant
(`SnapshotHolds`): what an evaluation in flight has read of a row is still there
unless the row has a later version or is gone, because a deleted identity is not
used again and every write but an archival comes with a new version; the status is
the part the version does not cover, and the code compares it. Assumption:
`LifecycleAssumption`.

`RuleEvidence_proofs`, second part: types, `NoFlapping` and `HarmNeverDecays`, for any windows,
any number of fires and any thresholds the policy allows. That trust is not lost
at once is the theorem about all evidence above; what is
added is that the counts an evaluation makes are evidence: numbers, with the
parts no greater than the whole, which is a matter of types. Harm is counted over
sequences, and a count grows if every event that was counted has a place in the
new sequence: an insertion moves what is behind it by one, a late label leaves
everything in place, and retention keeps every harmful fire, at the position
that is its rank among the kept. That is why the retention of the model says
what is left of a sequence by rank (`Left`), not by a fold over it.
Assumptions: `EvidenceAssumption`, `HarmSuppresses`, `PromotionIsStricter`.

`Policies_proofs`: all eight invariants, for all inputs. That a behaviour asks one
question of the listed kinds and keeps it (`Questions`) is the invariant, and each
theorem but the last is then about one question. `LevelIsMonotone`: levels are mapped to numbers,
with a case per row of the table. `BarriersAgree`: the first threshold that blocks is at
the least position of a blocking one, so there is none if and only if the
conditions of the evaluation hold. `PassedStaysSilent`: what is cold as a rule in
service is disqualified or lacks the evidence, and neither looks at the standing.
`WindowIsTheFires`: there is a first turn at which the window stops, as the last
turn of the transcript is one, and the turn it begins with has the hash of the fire.
`InjectsOnlyOnTrigger`: a concept that holds has an alias the prompt says, a
match without a group that holds is dropped, and a phrase that stands within the
radius of a trigger word is found in the window that is cut around that word, so
that what the property takes for an exclusion is one of the matcher's.
`SelectionIsFair`: a ranking names no rule twice, and cutting, filtering, joining and
fusing rankings makes rankings (`FilterRanks` to `FuseRanks`), so the eligible
results are those of the rules that are shown (`EligibleRanks`). The part about the
shadow rules has three preconditions that the property states: no ranking is cut,
embeddings are used with the shadow rules and without, or neither, and no two
formal results are worth the same. Then the formal results found are the same set
(`SamePart`) and their order is given by what they are, so it does not
matter what was ranked between them (`SameOrder`), and with the order the hot and
the warm ones are given (`SameSelection`). The rest holds of every selection
(`OneSelection`). That the warm ones fit the budget and do not repeat each
other is an invariant of the loop that picks them (`Picked`). The loop is a recursive
function over the positions of the sorted list: that it exists, and that the
invariant holds at its end, follow from the least position at which they would not
(`WarmRuns`, `WarmFits`), since no induction theorem can be used.
`NearestAreFound`: the rules found by words or embedding are each found once, with
their nearness; recent rules fill the room that is left, so that there are any of
them only if nothing is cut (`RecentAreFew`, `CandidateRules`); and what a sorted list
cuts off is no nearer than what it keeps.
`UninstallRestores` is the one that needs an inductive invariant of its own
(`Installs`): that stripping leaves what is left of the user's hooks does not say
that the next command will find no more than one hook of Nokori's to strip. What it
finds is, for each host, the lists of the user as they were; or, for every event,
what stripping leaves of them; or that, followed by Nokori's own hook. Stripping twice
is stripping once, and stripping the last of the three gives the second
(`StripLeaves`, `StripsItsOwn`), so every command makes or keeps one of the
forms (`CommandKeeps`), also when it fails half way (`WritesKeep`). Which of them it
is follows from what is recorded for every host but those a failed command has
written last (`CompletesAll` says that a command that gets to its record has
written all of its hosts).
Assumptions: those of `Applicability`, `QuestionsAreTyped`, `TextsAreSequences`,
`TrialsAreOfServedRules` (a candidate is cold on everything, see above),
`ResultsAreTyped`, `NeighboursAreTyped`, `OwnIsNamed` (the hook Nokori writes has its
name in it) and `FilesAreTheUsers`, which says of the user's files only that nothing
is recorded before the first command; the hooks in them may name nokori, for some
of the events or for all.

`Gate_proofs`: type correctness, that a dismissed rule never denies, and
that a marker denies once, for any
number of prompts, rules, parallel calls and dismissals. Types need two more
facts: nothing runs before the first prompt (`Sent`), and a call that looks a
marker up has a prompt (`Prompted`); `IInv` is the conjunction. The safety
argument (`SpareArchived`) is that what was archived when a call began stays
archived in the session, and that a call decides what it denies for by reading
the rules after it began, whatever its marker says. `DeniesOncePerMarker` rests
on two invariants of `GateHistory`: the marker of a turn is held, on disk, by a
call or by a dismissal, for one prompt only, the one sent in that
turn, and only after its prompt hook has written it (`OneHolder`); and a marker that has denied is
off the disk and in no call that began later, unless a dismissal that had loaded
it has written it back (`SpentIsGone`).

`PosthocJobs_proofs`: types, `OneJobPerFire`, `NoFailureIsLost`, `UsefulIsStamped`
and the refinement of `EvaluationLedger`, for any number of fires, session ends,
workers, retries and crashes. `IInv` adds to the properties: the lock has one
holder (`OneHolder`); a batch names each job once, the jobs ahead in it are not
settled, and the retries a worker has read are still those of the row (`Batches`),
which needs the one holder, as a second worker would make them stale; a fire has
one job at most, whose status goes with its label (`Agree`); a job that is tried
again has an attempt left (`AttemptLeft`); and what a session end has read are
fires and jobs there are (`Readers`): the transaction of a session end looks for
jobs in the state it writes to, so it does not matter how old its list of fires
is. The order of a batch is stated by rank (`Ordered`), since what a sort
computes is an induction, and that the back-off is a number is proved without one
too, as 2^n counts the subsets of n things. For the refinement, `Agree` determines the
outcome of a fire by its one job: `Enqueue` queues a set of fires, the transaction
of a verdict and the last failure settle one, the retention deletes, and every other step
stutters. Assumption: `PosthocAssumption`.

`ColdPipeline_proofs`: types, `ActiveIsEarned`, `DisplacedByActiveOnly`,
`DisplacedAsPlanned` and `InsertedTwiceOnlyByFault`, for any list of candidates,
any answers of the roles and any number of faults. `IInv` follows what a context
is worth from stage to stage: one that merges or displaces names the rule it was
planned for, and the fast lane is open only to what passed and was judged active
(`Sound`); a checkpoint never has the fast lane, and one behind `compile_matcher`
belongs to a candidate that compiles (`Resumable`), which is why a resumed run
earns its active rule again although its matcher is gone (finding 3). The count of the
rules of a candidate is bounded by one, for a row that is not done by none, plus
the faults so far and what the run at work has inserted already; the parts of a split
are told from the whole. One lemma per action. Assumption: `ColdAssumption`.

`ExtractJobs_proofs`: types, `NoEndIsForgotten`, `NothingIsSkipped` and
`OffsetNeverFalls`, for any number of transcripts, workers, appends and faults.
What the first two say is as strong as the exceptions they make, which are the
history variables `lost` and `missed`: they are added to by the steps listed with the
properties, and a new job file takes its transcript out of `lost`. `IInv` says, worker
by worker, what has become of the part of the transcript it has in hand (`InHand`):
before the offset is recorded everything up to it is extracted or missed, before the
job file is deleted the offset is beyond the part (or could not be recorded, which
loses the end), and an end of the session beyond the part has a job file of its own,
or is about to. It holds because the lock has one holder (`OneHolder`), because a job
file stands for something that is written (`JobsAreWritten`) and because a worker at a
given place has a job, a part and a failure to spare (`Shape`). Offsets grow although
each run writes its own over the last one, because under the one lock the recorded
offset is no further than the part in hand; the reset of an unreadable transcript is
the one exception. Assumption: `ExtractAssumption`.

Only model-checked: everything temporal under fairness (liveness is out of the
prover's reach): that every suppression ends, every call gets through, every job,
row and candidate settles and every job file is consumed (`HarmLeavesThePool`,
`SuppressionEnds`, `AgentGetsThrough`, `JobsSettle`, `EveryCandidateSettles`,
`JobsAreConsumed`). Every invariant and every action property of a passing run is a
theorem.

## What is abstracted

`runtime_policy_version` is one constant for all rows of an installation.
Signatures are equal or different; the search for related fingerprints by tokens
is in `MergeNeighbours` only, and edits of the text of a rule, which leave its
version alone, are left out. The import of a record whose rule was deleted before
is left out: a deleted identity is not used again. Sampling and the text that is
rendered are free choices; the rankings of the text index and of the embeddings are
inputs, and the ranking by words of the formal rules alone is an input of its own, as
the worth of a word depends on the rules that are searched. In `Gate` there is one session, `created_at` is the turn, evidence in the
tool input is a free choice, and an archived rule does not earn trust again
within the session. In `ColdPipeline` a candidate stands for its content and its
variants, and there is one existing rule; in `ExtractJobs` the length of a
transcript stands for its modification time, and the candidates of a part share one
count of failures, while what there may be beside the failed ones (settled, pending,
not queued) is a choice. Texts are sequences of words, regular expressions and tool patterns are
left out. Rates are percentages compared in integers.

## Not modelled

Configuration (`config*.py`) is reading and editing of values. The embedding
server may fail on every call, and a failure is a ranking without embeddings,
which `Retrieval` has. The LLM adapter is a remote service whose failure is the
failure of a stage or a job. Observability is a write-only log. The views of the
web server only read; its endpoints that archive are user commands. The
`llm_jobs` table is a log of calls that no other process reads but for the
circuit breaker; an open breaker leaves its candidates pending, which `RoleFails` of
`ColdPipeline` and `LeftPending` of `ExtractJobs` may do at any time, so the counts
and the cool-down it goes by are left out.

## Plan

Done, in this order: `StatusGraph`, `RuleLifecycle`, its runs and proofs;
`LifecyclePolicy`, its proofs, `RuleEvidence`; `Gate`; `PosthocJobs` with its
ledger; `ColdPipeline` with its policies; `ExtractJobs`; `Policies`; the proofs of
the lifecycle, the policy and the gate; then those of `ExtractJobs`,
`ColdPipeline`, `PosthocJobs` with its refinement, `RuleEvidence` and `Policies`;
the installation as a state machine, and the proofs that rest on sorts (`Ranks`).

Next: `ColdPipeline` composed with `RuleLifecycle` in place of its one existing
rule; the search for related fingerprints in the veto of the lifecycle.
