---------------------------- MODULE PosthocJobs ----------------------------
(***************************************************************************)
(* The posthoc evaluation of fire events.  A session-end hook queues one   *)
(* job per fire of its session and stores the transcript window of each;   *)
(* nokori maintain, one process at a time under its file lock, takes due   *)
(* jobs, asks the evaluator, writes the label, and at the end evaluates    *)
(* the rules that got one.  The retention deletes old fires and their jobs *)
(* from any process, without that lock.                                    *)
(***************************************************************************)
EXTENDS Integers, Sequences, FiniteSets, SequencesExt, Ranks

CONSTANTS
  Fires,               \* fire events of the session
  Rules, RuleOf,       \* RuleOf[f]: the rule that fired
  Locatable,           \* fires whose prompt is found in the transcript file
  Enders, Workers,     \* session-end hooks; nokori maintain processes
  NoWorker,
  Verdicts,            \* [label, without]: parsed answers of the evaluator
  POSTHOC_MAX_RETRIES,
  MAX_BACKOFF,         \* the longest wait, 2^8 half minutes in the code
  LIMIT,               \* jobs a worker takes
  MaxJobs, MaxCrashes  \* bounds

Labels == {"observed_useful", "plausible_useful", "irrelevant", "harmful", "unclear"}

ASSUME PosthocAssumption ==
  /\ IsFiniteSet(Fires) /\ RuleOf \in [Fires -> Rules] /\ Locatable \subseteq Fires
  /\ NoWorker \notin Workers
  /\ Verdicts \subseteq [label : Labels, without : {"yes", "no", "unclear"}]
  /\ POSTHOC_MAX_RETRIES \in Nat \ {0} /\ MAX_BACKOFF \in Nat /\ LIMIT \in Nat
  /\ MaxJobs \in Nat /\ MaxCrashes \in Nat

VARIABLES
  fire,      \* [Fires -> Labels \cup {"absent", "unlabelled", "deleted"}]
  jobs,      \* rows of posthoc_jobs by creation
  ender,     \* [Enders -> [pc, seen, todo]]
  lock,      \* the holder of maintain.lock
  worker,    \* [Workers -> [pc, batch, verdict, retries, rules]]
  stamped,   \* rules with first_observed_useful_at
  failures,  \* history: failed attempts of each job
  crashes

vars == <<fire, jobs, ender, lock, worker, stamped, failures, crashes>>
actors == <<ender, lock, worker>>

JobStatuses == {"pending", "done", "failed", "deleted"}
JobType == [fire : Fires, status : JobStatuses, retries : 0..POSTHOC_MAX_RETRIES,
            wait : 0..MAX_BACKOFF, window : BOOLEAN]
EnderPCs == {"idle", "read", "populate", "returned"}
WorkerPCs == {"idle", "fetch", "jobs", "complete", "fail", "stamp", "review"}
NoVerdict == [label |-> "unclear", without |-> "unclear"]

TypeOK ==
  /\ fire \in [Fires -> Labels \cup {"absent", "unlabelled", "deleted"}]
  /\ jobs \in Seq(JobType) /\ Len(jobs) <= MaxJobs
  /\ ender \in [Enders -> [pc : EnderPCs, seen : SUBSET Fires, todo : SUBSET (1..MaxJobs)]]
  /\ lock \in Workers \cup {NoWorker}
  /\ \A w \in Workers :
       /\ worker[w].pc \in WorkerPCs
       /\ worker[w].batch \in Seq(1..Len(jobs))
       /\ worker[w].verdict \in [label : Labels, without : {"yes", "no", "unclear"}]
       /\ worker[w].retries \in 0..POSTHOC_MAX_RETRIES
       /\ worker[w].rules \subseteq Rules
  /\ stamped \subseteq Rules
  /\ DOMAIN failures = 1..MaxJobs
  /\ crashes \in 0..MaxCrashes

IdleEnder == [pc |-> "idle", seen |-> {}, todo |-> {}]
Returned == [IdleEnder EXCEPT !.pc = "returned"]
IdleWorker == [pc |-> "idle", batch |-> <<>>, verdict |-> NoVerdict, retries |-> 0, rules |-> {}]

Init ==
  /\ fire = [f \in Fires |-> "absent"]
  /\ jobs = <<>>
  /\ ender = [h \in Enders |-> IdleEnder]
  /\ lock = NoWorker
  /\ worker = [w \in Workers |-> IdleWorker]
  /\ stamped = {}
  /\ failures = [j \in 1..MaxJobs |-> 0]
  /\ crashes = 0

JobIds == DOMAIN jobs
JobsOf(f) == {j \in JobIds : jobs[j].fire = f /\ jobs[j].status # "deleted"}

-----------------------------------------------------------------------------
(* The session: prompts fire rules, and the end of it queues the jobs      *)

Fire(f) ==
  /\ fire[f] = "absent"
  /\ fire' = [fire EXCEPT ![f] = "unlabelled"]
  /\ UNCHANGED <<jobs, ender, lock, worker, stamped, failures, crashes>>

\* The fires are read before the transaction.
ReadFires(h) ==
  /\ ender[h].pc = "idle"
  /\ ender' = [ender EXCEPT ![h] = [pc |-> "read", todo |-> {},
                 seen |-> {f \in Fires : fire[f] = "unlabelled"}]]
  /\ UNCHANGED <<fire, jobs, lock, worker, stamped, failures, crashes>>

NewJob(f) == [fire |-> f, status |-> "pending", retries |-> 0, wait |-> 0, window |-> FALSE]

\* Mutant: what had no job when the fires were read is queued.
NotQueuedAtRead(seen) == seen
NotQueued(seen) == {f \in seen : JobsOf(f) = {}}

Populating(todo) ==
  IF todo = {} THEN Returned ELSE [pc |-> "populate", seen |-> {}, todo |-> todo]

\* The transaction: one job per fire.  A fire the retention has deleted
\* meanwhile breaks its foreign key, and nothing at all is queued.  Which
\* windows can be cut depends on the turns the host has put in the payload.
Enqueue(h) ==
  LET new == SetToSeq(NotQueued(ender[h].seen))
      added == jobs \o [i \in DOMAIN new |-> NewJob(new[i])]
      bare == {j \in DOMAIN added : added[j].status = "pending" /\ ~added[j].window} IN
  /\ ender[h].pc = "read"
  /\ Len(added) <= MaxJobs
  /\ IF \E i \in DOMAIN new : fire[new[i]] = "deleted"
     THEN ender' = [ender EXCEPT ![h] = Returned] /\ UNCHANGED jobs
     ELSE /\ jobs' = added
          /\ \E found \in SUBSET bare :
               ender' = [ender EXCEPT ![h] = Populating(found)]
  /\ UNCHANGED <<fire, lock, worker, stamped, failures, crashes>>

\* One update by id per window, whatever has become of the job.
PopulateWindow(h, j) ==
  /\ ender[h].pc = "populate" /\ j \in ender[h].todo
  /\ ender' = [ender EXCEPT ![h] = Populating(@.todo \ {j})]
  /\ jobs' = [jobs EXCEPT ![j].window = jobs[j].status # "deleted"]
  /\ UNCHANGED <<fire, lock, worker, stamped, failures, crashes>>

-----------------------------------------------------------------------------
(* The worker                                                              *)

Become(w, rec) == worker' = [worker EXCEPT ![w] = rec]
GoTo(w, pc) == Become(w, [worker[w] EXCEPT !.pc = pc])

\* Mutant: the lock is taken whether or not it is free.
AcquireAnyway(w) == lock' = w
Acquire(w) == lock = NoWorker /\ lock' = w

StartMaintain(w) ==
  /\ worker[w].pc = "idle"
  /\ Acquire(w)
  /\ GoTo(w, "fetch")
  /\ UNCHANGED <<fire, jobs, ender, stamped, failures, crashes>>

\* Mutant: the clause of the retried jobs is left out.
NeverTried(j) == jobs[j].status = "pending" /\ jobs[j].retries = 0
IsDue(j) == jobs[j].status = "pending" /\ jobs[j].wait = 0

FewerRetries(i, j) == \/ jobs[i].retries < jobs[j].retries
                      \/ jobs[i].retries = jobs[j].retries /\ i < j

\* The ids of S in this order.
Ordered(S) == Sorted(S, FewerRetries)

Fetch(w) ==
  LET due == Ordered({j \in JobIds : IsDue(j)}) IN
  /\ worker[w].pc = "fetch"
  /\ Become(w, [worker[w] EXCEPT !.pc = "jobs",
                  !.batch = SubSeq(due, 1, IF Len(due) < LIMIT THEN Len(due) ELSE LIMIT)])
  /\ UNCHANGED <<fire, jobs, ender, lock, stamped, failures, crashes>>

\* A use it would have been put to anyway is no use.
Corrected(v) ==
  IF v.label = "observed_useful" /\ v.without = "yes" THEN [v EXCEPT !.label = "irrelevant"]
  ELSE v

\* A stored window, or one cut from the transcript file, which may be gone.
HasWindow(j) == jobs[j].window

\* Reads the fire and calls the evaluator: no fire or no window makes the job
\* unclear; two failed or unparsable answers make it fail, with the retries
\* read for the write that follows.
Evaluate(w) ==
  LET j == Head(worker[w].batch) IN
  /\ worker[w].pc = "jobs" /\ worker[w].batch # <<>>
  /\ \/ /\ \/ fire[jobs[j].fire] = "deleted"
           \/ ~HasWindow(j)
        /\ Become(w, [worker[w] EXCEPT !.pc = "complete", !.verdict = NoVerdict])
     \/ /\ fire[jobs[j].fire] # "deleted"
        /\ HasWindow(j) \/ jobs[j].fire \in Locatable
        /\ \/ \E v \in Verdicts :
                Become(w, [worker[w] EXCEPT !.pc = "complete", !.verdict = Corrected(v)])
           \/ Become(w, [worker[w] EXCEPT !.pc = "fail", !.retries = jobs[j].retries])
  /\ UNCHANGED <<fire, jobs, ender, lock, stamped, failures, crashes>>

\* Mutant: the stamp is asked for on the wrong label.
NeedsStampIfPlausible(label) == label = "plausible_useful"
NeedsStamp(label) == label = "observed_useful"

\* The label reaches the row if it is still there.
MarkComplete(w) ==
  LET j == Head(worker[w].batch)
      f == jobs[j].fire
      label == worker[w].verdict.label IN
  /\ worker[w].pc = "complete"
  /\ jobs' = IF jobs[j].status = "deleted" THEN jobs ELSE [jobs EXCEPT ![j].status = "done"]
  /\ fire' = IF fire[f] = "deleted" \/ jobs[j].status = "deleted" THEN fire
             ELSE [fire EXCEPT ![f] = label]
  /\ Become(w, [worker[w] EXCEPT
                  !.verdict = NoVerdict,
                  !.pc = IF NeedsStamp(label) THEN "stamp" ELSE "jobs",
                  !.batch = IF NeedsStamp(label) THEN @ ELSE Tail(@),
                  !.rules = IF label = "unclear" THEN @ ELSE @ \cup {RuleOf[f]}])
  /\ UNCHANGED <<ender, lock, stamped, failures, crashes>>

\* Mutant: the limit is missed by one.
OneMoreRetry(n) == n > POSTHOC_MAX_RETRIES
RetriesExhausted(n) == n >= POSTHOC_MAX_RETRIES

Min2(a, b) == IF a < b THEN a ELSE b

MarkFailed(w) ==
  LET j == Head(worker[w].batch)
      n == worker[w].retries + 1 IN
  /\ worker[w].pc = "fail"
  /\ jobs' = IF jobs[j].status = "deleted" THEN jobs
             ELSE [jobs EXCEPT ![j].retries = n,
                               ![j].status = IF RetriesExhausted(n) THEN "failed" ELSE "pending",
                               ![j].wait = Min2(2^n, MAX_BACKOFF)]
  /\ failures' = IF jobs[j].status = "deleted" THEN failures ELSE [failures EXCEPT ![j] = @ + 1]
  /\ Become(w, [worker[w] EXCEPT !.pc = "jobs", !.batch = Tail(@), !.retries = 0])
  /\ UNCHANGED <<fire, ender, lock, stamped, crashes>>

\* first_observed_useful_at, in a transaction of its own after the label.
StampUseful(w) ==
  LET r == RuleOf[jobs[Head(worker[w].batch)].fire] IN
  /\ worker[w].pc = "stamp"
  /\ stamped' = IF \E f \in Fires : RuleOf[f] = r /\ fire[f] = "observed_useful"
                THEN stamped \cup {r} ELSE stamped
  /\ Become(w, [worker[w] EXCEPT !.pc = "jobs", !.batch = Tail(@)])
  /\ UNCHANGED <<fire, jobs, ender, lock, failures, crashes>>

\* After the last job: the rules that got a label are evaluated one by one (a
\* transition of RuleLifecycle); a failure is logged and the next is taken.
Review(w, r) ==
  /\ worker[w].pc = "jobs" /\ worker[w].batch = <<>> /\ r \in worker[w].rules
  /\ Become(w, [worker[w] EXCEPT !.rules = @ \ {r}])
  /\ UNCHANGED <<fire, jobs, ender, lock, stamped, failures, crashes>>

Finish(w) ==
  /\ worker[w].pc = "jobs" /\ worker[w].batch = <<>> /\ worker[w].rules = {}
  /\ Become(w, IdleWorker)
  /\ lock' = NoWorker
  /\ UNCHANGED <<fire, jobs, ender, stamped, failures, crashes>>

\* The operating system releases the lock of a process that dies.
Crash(w) ==
  /\ worker[w].pc # "idle" /\ crashes < MaxCrashes
  /\ crashes' = crashes + 1
  /\ Become(w, IdleWorker)
  /\ lock' = IF lock = w THEN NoWorker ELSE lock
  /\ UNCHANGED <<fire, jobs, ender, stamped, failures>>

-----------------------------------------------------------------------------
(* Time, and what every process may run                                    *)

Tick ==
  /\ \E j \in JobIds : jobs[j].wait > 0
  /\ jobs' = [j \in JobIds |-> [jobs[j] EXCEPT !.wait = IF @ > 0 THEN @ - 1 ELSE 0]]
  /\ UNCHANGED <<fire, actors, stamped, failures, crashes>>

\* The retention: a fire old enough goes with its jobs unless it is harmful.
InjectionCleanup(f) ==
  /\ fire[f] \in Labels \cup {"unlabelled"} /\ fire[f] # "harmful"
  /\ fire' = [fire EXCEPT ![f] = "deleted"]
  /\ jobs' = [j \in JobIds |-> IF jobs[j].fire = f
                 THEN [jobs[j] EXCEPT !.status = "deleted", !.wait = 0] ELSE jobs[j]]
  /\ UNCHANGED <<actors, stamped, failures, crashes>>

WorkerStep(w) ==
  \/ Fetch(w) \/ Evaluate(w) \/ MarkComplete(w) \/ MarkFailed(w) \/ StampUseful(w)
  \/ \E r \in Rules : Review(w, r)
  \/ Finish(w)

Next ==
  \/ \E f \in Fires : Fire(f) \/ InjectionCleanup(f)
  \/ \E h \in Enders : \/ ReadFires(h) \/ Enqueue(h)
                       \/ \E j \in 1..MaxJobs : PopulateWindow(h, j)
  \/ \E w \in Workers : StartMaintain(w) \/ WorkerStep(w) \/ Crash(w)
  \/ Tick

Spec == Init /\ [][Next]_vars

\* A maintenance run is started every day and, once started, goes on; a clock
\* goes on too.
FairSpec ==
  /\ Spec
  /\ WF_vars(Tick)
  /\ WF_vars(\E w \in Workers : StartMaintain(w))
  /\ \A w \in Workers : WF_vars(WorkerStep(w))

-----------------------------------------------------------------------------
(* Properties                                                              *)

\* "One posthoc job per fire event" (jobs.py:50), although two session ends
\* read the fires before either writes.
OneJobPerFire == \A f \in Fires : Cardinality(JobsOf(f)) <= 1

\* The retries of a job are the attempts that failed: none is lost between the
\* read of retries and the write of it (mark_posthoc_job_failed), and a job
\* that is given up has had all of them.
NoFailureIsLost ==
  \A j \in JobIds : jobs[j].status # "deleted" =>
    /\ jobs[j].retries = failures[j]
    /\ jobs[j].status = "failed" => failures[j] = POSTHOC_MAX_RETRIES

\* Short of a crash, a rule with a useful fire has first_observed_useful_at,
\* which HOT injection asks for, or its worker is about to write it.
UsefulIsStamped ==
  \A f \in Fires : fire[f] = "observed_useful" /\ RuleOf[f] \notin stamped =>
    \/ crashes > 0
    \/ \E w \in Workers : worker[w].pc = "stamp"
                            /\ RuleOf[jobs[Head(worker[w].batch)].fire] = RuleOf[f]

\* The fire and its job as one: "torn" is a label without a done job, or a done
\* job without a label, or two jobs that disagree.
Outcome(f) ==
  LET status == {jobs[j].status : j \in JobsOf(f)} IN
  CASE fire[f] \in {"absent", "deleted"}                -> fire[f]
    [] fire[f] = "unlabelled" /\ status = {}            -> "fired"
    [] fire[f] = "unlabelled" /\ status = {"pending"}   -> "queued"
    [] fire[f] = "unlabelled" /\ status = {"failed"}    -> "given up"
    [] fire[f] \in Labels /\ status = {"done"}          -> fire[f]
    [] OTHER                                            -> "torn"

\* Two session ends that race, a crash between any two steps, retries and a
\* retention that takes no lock: a fire and its job still go through the ledger
\* of module EvaluationLedger.  No late failure reopens a job that is settled,
\* no second verdict replaces a label, and none is written without its job.
Ledger == INSTANCE EvaluationLedger WITH
            Fires <- Fires, Labels <- Labels, outcome <- [f \in Fires |-> Outcome(f)]
FollowsLedger == Ledger!Spec

\* Every queued job is labelled, given up or deleted with its fire, whatever
\* fails, backs off or crashes in between.
Pending(j) == j \in JobIds /\ jobs[j].status = "pending"
JobsSettle == \A j \in 1..MaxJobs : Pending(j) ~> ~Pending(j)
=============================================================================
