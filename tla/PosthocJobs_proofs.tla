------------------------- MODULE PosthocJobs_proofs -------------------------
(***************************************************************************)
(* The posthoc jobs keep their promises for every number of fires, session *)
(* ends, workers, retries and crashes, and implement EvaluationLedger.     *)
(* What the proof needs beyond the properties themselves: the lock has one *)
(* holder (OneHolder), a batch names each job once and the jobs ahead are  *)
(* not settled (Batches), a fire has one job and agrees with it (Agree).   *)
(***************************************************************************)
EXTENDS PosthocJobs, Ranks_proofs

\* The shapes of the state.
VerdictType == [label : Labels, without : {"yes", "no", "unclear"}]
FireStates == Labels \cup {"absent", "unlabelled", "deleted"}
EnderType == [pc : EnderPCs, seen : SUBSET Fires, todo : SUBSET (1..MaxJobs)]
WorkerType == [pc : WorkerPCs, batch : Seq(1..MaxJobs), verdict : VerdictType,
               retries : 0..POSTHOC_MAX_RETRIES, rules : SUBSET Rules]

\* The types; a job yet to be queued has not failed.
Typed ==
  /\ fire \in [Fires -> FireStates]
  /\ jobs \in Seq(JobType) /\ Len(jobs) <= MaxJobs
  /\ ender \in [Enders -> EnderType]
  /\ lock \in Workers \cup {NoWorker}
  /\ worker \in [Workers -> WorkerType]
  /\ stamped \subseteq Rules
  /\ failures \in [1..MaxJobs -> Nat]
  /\ \A j \in 1..MaxJobs : j > Len(jobs) => failures[j] = 0
  /\ crashes \in 0..MaxCrashes

\* What a session end has read are fires there were, and jobs there are.
Readers ==
  \A h \in Enders : /\ \A f \in ender[h].seen : fire[f] # "absent"
                    /\ ender[h].todo \subseteq 1..Len(jobs)

\* A worker at work holds the lock.
OneHolder == \A w \in Workers : worker[w].pc # "idle" <=> lock = w

\* A batch names each job once; the jobs ahead have not been settled.
BatchOK(r) ==
  /\ r.batch \in Seq(JobIds)
  /\ r.pc \in {"idle", "fetch"} => r.batch = <<>>
  /\ r.pc \in {"complete", "fail", "stamp"} => r.batch # <<>>
  /\ \A i, k \in DOMAIN r.batch : r.batch[i] = r.batch[k] => i = k
  /\ \A i \in DOMAIN r.batch :
       (i = 1 /\ r.pc = "stamp") \/ jobs[r.batch[i]].status \in {"pending", "deleted"}
  /\ r.pc = "fail" /\ jobs[Head(r.batch)].status # "deleted" => r.retries = jobs[Head(r.batch)].retries
Batches == \A w \in Workers : BatchOK(worker[w])

\* A fire has one job at most, and the two agree.
Agree ==
  /\ \A i, k \in JobIds : jobs[i].fire = jobs[k].fire => i = k
  /\ \A j \in JobIds :
       LET o == fire[jobs[j].fire] IN
       /\ jobs[j].status \in {"pending", "failed"} => o = "unlabelled"
       /\ jobs[j].status = "done" => o \in Labels
       /\ jobs[j].status = "deleted" => o = "deleted"
  /\ \A f \in Fires : fire[f] \in Labels => \E j \in JobIds : jobs[j].fire = f

\* A job that is tried again has an attempt left.
AttemptLeft == \A j \in JobIds : jobs[j].status = "pending" => jobs[j].retries < POSTHOC_MAX_RETRIES

\* The inductive invariant.
IInv ==
  /\ Typed /\ Readers /\ OneHolder /\ Batches /\ Agree /\ AttemptLeft
  /\ NoFailureIsLost /\ UsefulIsStamped

-----------------------------------------------------------------------------
(* The order of the queue                                                  *)

\* A set that is turned into a sequence is listed once each.
LEMMA SetListed ==
  ASSUME NEW S, IsFiniteSet(S)
  PROVE  \E m \in Nat, s \in Seq(S) :
           /\ s = SetToSeq(S) /\ Len(s) = m /\ DOMAIN s = 1..m
           /\ \A i, j \in 1..m : s[i] = s[j] => i = j
           /\ \A x \in S : \E i \in 1..m : s[i] = x
<1> DEFINE m == Cardinality(S)
<1>1. m \in Nat /\ ExistsBijection(1..m, S)
  BY FS_CardinalityType
<1>2. \E f \in [1..m -> S] : IsInjective(f)
  BY <1>1 DEF ExistsBijection, Bijection, Injection, IsInjective
<1>3. SetToSeq(S) \in [1..m -> S] /\ IsInjective(SetToSeq(S))
  BY <1>2 DEF SetToSeq
<1>4. IsFiniteSet(1..m) /\ Cardinality(1..m) = m
  BY <1>1, FS_Interval
<1>5. SetToSeq(S) \in Surjection(1..m, S)
  BY <1>3, <1>4, FS_Injection DEF Injection, IsInjective
<1> DEFINE s == SetToSeq(S)
<1>6. /\ s \in [1..m -> S] /\ \A i, j \in 1..m : s[i] = s[j] => i = j
      /\ \A x \in S : \E i \in 1..m : s[i] = x
  BY <1>3, <1>5 DEF IsInjective, Surjection
<1> HIDE DEF s, m
<1>7. s \in Seq(S) /\ Len(s) = m /\ DOMAIN s = 1..m
  BY <1>1, <1>6
<1> QED
  BY <1>1, <1>6, <1>7 DEF s

\* The ids are the places 1..Len(jobs), and every row has its type.
LEMMA JobFacts ==
  ASSUME Typed
  PROVE  /\ Len(jobs) \in Nat /\ JobIds = 1..Len(jobs) /\ IsFiniteSet(JobIds) /\ JobIds \subseteq 1..MaxJobs
         /\ \A j \in JobIds : /\ jobs[j] \in JobType
                              /\ jobs[j].fire \in Fires /\ jobs[j].status \in JobStatuses
                              /\ jobs[j].retries \in 0..POSTHOC_MAX_RETRIES
<1>1. Len(jobs) \in Nat /\ JobIds = 1..Len(jobs) /\ Len(jobs) <= MaxJobs /\ MaxJobs \in Nat
  BY PosthocAssumption DEF Typed, JobIds
<1>2. IsFiniteSet(JobIds) /\ JobIds \subseteq 1..MaxJobs
  BY <1>1, FS_Interval
<1>3. \A j \in JobIds : jobs[j] \in JobType
  BY <1>1 DEF Typed
<1> QED
  BY <1>1, <1>2, <1>3 DEF JobType

\* The jobs are taken in the order of the query, each once.
LEMMA OrderedLists ==
  ASSUME Typed, NEW S \in SUBSET JobIds
  PROVE  /\ Cardinality(S) \in Nat
         /\ Ordered(S) \in [1..Cardinality(S) -> S]
         /\ \A i, k \in 1..Cardinality(S) : Ordered(S)[i] = Ordered(S)[k] => i = k
<1> DEFINE R == {p \in S \X S : FewerRetries(p[1], p[2])}
<1>1. /\ IsFiniteSet(S)
      /\ \A x \in S : x \in Nat /\ jobs[x].retries \in Nat
  BY JobFacts, FS_Subset, PosthocAssumption
<1>2. /\ \A x \in S : ~FewerRetries(x, x)
      /\ \A x, y \in S : x = y \/ FewerRetries(x, y) \/ FewerRetries(y, x)
      /\ \A x, y, z \in S : FewerRetries(x, y) /\ FewerRetries(y, z) => FewerRetries(x, z)
  BY <1>1 DEF FewerRetries
<1>3. \A x, y \in S : <<x, y>> \in R <=> FewerRetries(x, y)
  OBVIOUS
<1> HIDE DEF R
<1>4. Orders(R, S)
  BY <1>2, <1>3 DEF Orders
<1> QED
  BY <1>1, <1>4, ListedInOrder DEF Ordered, Sorted, R

-----------------------------------------------------------------------------
(* Steps of the session, of time and of the retention                      *)

\* What a worker holds: a record of its type, and a batch of jobs there are.
LEMMA AtWork ==
  ASSUME IInv, NEW w \in Workers
  PROVE  /\ worker[w] \in WorkerType /\ BatchOK(worker[w])
         /\ worker[w].batch \in Seq(JobIds) /\ worker[w].batch \in Seq(1..MaxJobs)
         /\ worker[w].batch # <<>> => /\ Head(worker[w].batch) \in JobIds
                                      /\ Head(worker[w].batch) = worker[w].batch[1]
                                      /\ 1 \in DOMAIN worker[w].batch
<1>1. worker[w] \in WorkerType /\ BatchOK(worker[w])
  BY DEF IInv, Typed, Batches
<1>2. worker[w].batch \in Seq(JobIds) /\ worker[w].batch \in Seq(1..MaxJobs)
  BY <1>1 DEF BatchOK, WorkerType
<1> QED
  BY <1>1, <1>2

\* The rows there were keep their fire and their retries, and are as settled as
\* they were or deleted; new ones have not been tried.
Kept ==
  /\ jobs' \in Seq(JobType) /\ Len(jobs) <= Len(jobs') /\ Len(jobs') <= MaxJobs
  /\ \A j \in 1..Len(jobs) : /\ jobs'[j].fire = jobs[j].fire /\ jobs'[j].retries = jobs[j].retries
                             /\ jobs'[j].status \in {jobs[j].status, "deleted"}
  /\ \A j \in (Len(jobs) + 1)..Len(jobs') : jobs'[j].retries = 0 /\ jobs'[j].status = "pending"

\* A step of a session end, of time or of the retention leaves the workers alone;
\* all it has to show is that its own part stays in order.
LEMMA TableStep ==
  ASSUME IInv, UNCHANGED <<lock, worker, stamped, failures, crashes>>, Kept,
         fire' \in [Fires -> FireStates],
         \A f \in Fires : fire'[f] = "observed_useful" => fire[f] = "observed_useful",
         ender' \in [Enders -> EnderType], Readers', Agree'
  PROVE  IInv'
<1>1. /\ Len(jobs) \in Nat /\ JobIds = 1..Len(jobs) /\ Len(jobs') \in Nat /\ JobIds' = 1..Len(jobs')
      /\ Len(jobs) <= Len(jobs') /\ Len(jobs') <= MaxJobs
      /\ POSTHOC_MAX_RETRIES \in Nat \ {0} /\ MaxJobs \in Nat
  BY JobFacts, PosthocAssumption DEF IInv, JobIds, Kept
<1>2. ASSUME NEW j \in JobIds'
      PROVE  \/ j \in JobIds
             \/ j \in (Len(jobs) + 1)..Len(jobs') /\ j \notin JobIds /\ j \in 1..MaxJobs /\ j > Len(jobs)
  BY <1>1
<1>3. Typed'
  BY <1>1 DEF IInv, Typed, Kept
<1>4. OneHolder'
  BY DEF IInv, OneHolder
<1>5. Batches'
  <2> SUFFICES ASSUME NEW w \in Workers PROVE BatchOK(worker[w])'
    BY DEF Batches
  <2>1. /\ worker'[w] = worker[w] /\ BatchOK(worker[w])
        /\ worker[w].batch \in Seq(JobIds)
        /\ worker[w].batch # <<>> => Head(worker[w].batch) \in JobIds
    BY AtWork
  <2> DEFINE b == worker[w].batch
  <2>2. b \in Seq(JobIds')
    BY <1>1, <2>1
  <2>3. \A i \in DOMAIN b : b[i] \in JobIds
    BY <2>1
  <2>4. \A j \in JobIds : /\ jobs'[j].retries = jobs[j].retries
                           /\ jobs'[j].status \in {jobs[j].status, "deleted"}
    BY <1>1 DEF Kept
  <2> HIDE DEF b
  <2>5. /\ b \in Seq(JobIds')
        /\ worker[w].pc \in {"idle", "fetch"} => b = <<>>
        /\ worker[w].pc \in {"complete", "fail", "stamp"} => b # <<>>
        /\ \A i, k \in DOMAIN b : b[i] = b[k] => i = k
    BY <2>1, <2>2 DEF BatchOK, b
  <2>6. \A i \in DOMAIN b :
          (i = 1 /\ worker[w].pc = "stamp") \/ jobs'[b[i]].status \in {"pending", "deleted"}
    <3>1. \A i \in DOMAIN b :
            (i = 1 /\ worker[w].pc = "stamp") \/ jobs[b[i]].status \in {"pending", "deleted"}
      BY <2>1 DEF BatchOK, b
    <3> QED
      BY <2>3, <2>4, <3>1
  <2>7. worker[w].pc = "fail" /\ jobs'[Head(b)].status # "deleted" =>
          worker[w].retries = jobs'[Head(b)].retries
    <3>1. worker[w].pc = "fail" => Head(b) \in JobIds
      BY <2>1, <2>5 DEF b
    <3>2. worker[w].pc = "fail" /\ jobs[Head(b)].status # "deleted" =>
            worker[w].retries = jobs[Head(b)].retries
      BY <2>1 DEF BatchOK, b
    <3> QED
      BY <2>4, <3>1, <3>2
  <2> QED
    BY <2>1, <2>5, <2>6, <2>7 DEF BatchOK, b
<1>6. AttemptLeft'
  <2> SUFFICES ASSUME NEW j \in JobIds', jobs'[j].status = "pending"
               PROVE  jobs'[j].retries < POSTHOC_MAX_RETRIES
    BY DEF AttemptLeft
  <2>1. CASE j \in JobIds
    BY <1>1, <2>1 DEF IInv, AttemptLeft, Kept
  <2>2. CASE j \notin JobIds
    BY <1>1, <1>2, <2>2 DEF Kept
  <2> QED
    BY <2>1, <2>2
<1>7. NoFailureIsLost'
  <2> SUFFICES ASSUME NEW j \in JobIds', jobs'[j].status # "deleted"
               PROVE  /\ jobs'[j].retries = failures[j]
                      /\ jobs'[j].status = "failed" => failures[j] = POSTHOC_MAX_RETRIES
    BY DEF NoFailureIsLost
  <2>1. CASE j \in JobIds
    BY <1>1, <2>1 DEF IInv, NoFailureIsLost, Kept
  <2>2. CASE j \notin JobIds
    <3>1. jobs'[j].retries = 0 /\ jobs'[j].status = "pending" /\ failures[j] = 0
      BY <1>1, <1>2, <2>2 DEF Kept, IInv, Typed
    <3> QED
      BY <3>1
  <2> QED
    BY <2>1, <2>2
<1>8. UsefulIsStamped'
  <2> SUFFICES ASSUME NEW f \in Fires, fire'[f] = "observed_useful", RuleOf[f] \notin stamped, ~(crashes > 0)
               PROVE  \E w \in Workers : worker[w].pc = "stamp"
                                          /\ RuleOf[jobs'[Head(worker[w].batch)].fire] = RuleOf[f]
    BY DEF UsefulIsStamped
  <2>1. PICK w \in Workers : worker[w].pc = "stamp"
                               /\ RuleOf[jobs[Head(worker[w].batch)].fire] = RuleOf[f]
    BY DEF IInv, UsefulIsStamped
  <2>2. Head(worker[w].batch) \in JobIds
    BY <2>1, AtWork DEF BatchOK
  <2> QED
    BY <1>1, <2>1, <2>2 DEF Kept
<1> QED
  BY <1>3, <1>4, <1>5, <1>6, <1>7, <1>8 DEF IInv

\* A new fire has no job yet, and no session end has read it.
LEMMA FireStep ==
  ASSUME IInv, NEW f \in Fires, Fire(f)
  PROVE  IInv'
<1>1. /\ fire[f] = "absent" /\ fire' = [fire EXCEPT ![f] = "unlabelled"]
      /\ UNCHANGED <<jobs, ender, lock, worker, stamped, failures, crashes>>
      /\ fire \in [Fires -> FireStates] /\ ender \in [Enders -> EnderType]
  BY DEF Fire, IInv, Typed
<1>2. /\ fire' \in [Fires -> FireStates] /\ fire'[f] = "unlabelled"
      /\ \A g \in Fires \ {f} : fire'[g] = fire[g]
  BY <1>1 DEF FireStates
<1>3. Kept
  BY <1>1, JobFacts, PosthocAssumption DEF Kept, IInv, Typed
<1>4. Readers'
  BY <1>1, <1>2 DEF IInv, Typed, EnderType, Readers
<1>5. Agree'
  <2>1. \A j \in JobIds : jobs[j].fire \in Fires /\ jobs[j].status \in JobStatuses /\ jobs[j].fire # f
    BY <1>1, JobFacts DEF IInv, Agree, JobStatuses, Labels
  <2>2. JobIds' = JobIds
    BY <1>1 DEF JobIds
  <2> QED
    BY <1>1, <1>2, <2>1, <2>2 DEF IInv, Agree, Labels
<1> QED
  BY <1>1, <1>2, <1>3, <1>4, <1>5, TableStep

\* Reading the fires changes the reader only.
LEMMA ReadFiresStep ==
  ASSUME IInv, NEW h \in Enders, ReadFires(h)
  PROVE  IInv'
<1> DEFINE e == [pc |-> "read", todo |-> {}, seen |-> {f \in Fires : fire[f] = "unlabelled"}]
<1>1. /\ ender' = [ender EXCEPT ![h] = e]
      /\ UNCHANGED <<fire, jobs, lock, worker, stamped, failures, crashes>>
      /\ fire \in [Fires -> FireStates] /\ ender \in [Enders -> EnderType]
  BY DEF ReadFires, IInv, Typed
<1>2. e \in EnderType /\ e.seen = {f \in Fires : fire[f] = "unlabelled"} /\ e.todo = {}
  BY DEF EnderType, EnderPCs
<1> HIDE DEF e
<1>3. /\ ender' \in [Enders -> EnderType] /\ ender'[h] = e
      /\ \A g \in Enders \ {h} : ender'[g] = ender[g]
  BY <1>1, <1>2
<1>4. Kept
  BY <1>1, JobFacts, PosthocAssumption DEF Kept, IInv, Typed
<1>5. Readers'
  BY <1>1, <1>2, <1>3 DEF IInv, Readers
<1>6. Agree'
  BY <1>1 DEF IInv, Agree, JobIds
<1> QED
  BY <1>1, <1>3, <1>4, <1>5, <1>6, TableStep

\* The next state of a session end that is storing windows.
LEMMA PopulatingIsTyped ==
  ASSUME NEW todo \in SUBSET (1..MaxJobs)
  PROVE  /\ Populating(todo) \in EnderType /\ Populating(todo).seen = {}
         /\ Populating(todo).todo \subseteq todo
<1> DEFINE e == [pc |-> "populate", seen |-> {}, todo |-> todo]
<1>1. e \in EnderType /\ e.seen = {} /\ e.todo = todo
  BY DEF EnderType, EnderPCs
<1>2. Returned \in EnderType /\ Returned.seen = {} /\ Returned.todo = {}
  <2>1. Returned = [pc |-> "returned", seen |-> {}, todo |-> {}]
    BY DEF Returned, IdleEnder
  <2> QED
    BY <2>1 DEF EnderType, EnderPCs
<1> HIDE DEF e
<1> QED
  BY <1>1, <1>2 DEF Populating, e

\* A new job is untried.
LEMMA NewJobIsTyped ==
  ASSUME NEW f \in Fires
  PROVE  /\ NewJob(f) \in JobType /\ NewJob(f).fire = f
         /\ NewJob(f).status = "pending" /\ NewJob(f).retries = 0
<1>1. 0 \in 0..POSTHOC_MAX_RETRIES /\ 0 \in 0..MAX_BACKOFF
  BY PosthocAssumption
<1> QED
  BY <1>1 DEF NewJob, JobType, JobStatuses

\* The transaction of a session end: new rows for fires of S.
Queues(S) ==
  /\ S \subseteq Fires
  /\ \A f \in S : fire[f] = "unlabelled" /\ \A j \in JobIds : jobs[j].fire # f
  /\ jobs' \in Seq(JobType) /\ Len(jobs) <= Len(jobs') /\ Len(jobs') <= MaxJobs
  /\ \A j \in 1..Len(jobs) : jobs'[j] = jobs[j]
  /\ \A j \in (Len(jobs) + 1)..Len(jobs') :
       jobs'[j].fire \in S /\ jobs'[j].retries = 0 /\ jobs'[j].status = "pending"
  /\ \A i, k \in (Len(jobs) + 1)..Len(jobs') : jobs'[i].fire = jobs'[k].fire => i = k
  /\ \A f \in S : \E j \in (Len(jobs) + 1)..Len(jobs') : jobs'[j].fire = f

\* The insertion of one transaction: what had no job by then, each once.
LEMMA EnqueueQueues ==
  ASSUME IInv, NEW h \in Enders, Enqueue(h), jobs' # jobs
  PROVE  \E S : Queues(S)
<1> DEFINE S == NotQueued(ender[h].seen)
<1>1. /\ ender[h] \in EnderType /\ \A f \in ender[h].seen : fire[f] # "absent"
      /\ fire \in [Fires -> FireStates] /\ jobs \in Seq(JobType) /\ Len(jobs) \in Nat /\ JobIds = 1..Len(jobs)
      /\ \A j \in JobIds : jobs[j].status \in JobStatuses /\ jobs[j].fire \in Fires
  BY JobFacts DEF IInv, Typed, Readers
<1>2. S \subseteq Fires /\ \A f \in S : fire[f] # "absent" /\ JobsOf(f) = {}
  BY <1>1 DEF NotQueued, EnderType
<1>3. IsFiniteSet(S)
  BY <1>2, FS_Subset, PosthocAssumption
<1>4. PICK m \in Nat, new \in Seq(S) :
        /\ new = SetToSeq(S) /\ Len(new) = m /\ DOMAIN new = 1..m
        /\ \A i, j \in 1..m : new[i] = new[j] => i = j
        /\ \A x \in S : \E i \in 1..m : new[i] = x
  <2> HIDE DEF S
  <2> QED
    BY <1>3, SetListed
<1> DEFINE rows == [i \in 1..m |-> NewJob(new[i])]
           added == jobs \o rows
<1>5. /\ jobs' = added /\ Len(added) <= MaxJobs
      /\ \A i \in 1..m : fire[new[i]] # "deleted"
  <2> DEFINE all == SetToSeq(NotQueued(ender[h].seen))
             longer == jobs \o [i \in DOMAIN all |-> NewJob(all[i])]
  <2>1. jobs' = longer /\ Len(longer) <= MaxJobs /\ ~\E i \in DOMAIN all : fire[all[i]] = "deleted"
    BY Zenon DEF Enqueue
  <2>2. all = new /\ longer = added
    BY <1>4
  <2> HIDE DEF all, longer, added
  <2> QED
    BY <1>4, <2>1, <2>2
<1> HIDE DEF S
<1>6. \A f \in S : fire[f] = "unlabelled" /\ \A j \in JobIds : jobs[j].fire # f
  <2> SUFFICES ASSUME NEW f \in S PROVE fire[f] = "unlabelled" /\ \A j \in JobIds : jobs[j].fire # f
    OBVIOUS
  <2>1. fire[f] # "deleted" /\ fire[f] # "absent" /\ f \in Fires
    BY <1>2, <1>4, <1>5
  <2>2. \A j \in JobIds : jobs[j].fire # f
    <3> SUFFICES ASSUME NEW j \in JobIds, jobs[j].fire = f PROVE FALSE
      OBVIOUS
    <3>1. jobs[j].status # "deleted"
      BY <2>1 DEF IInv, Agree
    <3>2. j \in JobsOf(f)
      BY <3>1 DEF JobsOf
    <3> QED
      BY <1>2, <3>2
  <2>3. fire[f] \notin Labels
    BY <2>1, <2>2 DEF IInv, Agree
  <2> QED
    BY <1>1, <2>1, <2>2, <2>3 DEF FireStates
<1>7. /\ rows \in Seq(JobType) /\ Len(rows) = m
      /\ \A i \in 1..m : rows[i].fire = new[i] /\ rows[i].retries = 0 /\ rows[i].status = "pending"
  <2>1. \A i \in 1..m : new[i] \in S /\ new[i] \in Fires
    BY <1>2, <1>4
  <2>2. \A i \in 1..m : rows[i] = NewJob(new[i]) /\ rows[i] \in JobType
    BY <2>1, NewJobIsTyped
  <2>3. rows \in [1..m -> JobType]
    BY <2>1, NewJobIsTyped
  <2> HIDE DEF rows
  <2> QED
    BY <2>1, <2>2, <2>3, NewJobIsTyped
<1> HIDE DEF rows
<1>8. /\ added \in Seq(JobType) /\ Len(added) = Len(jobs) + m
      /\ \A i \in 1..(Len(jobs) + m) : added[i] = IF i <= Len(jobs) THEN jobs[i] ELSE rows[i - Len(jobs)]
  BY <1>1, <1>7, ConcatProperties
<1> HIDE DEF added
<1> DEFINE n == Len(jobs)
<1>9. n \in Nat /\ Len(jobs') = n + m /\ \A i \in (n + 1)..(n + m) : i - n \in 1..m
  BY <1>1, <1>5, <1>8
<1>10. \A i \in 1..n : jobs'[i] = jobs[i]
  BY <1>5, <1>8, <1>9
<1>11. \A i \in (n + 1)..(n + m) : jobs'[i] = rows[i - n]
  BY <1>5, <1>8, <1>9
<1> HIDE DEF n
<1>12. \A i \in (n + 1)..(n + m) :
         jobs'[i].fire = new[i - n] /\ jobs'[i].retries = 0 /\ jobs'[i].status = "pending" /\ new[i - n] \in S
  <2>1. \A i \in 1..m : new[i] \in S
    BY <1>4
  <2> QED
    BY <1>7, <1>9, <1>11, <2>1
<1>13. ASSUME NEW i \in (n + 1)..(n + m), NEW k \in (n + 1)..(n + m), jobs'[i].fire = jobs'[k].fire
       PROVE  i = k
  <2>1. i - n = k - n
    BY <1>4, <1>9, <1>12, <1>13
  <2> QED
    BY <1>9, <2>1
<1>14. ASSUME NEW f \in S
       PROVE  \E j \in (n + 1)..(n + m) : jobs'[j].fire = f
  <2>1. PICK i \in 1..m : new[i] = f
    BY <1>4
  <2>2. n + i \in (n + 1)..(n + m) /\ (n + i) - n = i
    BY <1>9
  <2> QED
    BY <1>12, <2>1, <2>2
<1>15. Len(jobs) <= Len(jobs') /\ Len(jobs') <= MaxJobs /\ jobs' \in Seq(JobType)
  BY <1>5, <1>8, <1>9 DEF n
<1>16. \A f \in S : fire[f] = "unlabelled" /\ \A j \in JobIds : jobs[j].fire # f
  BY <1>6
<1>17. \A j \in (n + 1)..(n + m) : jobs'[j].fire \in S /\ jobs'[j].retries = 0 /\ jobs'[j].status = "pending"
  BY <1>12
<1>18. \A i, k \in (n + 1)..(n + m) : jobs'[i].fire = jobs'[k].fire => i = k
  BY <1>13
<1>19. \A f \in S : \E j \in (n + 1)..(n + m) : jobs'[j].fire = f
  BY <1>14
<1>20. Len(jobs') = n + m /\ S \subseteq Fires
  BY <1>2, <1>9
<1>21. Queues(S)
  BY <1>10, <1>15, <1>16, <1>17, <1>18, <1>19, <1>20 DEF Queues, n
<1> QED
  BY <1>21

\* Queueing keeps the invariant: no row is written twice for a fire.
LEMMA EnqueueStep ==
  ASSUME IInv, NEW h \in Enders, Enqueue(h)
  PROVE  IInv'
<1>1. /\ UNCHANGED <<fire, lock, worker, stamped, failures, crashes>>
      /\ fire \in [Fires -> FireStates] /\ ender \in [Enders -> EnderType] /\ jobs \in Seq(JobType)
      /\ Len(jobs) <= MaxJobs /\ Len(jobs) \in Nat /\ MaxJobs \in Nat /\ JobIds = 1..Len(jobs)
  BY JobFacts, PosthocAssumption DEF Enqueue, IInv, Typed
<1>2. /\ Kept /\ Agree'
  <2>1. CASE jobs' = jobs
    BY <1>1, <2>1 DEF Kept, IInv, Agree, JobIds
  <2>2. CASE jobs' # jobs
    <3>1. PICK S : Queues(S)
      BY <2>2, EnqueueQueues
    <3> DEFINE new == (Len(jobs) + 1)..Len(jobs')
    <3>2. Kept
      BY <3>1 DEF Queues, Kept
    <3>3. Len(jobs') \in Nat /\ JobIds' = 1..Len(jobs')
      BY <3>1 DEF Queues, JobIds
    <3>4. \A j \in JobIds' : j \in JobIds \/ j \in new
      BY <1>1, <3>1, <3>3 DEF Queues
    <3>5. \A j \in JobIds : jobs'[j] = jobs[j] /\ j \in JobIds'
      BY <1>1, <3>1, <3>3 DEF Queues
    <3>6. /\ \A j \in new : jobs'[j].fire \in S /\ jobs'[j].status = "pending"
          /\ \A i, k \in new : jobs'[i].fire = jobs'[k].fire => i = k
          /\ \A f \in S : fire[f] = "unlabelled" /\ \A j \in JobIds : jobs[j].fire # f
      BY <3>1 DEF Queues
    <3> HIDE DEF new
    <3>7. \A i, k \in JobIds' : jobs'[i].fire = jobs'[k].fire => i = k
      BY <3>4, <3>5, <3>6 DEF IInv, Agree
    <3>8. ASSUME NEW j \in JobIds'
          PROVE  LET o == fire[jobs'[j].fire] IN
                 /\ jobs'[j].status \in {"pending", "failed"} => o = "unlabelled"
                 /\ jobs'[j].status = "done" => o \in Labels
                 /\ jobs'[j].status = "deleted" => o = "deleted"
      <4>1. CASE j \in JobIds
        BY <3>5, <4>1 DEF IInv, Agree
      <4>2. CASE j \in new
        BY <3>6, <4>2
      <4> QED
        BY <3>4, <4>1, <4>2
    <3>9. \A f \in Fires : fire[f] \in Labels => \E j \in JobIds' : jobs'[j].fire = f
      BY <3>5 DEF IInv, Agree
    <3> QED
      BY <1>1, <3>2, <3>7, <3>8, <3>9 DEF Agree
  <2> QED
    BY <2>1, <2>2
<1>3. PICK e \in EnderType : /\ ender' = [ender EXCEPT ![h] = e]
                             /\ e.seen = {} /\ e.todo \subseteq 1..Len(jobs')
  <2>1. CASE ender' = [ender EXCEPT ![h] = Returned]
    <3>1. Populating({}) = Returned
      BY DEF Populating
    <3>2. Returned \in EnderType /\ Returned.seen = {} /\ Returned.todo \subseteq {}
      BY <3>1, PopulatingIsTyped
    <3> QED
      BY <2>1, <3>2
  <2>2. CASE ender' # [ender EXCEPT ![h] = Returned]
    <3>1. PICK found : ender' = [ender EXCEPT ![h] = Populating(found)] /\ found \subseteq DOMAIN jobs'
      BY <2>2 DEF Enqueue
    <3>2. DOMAIN jobs' = 1..Len(jobs') /\ 1..Len(jobs') \subseteq 1..MaxJobs
      BY <1>1, <1>2 DEF Kept
    <3>3. /\ Populating(found) \in EnderType /\ Populating(found).seen = {}
          /\ Populating(found).todo \subseteq found
      BY <3>1, <3>2, PopulatingIsTyped
    <3> QED
      BY <3>1, <3>2, <3>3
  <2> QED
    BY <2>1, <2>2
<1>4. /\ ender' \in [Enders -> EnderType] /\ ender'[h] = e
      /\ \A g \in Enders \ {h} : ender'[g] = ender[g]
  BY <1>1, <1>3
<1>5. Readers'
  <2>1. 1..Len(jobs) \subseteq 1..Len(jobs')
    BY <1>1, <1>2 DEF Kept
  <2> QED
    BY <1>1, <1>3, <1>4, <2>1 DEF IInv, Readers
<1> QED
  BY <1>1, <1>2, <1>4, <1>5, TableStep

\* Rows rewritten in place are as many as there were.
LEMMA SameRows ==
  ASSUME Typed, jobs' \in [JobIds -> JobType]
  PROVE  /\ jobs' \in Seq(JobType) /\ Len(jobs') = Len(jobs) /\ JobIds' = JobIds /\ Len(jobs) \in Nat
         /\ JobIds = 1..Len(jobs) /\ Len(jobs') <= MaxJobs
<1>1. Len(jobs) \in Nat /\ JobIds = 1..Len(jobs) /\ Len(jobs) <= MaxJobs
  BY JobFacts DEF Typed
<1>2. jobs' \in Seq(JobType) /\ Len(jobs') = Len(jobs)
  BY <1>1
<1> QED
  BY <1>1, <1>2 DEF JobIds

\* Windows and waits are written; fires, retries and status stay.
Touched ==
  /\ jobs' \in [JobIds -> JobType]
  /\ \A i \in JobIds : /\ jobs'[i].fire = jobs[i].fire /\ jobs'[i].retries = jobs[i].retries
                       /\ jobs'[i].status = jobs[i].status

\* Storing a window is such a step.
LEMMA WindowTouches ==
  ASSUME IInv, NEW h \in Enders, NEW j \in 1..MaxJobs, PopulateWindow(h, j)
  PROVE  Touched
<1>1. PICK b \in BOOLEAN : jobs' = [jobs EXCEPT ![j].window = b]
  BY DEF PopulateWindow
<1>2. j \in JobIds /\ (\A i \in JobIds : jobs[i] \in JobType) /\ jobs \in [JobIds -> JobType]
  BY JobFacts DEF PopulateWindow, IInv, Typed, Readers
<1> DEFINE t == jobs[j]
<1>3. /\ [t EXCEPT !.window = b] \in JobType /\ [t EXCEPT !.window = b].fire = t.fire
      /\ [t EXCEPT !.window = b].retries = t.retries /\ [t EXCEPT !.window = b].status = t.status
  <2>1. t \in JobType
    BY <1>2
  <2> HIDE DEF t
  <2> QED
    BY <2>1 DEF JobType
<1>4. jobs' = [jobs EXCEPT ![j] = [t EXCEPT !.window = b]]
  BY <1>1
<1> QED
  BY <1>2, <1>3, <1>4 DEF Touched

\* So is the passing of time.
LEMMA TickTouches ==
  ASSUME IInv, Tick
  PROVE  Touched
<1>1. jobs' = [j \in JobIds |-> [jobs[j] EXCEPT !.wait = IF @ > 0 THEN @ - 1 ELSE 0]]
  BY DEF Tick
<1>2. ASSUME NEW j \in JobIds
      PROVE  /\ jobs'[j] \in JobType /\ jobs'[j].fire = jobs[j].fire
             /\ jobs'[j].retries = jobs[j].retries /\ jobs'[j].status = jobs[j].status
  <2> DEFINE t == jobs[j]
  <2>1. t \in JobType /\ jobs'[j] = [t EXCEPT !.wait = IF t.wait > 0 THEN t.wait - 1 ELSE 0]
    BY <1>1, <1>2, JobFacts DEF IInv
  <2> HIDE DEF t
  <2>2. PICK n \in 0..MAX_BACKOFF : jobs'[j] = [t EXCEPT !.wait = n]
    <3>1. t.wait \in 0..MAX_BACKOFF
      BY <2>1 DEF JobType
    <3>2. (IF t.wait > 0 THEN t.wait - 1 ELSE 0) \in 0..MAX_BACKOFF
      BY <3>1, PosthocAssumption
    <3> QED
      BY <2>1, <3>2
  <2>3. /\ [t EXCEPT !.wait = n] \in JobType /\ [t EXCEPT !.wait = n].fire = t.fire
        /\ [t EXCEPT !.wait = n].retries = t.retries /\ [t EXCEPT !.wait = n].status = t.status
    BY <2>1 DEF JobType
  <2> QED
    BY <2>2, <2>3 DEF t
<1>3. jobs' = [j \in JobIds |-> jobs'[j]]
  BY <1>1
<1> QED
  BY <1>2, <1>3 DEF Touched

\* Such a step keeps the queue in order.
LEMMA TouchedKeeps ==
  ASSUME IInv, Touched, UNCHANGED fire
  PROVE  /\ Kept /\ Agree'
         /\ JobIds' = JobIds /\ JobIds = 1..Len(jobs) /\ Len(jobs') = Len(jobs)
<1>1. Kept /\ JobIds' = JobIds /\ JobIds = 1..Len(jobs) /\ Len(jobs') = Len(jobs)
  BY SameRows DEF Touched, Kept, IInv
<1>2. Agree'
  BY <1>1 DEF IInv, Agree, Touched
<1> QED
  BY <1>1, <1>2

\* The window of one job is stored.
LEMMA PopulateWindowStep ==
  ASSUME IInv, NEW h \in Enders, NEW j \in 1..MaxJobs, PopulateWindow(h, j)
  PROVE  IInv'
<1> DEFINE e == Populating(ender[h].todo \ {j})
<1>1. /\ ender' = [ender EXCEPT ![h] = e]
      /\ UNCHANGED <<fire, lock, worker, stamped, failures, crashes>>
      /\ fire \in [Fires -> FireStates] /\ ender \in [Enders -> EnderType]
      /\ j \in ender[h].todo
  BY DEF PopulateWindow, IInv, Typed
<1>2. ender[h].todo \subseteq 1..Len(jobs) /\ ender[h].todo \subseteq 1..MaxJobs
  BY <1>1 DEF IInv, Readers, EnderType
<1>3. e \in EnderType /\ e.seen = {} /\ e.todo \subseteq 1..Len(jobs)
  BY <1>2, PopulatingIsTyped
<1> HIDE DEF e
<1>4. /\ ender' \in [Enders -> EnderType] /\ ender'[h] = e
      /\ \A g \in Enders \ {h} : ender'[g] = ender[g]
  BY <1>1, <1>3
<1>5. Kept /\ Agree' /\ Len(jobs') = Len(jobs)
  BY <1>1, WindowTouches, TouchedKeeps
<1>6. Readers'
  BY <1>1, <1>3, <1>4, <1>5 DEF IInv, Readers
<1> QED
  BY <1>1, <1>4, <1>5, <1>6, TableStep

\* Time passes.
LEMMA TickStep ==
  ASSUME IInv, Tick
  PROVE  IInv'
<1>1. /\ UNCHANGED <<fire, ender, lock, worker, stamped, failures, crashes>>
      /\ fire \in [Fires -> FireStates] /\ ender \in [Enders -> EnderType]
  BY DEF Tick, IInv, Typed, actors
<1>2. Kept /\ Agree' /\ Len(jobs') = Len(jobs)
  BY <1>1, TickTouches, TouchedKeeps
<1>3. Readers'
  BY <1>1, <1>2 DEF IInv, Readers
<1> QED
  BY <1>1, <1>2, <1>3, TableStep

\* The deletion of a fire deletes its job and writes nothing else.
LEMMA CleanupRows ==
  ASSUME IInv, NEW f \in Fires, InjectionCleanup(f)
  PROVE  /\ JobIds' = JobIds /\ JobIds = 1..Len(jobs) /\ Len(jobs') = Len(jobs) /\ Kept
         /\ fire' \in [Fires -> FireStates] /\ fire'[f] = "deleted"
         /\ \A g \in Fires \ {f} : fire'[g] = fire[g]
         /\ \A j \in JobIds : /\ jobs'[j].fire = jobs[j].fire
                              /\ jobs'[j].status = IF jobs[j].fire = f THEN "deleted" ELSE jobs[j].status
<1>1. /\ fire[f] # "absent" /\ fire' = [fire EXCEPT ![f] = "deleted"]
      /\ jobs' = [j \in JobIds |-> IF jobs[j].fire = f
                    THEN [jobs[j] EXCEPT !.status = "deleted", !.wait = 0] ELSE jobs[j]]
      /\ UNCHANGED <<ender, lock, worker, stamped, failures, crashes>>
      /\ fire \in [Fires -> FireStates] /\ ender \in [Enders -> EnderType]
  BY Zenon DEF InjectionCleanup, IInv, Typed, actors, Labels
<1>2. /\ fire' \in [Fires -> FireStates] /\ fire'[f] = "deleted"
      /\ \A g \in Fires \ {f} : fire'[g] = fire[g]
  BY <1>1, Zenon DEF FireStates
<1>3. ASSUME NEW j \in JobIds
      PROVE  /\ jobs'[j] \in JobType /\ jobs'[j].fire = jobs[j].fire
             /\ jobs'[j].retries = jobs[j].retries
             /\ jobs'[j].status = IF jobs[j].fire = f THEN "deleted" ELSE jobs[j].status
  <2> DEFINE t == jobs[j]
  <2>1. t \in JobType /\ jobs'[j] = IF t.fire = f THEN [t EXCEPT !.status = "deleted", !.wait = 0] ELSE t
    BY <1>1, <1>3, JobFacts, Zenon DEF IInv
  <2>2. 0 \in 0..MAX_BACKOFF
    BY PosthocAssumption
  <2> HIDE DEF t
  <2>3. /\ [t EXCEPT !.status = "deleted", !.wait = 0] \in JobType
        /\ [t EXCEPT !.status = "deleted", !.wait = 0].fire = t.fire
        /\ [t EXCEPT !.status = "deleted", !.wait = 0].retries = t.retries
        /\ [t EXCEPT !.status = "deleted", !.wait = 0].status = "deleted"
    BY <2>1, <2>2 DEF JobType, JobStatuses
  <2> QED
    BY <2>1, <2>3 DEF t
<1>4. jobs' \in [JobIds -> JobType]
  <2>1. jobs' = [j \in JobIds |-> jobs'[j]]
    BY <1>1, Zenon
  <2> QED
    BY <1>3, <2>1
<1>5. Kept /\ JobIds' = JobIds /\ JobIds = 1..Len(jobs) /\ Len(jobs') = Len(jobs)
  BY <1>3, <1>4, SameRows DEF Kept, IInv
<1> QED
  BY <1>2, <1>3, <1>5

\* The retention deletes a fire under a worker's feet, and its job with it.
LEMMA CleanupStep ==
  ASSUME IInv, NEW f \in Fires, InjectionCleanup(f)
  PROVE  IInv'
<1>1. /\ fire[f] # "absent"
      /\ UNCHANGED <<ender, lock, worker, stamped, failures, crashes>>
      /\ fire \in [Fires -> FireStates] /\ ender \in [Enders -> EnderType]
  BY Zenon DEF InjectionCleanup, IInv, Typed, actors, Labels
<1>2. /\ JobIds' = JobIds /\ JobIds = 1..Len(jobs) /\ Len(jobs') = Len(jobs) /\ Kept
      /\ fire' \in [Fires -> FireStates] /\ fire'[f] = "deleted"
      /\ \A g \in Fires \ {f} : fire'[g] = fire[g]
      /\ \A j \in JobIds : /\ jobs'[j].fire = jobs[j].fire
                           /\ jobs'[j].status = IF jobs[j].fire = f THEN "deleted" ELSE jobs[j].status
  BY CleanupRows
<1>6. Readers'
  <2>1. ASSUME NEW h \in Enders
        PROVE  ender[h].seen \subseteq Fires
    BY <1>1, <2>1 DEF EnderType
  <2> QED
    BY <1>1, <1>2, <2>1 DEF IInv, Readers
<1>7. Agree'
  <2>1. \A j \in JobIds : jobs[j].fire \in Fires
    BY JobFacts DEF IInv
  <2> QED
    BY <1>2, <2>1 DEF IInv, Agree, Labels
<1> QED
  BY <1>1, <1>2, <1>6, <1>7, TableStep

-----------------------------------------------------------------------------
(* Steps of the worker                                                     *)

\* One worker changes; the others have nothing in hand.
LEMMA OneWorks ==
  ASSUME IInv, NEW w \in Workers, NEW r \in WorkerType, Become(w, r),
         lock \in {w, NoWorker},
         \/ r.pc = "idle" /\ lock' = NoWorker
         \/ r.pc # "idle" /\ lock' = w,
         BatchOK(r)'
  PROVE  /\ worker' \in [Workers -> WorkerType] /\ lock' \in Workers \cup {NoWorker}
         /\ worker'[w] = r
         /\ \A v \in Workers \ {w} : worker'[v] = worker[v] /\ worker[v].pc = "idle"
         /\ OneHolder' /\ Batches'
<1>1. /\ worker \in [Workers -> WorkerType] /\ worker' = [worker EXCEPT ![w] = r]
      /\ NoWorker \notin Workers
  BY PosthocAssumption DEF IInv, Typed, Become
<1>2. /\ worker' \in [Workers -> WorkerType] /\ worker'[w] = r
      /\ \A v \in Workers \ {w} : worker'[v] = worker[v]
  BY <1>1
<1>3. \A v \in Workers \ {w} : worker[v].pc = "idle"
  BY <1>1 DEF IInv, OneHolder
<1>4. OneHolder'
  BY <1>1, <1>2, <1>3 DEF OneHolder
<1>5. Batches'
  <2> SUFFICES ASSUME NEW v \in Workers PROVE BatchOK(worker[v])'
    BY DEF Batches
  <2>1. CASE v = w
    BY <1>2, <2>1 DEF BatchOK
  <2>2. CASE v # w
    <3> DEFINE b == worker[v].batch
    <3>1. worker'[v] = worker[v] /\ worker[v].pc = "idle" /\ b = <<>>
      BY <1>2, <1>3, <2>2, AtWork DEF BatchOK
    <3>2. b \in Seq(JobIds') /\ DOMAIN b = {}
      BY <3>1
    <3> QED
      BY <3>1, <3>2 DEF BatchOK
  <2> QED
    BY <2>1, <2>2
<1> QED
  BY <1>1, <1>2, <1>3, <1>4, <1>5

\* A step that writes neither a fire nor a job, and drops no stamp in hand.
LEMMA QuietStep ==
  ASSUME IInv, NEW w \in Workers, NEW r \in WorkerType, Become(w, r),
         UNCHANGED <<fire, jobs, ender, failures>>,
         lock \in {w, NoWorker},
         \/ r.pc = "idle" /\ lock' = NoWorker
         \/ r.pc # "idle" /\ lock' = w,
         BatchOK(r),
         stamped \subseteq stamped', stamped' \subseteq Rules,
         crashes' \in 0..MaxCrashes, crashes <= crashes',
         worker[w].pc = "stamp" =>
           \/ crashes' > 0
           \/ \A f \in Fires : fire[f] = "observed_useful"
                                 /\ RuleOf[jobs[Head(worker[w].batch)].fire] = RuleOf[f]
                               => RuleOf[f] \in stamped'
  PROVE  IInv'
<1>1. BatchOK(r)' /\ JobIds' = JobIds
  BY DEF BatchOK, JobIds
<1>2. /\ worker' \in [Workers -> WorkerType] /\ lock' \in Workers \cup {NoWorker}
      /\ worker'[w] = r
      /\ \A v \in Workers \ {w} : worker'[v] = worker[v] /\ worker[v].pc = "idle"
      /\ OneHolder' /\ Batches'
  BY <1>1, OneWorks
<1>3. Typed' /\ Readers' /\ Agree' /\ AttemptLeft' /\ NoFailureIsLost'
  BY <1>1, <1>2 DEF IInv, Typed, Readers, Agree, AttemptLeft, NoFailureIsLost
<1>4. UsefulIsStamped'
  <2> SUFFICES ASSUME NEW f \in Fires, fire[f] = "observed_useful", RuleOf[f] \notin stamped',
                      ~(crashes' > 0)
               PROVE  FALSE
    BY DEF UsefulIsStamped
  <2>1. crashes \in Int /\ crashes' \in Int
    BY DEF IInv, Typed
  <2>2. PICK v \in Workers : worker[v].pc = "stamp"
                               /\ RuleOf[jobs[Head(worker[v].batch)].fire] = RuleOf[f]
    BY <2>1 DEF IInv, UsefulIsStamped
  <2>3. v = w
    BY <1>2, <2>2
  <2> QED
    BY <2>2, <2>3
<1> QED
  BY <1>2, <1>3, <1>4 DEF IInv

\* The worker that gets the lock starts with an empty batch.
LEMMA StartMaintainStep ==
  ASSUME IInv, NEW w \in Workers, StartMaintain(w)
  PROVE  IInv'
<1> DEFINE r == [worker[w] EXCEPT !.pc = "fetch"]
<1>1. /\ worker[w].pc = "idle" /\ lock = NoWorker /\ lock' = w /\ Become(w, r)
      /\ UNCHANGED <<fire, jobs, ender, stamped, failures, crashes>>
  BY DEF StartMaintain, Acquire, GoTo
<1>2. worker[w] \in WorkerType /\ BatchOK(worker[w])
  BY AtWork
<1>3. r \in WorkerType /\ r.pc = "fetch" /\ r.batch = worker[w].batch
  <2> DEFINE x == worker[w]
  <2>1. x \in WorkerType
    BY <1>2
  <2> HIDE DEF x
  <2>2. /\ [x EXCEPT !.pc = "fetch"] \in WorkerType /\ [x EXCEPT !.pc = "fetch"].pc = "fetch"
        /\ [x EXCEPT !.pc = "fetch"].batch = x.batch
    BY <2>1 DEF WorkerType, WorkerPCs
  <2> QED
    BY <2>2 DEF x
<1> HIDE DEF r
<1>4. BatchOK(r)
  BY <1>1, <1>2, <1>3 DEF BatchOK
<1>5. stamped \subseteq Rules /\ crashes \in 0..MaxCrashes /\ crashes <= crashes
  BY DEF IInv, Typed
<1> QED
  BY <1>1, <1>3, <1>4, <1>5, QuietStep

\* The batch of Fetch lists pending jobs, each once.
LEMMA FetchStep ==
  ASSUME IInv, NEW w \in Workers, Fetch(w)
  PROVE  IInv'
<1> DEFINE S == {j \in JobIds : IsDue(j)}
           due == Ordered(S)
           m == IF Len(due) < LIMIT THEN Len(due) ELSE LIMIT
           b == SubSeq(due, 1, m)
           r == [worker[w] EXCEPT !.pc = "jobs", !.batch = b]
<1>1. /\ worker[w].pc = "fetch" /\ Become(w, r)
      /\ UNCHANGED <<fire, jobs, ender, lock, stamped, failures, crashes>>
  BY DEF Fetch
<1>2. lock = w
  BY <1>1 DEF IInv, OneHolder
<1> DEFINE c == Cardinality(S)
<1>3. /\ c \in Nat /\ due \in [1..c -> S]
      /\ \A i, k \in 1..c : due[i] = due[k] => i = k
  <2>1. S \in SUBSET JobIds
    OBVIOUS
  <2>2. Typed
    BY DEF IInv
  <2> HIDE DEF S
  <2> QED
    BY <2>1, <2>2, OrderedLists
<1>4. \A x \in S : x \in JobIds /\ jobs[x].status = "pending"
  BY DEF IsDue
<1> HIDE DEF S, c, due
<1>5. due \in Seq(S) /\ Len(due) = c
  BY <1>3
<1>6. m \in Nat /\ m <= c
  BY <1>3, <1>5, PosthocAssumption
<1> HIDE DEF m
<1>7. /\ b \in Seq(S) /\ Len(b) = m /\ DOMAIN b = 1..m
      /\ \A i \in 1..m : b[i] = due[i] /\ b[i] \in S
  <2>1. /\ b \in Seq(S) /\ Len(b) = m
        /\ \A i \in 1..m : b[i] = due[1 + i - 1]
    BY <1>5, <1>6, SubSeqProperties
  <2> HIDE DEF b
  <2>2. DOMAIN b = 1..m /\ \A i \in 1..m : 1 + i - 1 = i /\ b[i] \in S
    BY <1>6, <2>1
  <2> QED
    BY <2>1, <2>2
<1> HIDE DEF b
<1>8. b \in Seq(JobIds) /\ b \in Seq(1..MaxJobs)
  <2>1. S \subseteq JobIds /\ S \subseteq 1..MaxJobs
    BY <1>4, JobFacts DEF IInv
  <2>2. \A T : S \subseteq T => b \in Seq(T)
    BY <1>6, <1>7
  <2> QED
    BY <2>1, <2>2
<1>9. r \in WorkerType /\ r.pc = "jobs" /\ r.batch = b
  <2> DEFINE x == worker[w]
  <2>1. x \in WorkerType
    BY AtWork
  <2> HIDE DEF x
  <2> DEFINE y == [x EXCEPT !.pc = "jobs", !.batch = b]
  <2>2. y \in WorkerType /\ y.pc = "jobs" /\ y.batch = b
    BY <1>8, <2>1 DEF WorkerType, WorkerPCs
  <2> QED
    BY <2>2 DEF x
<1> HIDE DEF r
<1>10. BatchOK(r)
  <2>1. \A i, k \in 1..m : b[i] = b[k] => i = k
    BY <1>3, <1>6, <1>7
  <2> QED
    BY <1>4, <1>7, <1>8, <1>9, <2>1 DEF BatchOK
<1>11. stamped \subseteq Rules /\ crashes \in 0..MaxCrashes /\ crashes <= crashes
  BY DEF IInv, Typed
<1> QED
  BY <1>1, <1>2, <1>9, <1>10, <1>11, QuietStep

\* A verdict like any other.
LEMMA NoVerdictIsTyped == NoVerdict \in VerdictType
BY DEF NoVerdict, VerdictType, Labels

\* The correction of a verdict is a verdict.
LEMMA CorrectedIsTyped ==
  ASSUME NEW v \in Verdicts
  PROVE  Corrected(v) \in VerdictType
<1>1. v \in VerdictType
  BY PosthocAssumption DEF VerdictType
<1> QED
  BY <1>1 DEF Corrected, VerdictType, Labels

\* The evaluator's answer stays with the worker; on a failure so do the retries it
\* read, which nobody else will have changed by the time they are written.
LEMMA EvaluateStep ==
  ASSUME IInv, NEW w \in Workers, Evaluate(w)
  PROVE  IInv'
<1> DEFINE x == worker[w]
           j == Head(x.batch)
<1>1. /\ x.pc = "jobs" /\ x.batch # <<>>
      /\ UNCHANGED <<fire, jobs, ender, lock, stamped, failures, crashes>>
  BY Zenon DEF Evaluate
<1>2. lock = w
  BY <1>1 DEF IInv, OneHolder
<1>3. /\ x \in WorkerType /\ BatchOK(x) /\ j \in JobIds
      /\ jobs[j].retries \in 0..POSTHOC_MAX_RETRIES
  BY <1>1, AtWork, JobFacts DEF IInv
<1>4. \/ \E v \in VerdictType : Become(w, [x EXCEPT !.pc = "complete", !.verdict = v])
      \/ Become(w, [x EXCEPT !.pc = "fail", !.retries = jobs[j].retries])
  BY NoVerdictIsTyped, CorrectedIsTyped, Zenon DEF Evaluate
<1>5. stamped \subseteq Rules /\ crashes \in 0..MaxCrashes /\ crashes <= crashes
  BY DEF IInv, Typed
<1>6. ASSUME NEW v \in VerdictType, Become(w, [x EXCEPT !.pc = "complete", !.verdict = v])
      PROVE  IInv'
  <2> DEFINE r == [x EXCEPT !.pc = "complete", !.verdict = v]
  <2>1. r \in WorkerType /\ r.pc = "complete" /\ r.batch = x.batch
    <3> HIDE DEF x
    <3> QED
      BY <1>3 DEF WorkerType, WorkerPCs
  <2>2. Become(w, r)
    BY <1>6
  <2> HIDE DEF r
  <2>3. BatchOK(r)
    BY <1>1, <1>3, <2>1 DEF BatchOK
  <2> QED
    BY <1>1, <1>2, <1>5, <2>1, <2>2, <2>3, QuietStep
<1>7. ASSUME Become(w, [x EXCEPT !.pc = "fail", !.retries = jobs[j].retries])
      PROVE  IInv'
  <2> DEFINE r == [x EXCEPT !.pc = "fail", !.retries = jobs[j].retries]
  <2>1. r \in WorkerType /\ r.pc = "fail" /\ r.batch = x.batch /\ r.retries = jobs[j].retries
    <3> DEFINE n == jobs[j].retries
    <3>1. n \in 0..POSTHOC_MAX_RETRIES
      BY <1>3
    <3> HIDE DEF x, n
    <3>2. LET y == [x EXCEPT !.pc = "fail", !.retries = n] IN
          y \in WorkerType /\ y.pc = "fail" /\ y.batch = x.batch /\ y.retries = n
      BY <1>3, <3>1 DEF WorkerType, WorkerPCs
    <3> QED
      BY <3>2 DEF n
  <2>2. Become(w, r)
    BY <1>7
  <2> HIDE DEF r
  <2>3. BatchOK(r)
    BY <1>1, <1>3, <2>1 DEF BatchOK
  <2> QED
    BY <1>1, <1>2, <1>5, <2>1, <2>2, <2>3, QuietStep
<1> QED
  BY <1>4, <1>6, <1>7, Zenon

\* A sequence of ids is one of numbers up to MaxJobs.
LEMMA JobSeqs ==
  ASSUME Typed, NEW s \in Seq(JobIds)
  PROVE  s \in Seq(1..MaxJobs)
<1>1. JobIds \subseteq 1..MaxJobs
  BY JobFacts
<1>2. PICK m \in Nat : s \in [1..m -> JobIds]
  OBVIOUS
<1> DEFINE T == 1..MaxJobs
<1> HIDE DEF T
<1>3. s \in [1..m -> T]
  BY <1>1, <1>2 DEF T
<1>4. s \in Seq(T)
  BY <1>2, <1>3
<1> QED
  BY <1>4 DEF T

\* What is left of the batch when its head is done with.
LEMMA TailIsOK ==
  ASSUME NEW b \in Seq(JobIds), b # <<>>,
         \A i, k \in DOMAIN b : b[i] = b[k] => i = k
  PROVE  /\ Tail(b) \in Seq(JobIds) /\ \A i \in DOMAIN Tail(b) : /\ i + 1 \in DOMAIN b
                                                                 /\ i + 1 # 1
                                                                 /\ Tail(b)[i] = b[i + 1]
                                                                 /\ Tail(b)[i] \in JobIds
         /\ \A i, k \in DOMAIN Tail(b) : Tail(b)[i] = Tail(b)[k] => i = k
<1>1. /\ Len(b) \in Nat /\ Len(b) # 0 /\ DOMAIN b = 1..Len(b)
      /\ \A i \in 1..Len(b) : b[i] \in JobIds
  BY EmptySeq
<1>2. /\ Tail(b) \in Seq(JobIds) /\ Len(Tail(b)) = Len(b) - 1
      /\ \A i \in 1..Len(Tail(b)) : Tail(b)[i] = b[i + 1]
  BY HeadTailProperties
<1> DEFINE t == Tail(b)
           n == Len(b)
<1> HIDE DEF t, n
<1>3. DOMAIN t = 1..(n - 1) /\ n \in Nat
  BY <1>1, <1>2 DEF t, n
<1>4. \A i \in DOMAIN t : i + 1 \in 1..n /\ i + 1 # 1 /\ t[i] = b[i + 1] /\ t[i] \in JobIds
  BY <1>1, <1>2, <1>3 DEF t, n
<1>5. ASSUME NEW i \in DOMAIN t, NEW k \in DOMAIN t, t[i] = t[k]
      PROVE  i = k
  <2>1. i + 1 = k + 1
    BY <1>1, <1>4, <1>5 DEF n
  <2> QED
    BY <1>3, <2>1
<1> QED
  BY <1>1, <1>2, <1>4, <1>5 DEF t, n

\* The stamp is written before the job leaves the batch.
LEMMA StampUsefulStep ==
  ASSUME IInv, NEW w \in Workers, StampUseful(w)
  PROVE  IInv'
<1> DEFINE x == worker[w]
           q == RuleOf[jobs[Head(x.batch)].fire]
           t == Tail(x.batch)
           r == [x EXCEPT !.pc = "jobs", !.batch = t]
<1>1. /\ x.pc = "stamp" /\ Become(w, r)
      /\ stamped' = IF \E f \in Fires : RuleOf[f] = q /\ fire[f] = "observed_useful"
                    THEN stamped \cup {q} ELSE stamped
      /\ UNCHANGED <<fire, jobs, ender, lock, failures, crashes>>
  BY DEF StampUseful
<1>2. /\ x \in WorkerType /\ BatchOK(x) /\ x.batch # <<>> /\ x.batch \in Seq(JobIds)
      /\ lock = w /\ Head(x.batch) \in JobIds
  BY <1>1, AtWork DEF BatchOK, IInv, OneHolder
<1>3. \A i, k \in DOMAIN x.batch : x.batch[i] = x.batch[k] => i = k
  BY <1>2 DEF BatchOK
<1>4. /\ t \in Seq(JobIds)
      /\ \A i \in DOMAIN t : i + 1 \in DOMAIN x.batch /\ i + 1 # 1 /\ t[i] = x.batch[i + 1]
      /\ \A i, k \in DOMAIN t : t[i] = t[k] => i = k
  <2> DEFINE b == x.batch
  <2>1. b \in Seq(JobIds) /\ b # <<>> /\ \A i, k \in DOMAIN b : b[i] = b[k] => i = k
    BY <1>2, <1>3
  <2> HIDE DEF b
  <2>2. /\ Tail(b) \in Seq(JobIds)
        /\ \A i \in DOMAIN Tail(b) : i + 1 \in DOMAIN b /\ i + 1 # 1 /\ Tail(b)[i] = b[i + 1]
        /\ \A i, k \in DOMAIN Tail(b) : Tail(b)[i] = Tail(b)[k] => i = k
    BY <2>1, TailIsOK
  <2> QED
    BY <2>2 DEF b
<1> HIDE DEF t
<1>9. t \in Seq(1..MaxJobs)
  BY <1>4, JobSeqs DEF IInv
<1>5. r \in WorkerType /\ r.pc = "jobs" /\ r.batch = t
  <2> HIDE DEF x
  <2> QED
    BY <1>2, <1>9 DEF WorkerType, WorkerPCs
<1> HIDE DEF r
<1>6. BatchOK(r)
  BY <1>2, <1>4, <1>5 DEF BatchOK
<1>7. /\ stamped \subseteq stamped' /\ stamped' \subseteq Rules
      /\ crashes \in 0..MaxCrashes /\ crashes <= crashes
  <2>1. q \in Rules /\ stamped \subseteq Rules /\ crashes \in 0..MaxCrashes
    BY <1>2, JobFacts, PosthocAssumption DEF IInv, Typed
  <2> HIDE DEF q
  <2> QED
    BY <1>1, <2>1
<1>8. \A f \in Fires : fire[f] = "observed_useful" /\ q = RuleOf[f] => RuleOf[f] \in stamped'
  BY <1>1
<1> QED
  BY <1>1, <1>2, <1>5, <1>6, <1>7, <1>8, QuietStep, Zenon

\* A rule is evaluated.
LEMMA ReviewStep ==
  ASSUME IInv, NEW w \in Workers, NEW q \in Rules, Review(w, q)
  PROVE  IInv'
<1> DEFINE x == worker[w]
           r == [x EXCEPT !.rules = x.rules \ {q}]
<1>1. /\ x.pc = "jobs" /\ Become(w, r)
      /\ UNCHANGED <<fire, jobs, ender, lock, stamped, failures, crashes>>
  BY DEF Review
<1>2. x \in WorkerType /\ BatchOK(x) /\ lock = w
  BY <1>1, AtWork DEF IInv, OneHolder
<1>3. r \in WorkerType /\ r.pc = "jobs" /\ r.batch = x.batch
  <2> DEFINE s == x.rules \ {q}
  <2>1. s \in SUBSET Rules
    BY <1>2 DEF WorkerType
  <2> HIDE DEF x, s
  <2>2. LET y == [x EXCEPT !.rules = s] IN y \in WorkerType /\ y.pc = x.pc /\ y.batch = x.batch
    BY <1>2, <2>1 DEF WorkerType
  <2> QED
    BY <1>1, <2>2 DEF s
<1> HIDE DEF r
<1>4. BatchOK(r)
  BY <1>1, <1>2, <1>3 DEF BatchOK
<1>5. stamped \subseteq Rules /\ crashes \in 0..MaxCrashes /\ crashes <= crashes
  BY DEF IInv, Typed
<1> QED
  BY <1>1, <1>2, <1>3, <1>4, <1>5, QuietStep

\* A worker with nothing in hand.
LEMMA IdleWorkerIsTyped ==
  IdleWorker \in WorkerType /\ IdleWorker.pc = "idle" /\ BatchOK(IdleWorker)
<1> DEFINE empty == <<>>
           r == [pc |-> "idle", batch |-> empty, verdict |-> NoVerdict, retries |-> 0, rules |-> {}]
<1>1. empty \in Seq(1..MaxJobs) /\ empty \in Seq(JobIds) /\ DOMAIN empty = {}
  OBVIOUS
<1>2. IdleWorker = r
  BY DEF IdleWorker
<1> HIDE DEF empty
<1>3. r \in WorkerType /\ r.pc = "idle" /\ r.batch = empty
  BY <1>1, NoVerdictIsTyped, PosthocAssumption DEF WorkerType, WorkerPCs
<1> HIDE DEF r
<1>4. BatchOK(r)
  BY <1>1, <1>3 DEF BatchOK, empty
<1> QED
  BY <1>2, <1>3, <1>4

\* The worker releases the lock with an empty batch.
LEMMA FinishStep ==
  ASSUME IInv, NEW w \in Workers, Finish(w)
  PROVE  IInv'
<1>1. /\ worker[w].pc = "jobs" /\ Become(w, IdleWorker) /\ lock' = NoWorker
      /\ UNCHANGED <<fire, jobs, ender, stamped, failures, crashes>>
      /\ stamped \subseteq Rules /\ crashes \in 0..MaxCrashes /\ crashes <= crashes
  BY DEF Finish, IInv, Typed
<1>2. lock = w
  BY <1>1 DEF IInv, OneHolder
<1> QED
  BY <1>1, <1>2, IdleWorkerIsTyped, QuietStep

\* A crash may drop a stamp, and the invariant says so.
LEMMA CrashStep ==
  ASSUME IInv, NEW w \in Workers, Crash(w)
  PROVE  IInv'
<1>1. lock = w
  BY DEF Crash, IInv, OneHolder
<1>2. /\ Become(w, IdleWorker) /\ lock' = NoWorker
      /\ UNCHANGED <<fire, jobs, ender, stamped, failures>>
      /\ stamped \subseteq Rules /\ crashes' \in 0..MaxCrashes /\ crashes <= crashes' /\ crashes' > 0
  BY <1>1, PosthocAssumption DEF Crash, IInv, Typed
<1> QED
  BY <1>1, <1>2, IdleWorkerIsTyped, QuietStep

\* 2^n counts the subsets of n things, so it is a number.
LEMMA PowerIsNat ==
  ASSUME NEW n \in Nat
  PROVE  2^n \in Nat
<1>1. IsFiniteSet(1..n) /\ Cardinality(1..n) = n
  BY FS_Interval
<1>2. IsFiniteSet(SUBSET (1..n)) /\ Cardinality(SUBSET (1..n)) = 2^n
  BY <1>1, FS_SUBSET
<1> QED
  BY <1>2, FS_CardinalityType

\* One row written: the others are what they were.
LEMMA RowWritten ==
  ASSUME Typed, NEW j \in JobIds, NEW t \in JobType, jobs' = [jobs EXCEPT ![j] = t]
  PROVE  /\ jobs' \in Seq(JobType) /\ Len(jobs') = Len(jobs) /\ Len(jobs') <= MaxJobs
         /\ JobIds' = JobIds /\ JobIds = 1..Len(jobs)
         /\ jobs'[j] = t /\ \A i \in JobIds \ {j} : jobs'[i] = jobs[i]
<1>1. jobs \in [JobIds -> JobType]
  BY JobFacts DEF Typed
<1>2. /\ jobs' \in [JobIds -> JobType]
      /\ jobs'[j] = t /\ \A i \in JobIds \ {j} : jobs'[i] = jobs[i]
  BY <1>1
<1> QED
  BY <1>2, SameRows

\* The head of the batch is written, and the worker goes on to the next.
LEMMA RestIsOK ==
  ASSUME IInv, NEW w \in Workers, worker[w].pc \in {"complete", "fail"}, JobIds' = JobIds,
         \A i \in JobIds : i # Head(worker[w].batch) => jobs'[i] = jobs[i]
  PROVE  /\ Tail(worker[w].batch) \in Seq(1..MaxJobs)
         /\ \A r \in WorkerType : r.pc = "jobs" /\ r.batch = Tail(worker[w].batch) => BatchOK(r)'
         /\ \A r \in WorkerType : r.pc = "stamp" /\ r.batch = worker[w].batch => BatchOK(r)'
<1> DEFINE x == worker[w]
           b == x.batch
<1>1. /\ x \in WorkerType /\ b # <<>> /\ b \in Seq(JobIds) /\ Head(b) = b[1] /\ 1 \in DOMAIN b
      /\ \A i, k \in DOMAIN b : b[i] = b[k] => i = k
      /\ \A i \in DOMAIN b : jobs[b[i]].status \in {"pending", "deleted"} /\ b[i] \in JobIds
  BY AtWork DEF BatchOK
<1> HIDE DEF b
<1>2. /\ Tail(b) \in Seq(JobIds)
      /\ \A i \in DOMAIN Tail(b) : /\ i + 1 \in DOMAIN b /\ i + 1 # 1 /\ Tail(b)[i] = b[i + 1]
                                   /\ Tail(b)[i] \in JobIds
      /\ \A i, k \in DOMAIN Tail(b) : Tail(b)[i] = Tail(b)[k] => i = k
  BY <1>1, TailIsOK
<1>3. Tail(b) \in Seq(1..MaxJobs)
  BY <1>2, JobSeqs DEF IInv
<1>4. \A i \in DOMAIN b : i # 1 => jobs'[b[i]].status \in {"pending", "deleted"}
  BY <1>1 DEF b
<1>5. ASSUME NEW r \in WorkerType, r.pc = "jobs", r.batch = Tail(b)
      PROVE  BatchOK(r)'
  <2>1. \A i \in DOMAIN Tail(b) : jobs'[Tail(b)[i]].status \in {"pending", "deleted"}
    BY <1>2, <1>4
  <2> QED
    BY <1>2, <1>5, <2>1 DEF BatchOK
<1>6. ASSUME NEW r \in WorkerType, r.pc = "stamp", r.batch = b
      PROVE  BatchOK(r)'
  BY <1>1, <1>4, <1>6 DEF BatchOK
<1> QED
  BY <1>3, <1>5, <1>6 DEF b

\* The write of a verdict: the job of the fire is done, and the fire labelled, both
\* or neither.
LEMMA CompleteRows ==
  ASSUME IInv, NEW w \in Workers, MarkComplete(w)
  PROVE  LET j == Head(worker[w].batch)
             f == jobs[j].fire
             label == worker[w].verdict.label IN
         /\ j \in JobIds /\ jobs[j].status \in {"pending", "deleted"}
         /\ fire[f] = IF jobs[j].status = "deleted" THEN "deleted" ELSE "unlabelled"
         /\ label \in Labels /\ f \in Fires
         /\ jobs' \in Seq(JobType) /\ Len(jobs') = Len(jobs) /\ Len(jobs') <= MaxJobs
         /\ JobIds' = JobIds /\ JobIds = 1..Len(jobs)
         /\ \A i \in JobIds \ {j} : jobs'[i] = jobs[i]
         /\ jobs'[j].fire = f /\ jobs'[j].retries = jobs[j].retries
         /\ jobs'[j].status = IF jobs[j].status = "deleted" THEN "deleted" ELSE "done"
         /\ fire' \in [Fires -> FireStates]
         /\ \A g \in Fires \ {f} : fire'[g] = fire[g]
         /\ fire'[f] = IF jobs[j].status = "deleted" THEN "deleted" ELSE label
         /\ \A g \in Fires : fire[g] # "absent" => fire'[g] # "absent"
<1> DEFINE x == worker[w]
           j == Head(x.batch)
           f == jobs[j].fire
           label == x.verdict.label
<1>1. /\ x.pc = "complete"
      /\ jobs' = IF jobs[j].status = "deleted" THEN jobs ELSE [jobs EXCEPT ![j].status = "done"]
      /\ fire' = IF fire[f] = "deleted" \/ jobs[j].status = "deleted" THEN fire
                 ELSE [fire EXCEPT ![f] = label]
      /\ UNCHANGED <<ender, lock, stamped, failures, crashes>>
  BY DEF MarkComplete
<1>2. /\ x \in WorkerType /\ BatchOK(x) /\ x.batch # <<>> /\ x.batch \in Seq(JobIds)
      /\ lock = w /\ j \in JobIds /\ j = x.batch[1] /\ 1 \in DOMAIN x.batch
  BY <1>1, AtWork DEF BatchOK, IInv, OneHolder
<1>3. /\ jobs[j] \in JobType /\ f \in Fires /\ jobs[j].status \in {"pending", "deleted"}
      /\ label \in Labels /\ x.rules \subseteq Rules
      /\ fire \in [Fires -> FireStates] /\ f = jobs[j].fire
  BY <1>1, <1>2, JobFacts DEF BatchOK, IInv, Typed, WorkerType, VerdictType
<1>4. /\ jobs[j].status = "pending" => fire[f] = "unlabelled"
      /\ jobs[j].status = "deleted" => fire[f] = "deleted"
  BY <1>2 DEF IInv, Agree
<1> DEFINE d == [jobs[j] EXCEPT !.status = "done"]
<1>5. /\ d \in JobType /\ d.fire = f /\ d.retries = jobs[j].retries /\ d.status = "done"
  <2> DEFINE t == jobs[j]
  <2>1. t \in JobType
    BY <1>3
  <2> HIDE DEF t
  <2>2. LET y == [t EXCEPT !.status = "done"] IN
        y \in JobType /\ y.fire = t.fire /\ y.retries = t.retries /\ y.status = "done"
    BY <2>1 DEF JobType, JobStatuses
  <2> QED
    BY <2>2 DEF t
<1>6. jobs' = IF jobs[j].status = "deleted" THEN jobs ELSE [jobs EXCEPT ![j] = d]
  BY <1>1
<1> HIDE DEF d
<1>7. /\ jobs' \in Seq(JobType) /\ Len(jobs') = Len(jobs) /\ Len(jobs') <= MaxJobs
      /\ JobIds' = JobIds /\ JobIds = 1..Len(jobs)
      /\ \A i \in JobIds \ {j} : jobs'[i] = jobs[i]
      /\ jobs'[j] = IF jobs[j].status = "deleted" THEN jobs[j] ELSE d
  <2>1. CASE jobs[j].status = "deleted"
    BY <1>6, <2>1, JobFacts DEF IInv, Typed, JobIds
  <2>2. CASE jobs[j].status # "deleted"
    <3>1. Typed /\ j \in JobIds /\ d \in JobType /\ jobs' = [jobs EXCEPT ![j] = d]
      BY <1>2, <1>5, <1>6, <2>2 DEF IInv
    <3> HIDE DEF j
    <3>2. /\ jobs' \in Seq(JobType) /\ Len(jobs') = Len(jobs) /\ Len(jobs') <= MaxJobs
          /\ JobIds' = JobIds /\ JobIds = 1..Len(jobs)
          /\ jobs'[j] = d /\ \A i \in JobIds \ {j} : jobs'[i] = jobs[i]
      BY <3>1, RowWritten
    <3> QED
      BY <2>2, <3>2
  <2> QED
    BY <2>1, <2>2
<1>8. /\ jobs'[j].fire = f /\ jobs'[j].retries = jobs[j].retries
      /\ jobs'[j].status = IF jobs[j].status = "deleted" THEN "deleted" ELSE "done"
  BY <1>5, <1>7
<1>9. /\ fire' \in [Fires -> FireStates]
      /\ \A g \in Fires \ {f} : fire'[g] = fire[g]
      /\ fire'[f] = IF jobs[j].status = "deleted" THEN "deleted" ELSE label
      /\ \A g \in Fires : fire[g] # "absent" => fire'[g] # "absent"
  <2>1. fire' = IF jobs[j].status = "deleted" THEN fire ELSE [fire EXCEPT ![f] = label]
    BY <1>1, <1>3, <1>4
  <2> HIDE DEF f, label
  <2> QED
    BY <1>3, <1>4, <2>1 DEF FireStates, Labels
<1> QED
  BY <1>2, <1>3, <1>4, <1>7, <1>8, <1>9, Zenon

\* The write of a verdict keeps the invariant.
LEMMA MarkCompleteStep ==
  ASSUME IInv, NEW w \in Workers, MarkComplete(w)
  PROVE  IInv'
<1> DEFINE x == worker[w]
           j == Head(x.batch)
           f == jobs[j].fire
           label == x.verdict.label
           pc == IF NeedsStamp(label) THEN "stamp" ELSE "jobs"
           b == IF NeedsStamp(label) THEN x.batch ELSE Tail(x.batch)
           q == IF label = "unclear" THEN x.rules ELSE x.rules \cup {RuleOf[f]}
           after == [x EXCEPT !.verdict = NoVerdict, !.pc = pc, !.batch = b, !.rules = q]
<1>1. /\ x.pc = "complete" /\ Become(w, after)
      /\ UNCHANGED <<ender, lock, stamped, failures, crashes>>
  BY DEF MarkComplete
<1>2. /\ x \in WorkerType /\ BatchOK(x) /\ x.batch # <<>> /\ x.batch \in Seq(JobIds)
      /\ lock = w /\ j \in JobIds /\ j = x.batch[1] /\ 1 \in DOMAIN x.batch
  BY <1>1, AtWork DEF BatchOK, IInv, OneHolder
<1>3. /\ j \in JobIds /\ jobs[j].status \in {"pending", "deleted"}
      /\ fire[f] = IF jobs[j].status = "deleted" THEN "deleted" ELSE "unlabelled"
      /\ label \in Labels /\ f \in Fires
      /\ jobs' \in Seq(JobType) /\ Len(jobs') = Len(jobs) /\ Len(jobs') <= MaxJobs
      /\ JobIds' = JobIds /\ JobIds = 1..Len(jobs)
      /\ \A i \in JobIds \ {j} : jobs'[i] = jobs[i]
      /\ jobs'[j].fire = f /\ jobs'[j].retries = jobs[j].retries
      /\ jobs'[j].status = IF jobs[j].status = "deleted" THEN "deleted" ELSE "done"
      /\ fire' \in [Fires -> FireStates]
      /\ \A g \in Fires \ {f} : fire'[g] = fire[g]
      /\ fire'[f] = IF jobs[j].status = "deleted" THEN "deleted" ELSE label
      /\ \A g \in Fires : fire[g] # "absent" => fire'[g] # "absent"
  BY CompleteRows
<1>4. x.rules \subseteq Rules
  BY <1>2 DEF WorkerType
<1>10. /\ Tail(x.batch) \in Seq(1..MaxJobs) /\ x.batch \in Seq(1..MaxJobs)
       /\ \A s \in WorkerType : s.pc = "jobs" /\ s.batch = Tail(x.batch) => BatchOK(s)'
       /\ \A s \in WorkerType : s.pc = "stamp" /\ s.batch = x.batch => BatchOK(s)'
  BY <1>1, <1>2, <1>3, AtWork, RestIsOK, Zenon
<1>11. after \in WorkerType /\ after.pc = pc /\ after.batch = b
  <2>1. /\ pc \in WorkerPCs /\ b \in Seq(1..MaxJobs) /\ q \in SUBSET Rules
    BY <1>3, <1>4, <1>10, PosthocAssumption, Zenon DEF WorkerPCs
  <2> HIDE DEF x, pc, b, q
  <2> QED
    BY <1>2, <2>1, NoVerdictIsTyped, Zenon DEF WorkerType
<1> HIDE DEF after
<1>20. PICK r \in WorkerType : r = after
  BY <1>11
<1>12. BatchOK(r)' /\ r.pc # "idle" /\ Become(w, r)
  <2>1. \/ r.pc = "jobs" /\ r.batch = Tail(x.batch)
        \/ r.pc = "stamp" /\ r.batch = x.batch
    BY <1>11, <1>20
  <2> QED
    BY <1>1, <1>10, <1>20, <2>1
<1>13. /\ worker' \in [Workers -> WorkerType] /\ lock' \in Workers \cup {NoWorker}
       /\ worker'[w] = r
       /\ \A v \in Workers \ {w} : worker'[v] = worker[v] /\ worker[v].pc = "idle"
       /\ OneHolder' /\ Batches'
  BY <1>1, <1>2, <1>12, OneWorks
<1>14. Typed'
  BY <1>1, <1>3, <1>13 DEF IInv, Typed
<1>15. Readers'
  <2>1. \A h \in Enders : ender[h].seen \subseteq Fires
    BY DEF IInv, Typed, EnderType
  <2> QED
    BY <1>1, <1>3, <2>1 DEF IInv, Readers
<1>16. Agree'
  <2> HIDE DEF f, j, label
  <2>1. \A i \in JobIds : jobs'[i].fire = jobs[i].fire
    BY <1>3 DEF f
  <2>2. \A i \in JobIds \ {j} : jobs[i].fire # f /\ jobs[i].fire \in Fires
    BY <1>2, <1>3, JobFacts DEF IInv, Agree, f
  <2>3. ASSUME NEW i \in JobIds
        PROVE  LET o == fire'[jobs'[i].fire] IN
               /\ jobs'[i].status \in {"pending", "failed"} => o = "unlabelled"
               /\ jobs'[i].status = "done" => o \in Labels
               /\ jobs'[i].status = "deleted" => o = "deleted"
    <3>1. CASE i = j
      BY <1>3, <3>1
    <3>2. CASE i # j
      BY <1>3, <2>2, <3>2 DEF IInv, Agree
    <3> QED
      BY <3>1, <3>2
  <2>4. \A g \in Fires : fire'[g] \in Labels => \E i \in JobIds : jobs'[i].fire = g
    BY <1>2, <1>3, <2>1 DEF IInv, Agree
  <2> QED
    BY <1>3, <2>1, <2>3, <2>4 DEF IInv, Agree
<1>17. AttemptLeft'
  BY <1>3 DEF IInv, AttemptLeft
<1>18. NoFailureIsLost'
  <2> SUFFICES ASSUME NEW i \in JobIds, jobs'[i].status # "deleted"
               PROVE  /\ jobs'[i].retries = failures[i]
                      /\ jobs'[i].status = "failed" => failures[i] = POSTHOC_MAX_RETRIES
    BY <1>1, <1>3 DEF NoFailureIsLost
  <2>1. jobs[i].status # "deleted" => jobs[i].retries = failures[i]
    BY DEF IInv, NoFailureIsLost
  <2>2. CASE i = j
    BY <1>3, <2>1, <2>2
  <2>3. CASE i # j
    BY <1>3, <2>3 DEF IInv, NoFailureIsLost
  <2> QED
    BY <2>2, <2>3
<1>19. UsefulIsStamped'
  <2> SUFFICES ASSUME NEW g \in Fires, fire'[g] = "observed_useful", RuleOf[g] \notin stamped,
                      ~(crashes > 0)
               PROVE  \E v \in Workers : worker'[v].pc = "stamp"
                                          /\ RuleOf[jobs'[Head(worker'[v].batch)].fire] = RuleOf[g]
    BY <1>1 DEF UsefulIsStamped
  <2>1. fire[g] # "observed_useful"
    BY <1>1, <1>13 DEF IInv, UsefulIsStamped
  <2>2. g = f /\ label = "observed_useful"
    BY <1>3, <2>1
  <2>3. r.pc = "stamp" /\ r.batch = x.batch
    <3>1. NeedsStamp(label)
      BY <2>2 DEF NeedsStamp
    <3> HIDE DEF x, j, f, label
    <3> QED
      BY <1>11, <1>20, <3>1
  <2> QED
    BY <1>3, <1>13, <2>2, <2>3, Zenon
<1> QED
  BY <1>13, <1>14, <1>15, <1>16, <1>17, <1>18, <1>19 DEF IInv

\* The write of a failure: the retries are one more than those of the row, since
\* no one has written them since they were read.
LEMMA FailedRows ==
  ASSUME IInv, NEW w \in Workers, MarkFailed(w)
  PROVE  LET j == Head(worker[w].batch)
             f == jobs[j].fire
             n == worker[w].retries + 1
             status == IF RetriesExhausted(n) THEN "failed" ELSE "pending"
             gone == jobs[j].status = "deleted" IN
         /\ j \in JobIds /\ jobs[j].status \in {"pending", "deleted"} /\ f \in Fires
         /\ ~gone => /\ n \in 1..POSTHOC_MAX_RETRIES /\ failures[j] + 1 = n
                     /\ status \in {"pending", "failed"}
                     /\ status = "failed" => n = POSTHOC_MAX_RETRIES
                     /\ status = "pending" => n < POSTHOC_MAX_RETRIES
                     /\ fire[f] = "unlabelled"
         /\ jobs' \in Seq(JobType) /\ Len(jobs') = Len(jobs) /\ Len(jobs') <= MaxJobs
         /\ JobIds' = JobIds /\ JobIds = 1..Len(jobs)
         /\ \A i \in JobIds \ {j} : jobs'[i] = jobs[i]
         /\ jobs'[j].fire = f
         /\ jobs'[j].retries = IF gone THEN jobs[j].retries ELSE n
         /\ jobs'[j].status = IF gone THEN "deleted" ELSE status
<1> DEFINE x == worker[w]
           j == Head(x.batch)
           f == jobs[j].fire
           n == x.retries + 1
           wait == Min2(2^n, MAX_BACKOFF)
           status == IF RetriesExhausted(n) THEN "failed" ELSE "pending"
           gone == jobs[j].status = "deleted"
           d == [jobs[j] EXCEPT !.retries = n, !.status = status, !.wait = wait]
<1>1. /\ x.pc = "fail"
      /\ jobs' = IF gone THEN jobs
                 ELSE [jobs EXCEPT ![j].retries = n, ![j].status = status, ![j].wait = wait]
      /\ failures' = IF gone THEN failures ELSE [failures EXCEPT ![j] = failures[j] + 1]
      /\ UNCHANGED <<fire, ender, lock, stamped, crashes>>
  BY DEF MarkFailed
<1>2. /\ x \in WorkerType /\ BatchOK(x) /\ x.batch # <<>> /\ x.batch \in Seq(JobIds)
      /\ lock = w /\ j \in JobIds /\ j = x.batch[1] /\ 1 \in DOMAIN x.batch
  BY <1>1, AtWork, Zenon DEF BatchOK, IInv, OneHolder
<1>3. /\ jobs[j] \in JobType /\ f \in Fires /\ jobs[j].status \in {"pending", "deleted"}
      /\ x.retries \in Nat /\ x.rules \subseteq Rules /\ JobIds \subseteq 1..MaxJobs
      /\ failures \in [1..MaxJobs -> Nat]
      /\ ~gone => x.retries = jobs[j].retries
  <2>1. /\ jobs[j] \in JobType /\ f \in Fires /\ JobIds \subseteq 1..MaxJobs
        /\ failures \in [1..MaxJobs -> Nat]
    <3>1. Typed /\ j \in JobIds
      BY <1>2 DEF IInv
    <3> HIDE DEF j
    <3>2. jobs[j] \in JobType /\ jobs[j].fire \in Fires /\ JobIds \subseteq 1..MaxJobs
      BY <3>1, JobFacts
    <3> QED
      BY <3>1, <3>2 DEF Typed
  <2>2. x.retries \in 0..POSTHOC_MAX_RETRIES /\ x.rules \subseteq Rules
    BY <1>2 DEF WorkerType
  <2>3. jobs[j].status \in {"pending", "deleted"} /\ (~gone => x.retries = jobs[j].retries)
    BY <1>1, <1>2 DEF BatchOK
  <2>4. x.retries \in Nat
    BY <2>2, PosthocAssumption
  <2> QED
    BY <2>1, <2>2, <2>3, <2>4
<1>4. /\ ~gone => /\ n \in 1..POSTHOC_MAX_RETRIES /\ failures[j] + 1 = n
                  /\ status \in {"pending", "failed"}
                  /\ status = "failed" => n = POSTHOC_MAX_RETRIES
                  /\ status = "pending" => n < POSTHOC_MAX_RETRIES
                  /\ fire[f] = "unlabelled"
  <2>1. ~gone => jobs[j].retries = failures[j] /\ jobs[j].retries < POSTHOC_MAX_RETRIES
    BY <1>2, <1>3 DEF IInv, AttemptLeft, NoFailureIsLost
  <2>2. ~gone => fire[f] = "unlabelled"
    BY <1>2, <1>3 DEF IInv, Agree
  <2> HIDE DEF x, f, j, gone
  <2> QED
    BY <1>3, <2>1, <2>2, PosthocAssumption DEF RetriesExhausted
<1>5. wait \in 0..MAX_BACKOFF
  <2> DEFINE p == 2^n
  <2>1. p \in Nat
    BY <1>3, PowerIsNat
  <2>2. wait = IF p < MAX_BACKOFF THEN p ELSE MAX_BACKOFF
    BY DEF Min2
  <2> HIDE DEF p, wait
  <2> QED
    BY <2>1, <2>2, PosthocAssumption
<1> HIDE DEF wait
<1>6. ~gone => d \in JobType /\ d.fire = f /\ d.retries = n /\ d.status = status
  <2> DEFINE y == jobs[j]
  <2> SUFFICES ASSUME ~gone PROVE d \in JobType /\ d.fire = f /\ d.retries = n /\ d.status = status
    OBVIOUS
  <2>1. y \in JobType /\ n \in 0..POSTHOC_MAX_RETRIES /\ status \in JobStatuses
    BY <1>3, <1>4 DEF JobStatuses
  <2> HIDE DEF y, n, status
  <2>2. LET z == [y EXCEPT !.retries = n, !.status = status, !.wait = wait] IN
        z \in JobType /\ z.fire = y.fire /\ z.retries = n /\ z.status = status
    BY <1>5, <2>1, Zenon DEF JobType
  <2> QED
    BY <2>2 DEF y
<1>7. jobs' = IF gone THEN jobs ELSE [jobs EXCEPT ![j] = d]
  <2> DEFINE y == jobs[j]
  <2>1. \A S, a, b, c : j \in DOMAIN jobs =>
          [jobs EXCEPT ![j].retries = a, ![j].status = b, ![j].wait = c]
             = [jobs EXCEPT ![j] = [jobs[j] EXCEPT !.retries = a, !.status = b, !.wait = c]]
    OBVIOUS
  <2> QED
    BY <1>1, <1>2, <2>1, Zenon DEF JobIds
<1> HIDE DEF d
<1>8. /\ jobs' \in Seq(JobType) /\ Len(jobs') = Len(jobs) /\ Len(jobs') <= MaxJobs
      /\ JobIds' = JobIds /\ JobIds = 1..Len(jobs)
      /\ \A i \in JobIds \ {j} : jobs'[i] = jobs[i]
      /\ jobs'[j] = IF gone THEN jobs[j] ELSE d
  <2>1. CASE gone
    BY <1>7, <2>1, JobFacts DEF IInv, Typed, JobIds
  <2>2. CASE ~gone
    <3>1. Typed /\ j \in JobIds /\ d \in JobType /\ jobs' = [jobs EXCEPT ![j] = d]
      BY <1>2, <1>6, <1>7, <2>2 DEF IInv
    <3> HIDE DEF j
    <3>2. /\ jobs' \in Seq(JobType) /\ Len(jobs') = Len(jobs) /\ Len(jobs') <= MaxJobs
          /\ JobIds' = JobIds /\ JobIds = 1..Len(jobs)
          /\ jobs'[j] = d /\ \A i \in JobIds \ {j} : jobs'[i] = jobs[i]
      BY <3>1, RowWritten
    <3> QED
      BY <2>2, <3>2
  <2> QED
    BY <2>1, <2>2
<1>9. /\ jobs'[j].fire = f
      /\ jobs'[j].retries = IF gone THEN jobs[j].retries ELSE n
      /\ jobs'[j].status = IF gone THEN "deleted" ELSE status
  BY <1>6, <1>8
<1> QED
  BY <1>2, <1>3, <1>4, <1>8, <1>9

\* The write of a failure keeps the invariant.
LEMMA MarkFailedStep ==
  ASSUME IInv, NEW w \in Workers, MarkFailed(w)
  PROVE  IInv'
<1> DEFINE x == worker[w]
           j == Head(x.batch)
           f == jobs[j].fire
           n == x.retries + 1
           status == IF RetriesExhausted(n) THEN "failed" ELSE "pending"
           gone == jobs[j].status = "deleted"
           t == Tail(x.batch)
           after == [x EXCEPT !.pc = "jobs", !.batch = t, !.retries = 0]
<1>1. /\ x.pc = "fail" /\ Become(w, after)
      /\ failures' = IF gone THEN failures ELSE [failures EXCEPT ![j] = failures[j] + 1]
      /\ UNCHANGED <<fire, ender, lock, stamped, crashes>>
  BY DEF MarkFailed
<1>2. /\ x \in WorkerType /\ BatchOK(x) /\ x.batch # <<>> /\ x.batch \in Seq(JobIds)
      /\ lock = w /\ j \in JobIds /\ j = x.batch[1] /\ 1 \in DOMAIN x.batch
  BY <1>1, AtWork DEF BatchOK, IInv, OneHolder
<1>3. /\ j \in JobIds /\ jobs[j].status \in {"pending", "deleted"} /\ f \in Fires
      /\ ~gone => /\ n \in 1..POSTHOC_MAX_RETRIES /\ failures[j] + 1 = n
                  /\ status \in {"pending", "failed"}
                  /\ status = "failed" => n = POSTHOC_MAX_RETRIES
                  /\ status = "pending" => n < POSTHOC_MAX_RETRIES
                  /\ fire[f] = "unlabelled"
      /\ jobs' \in Seq(JobType) /\ Len(jobs') = Len(jobs) /\ Len(jobs') <= MaxJobs
      /\ JobIds' = JobIds /\ JobIds = 1..Len(jobs)
      /\ \A i \in JobIds \ {j} : jobs'[i] = jobs[i]
      /\ jobs'[j].fire = f
      /\ jobs'[j].retries = IF gone THEN jobs[j].retries ELSE n
      /\ jobs'[j].status = IF gone THEN "deleted" ELSE status
  BY FailedRows
<1>4. JobIds \subseteq 1..MaxJobs /\ failures \in [1..MaxJobs -> Nat]
  BY JobFacts DEF IInv, Typed
<1>10. /\ failures' \in [1..MaxJobs -> Nat]
       /\ \A i \in 1..MaxJobs : i # j => failures'[i] = failures[i]
       /\ ~gone => failures'[j] = n
  <2>1. j \in 1..MaxJobs /\ failures[j] \in Nat
    BY <1>2, <1>3, <1>4
  <2> HIDE DEF j, gone, n
  <2> QED
    BY <1>1, <1>3, <1>4, <2>1
<1>11. /\ t \in Seq(1..MaxJobs)
       /\ \A s \in WorkerType : s.pc = "jobs" /\ s.batch = t => BatchOK(s)'
  BY <1>1, <1>2, <1>3, RestIsOK
<1>12. after \in WorkerType /\ after.pc = "jobs" /\ after.batch = t
  <2>1. 0 \in 0..POSTHOC_MAX_RETRIES
    BY PosthocAssumption
  <2> HIDE DEF x, t
  <2> QED
    BY <1>2, <1>11, <2>1 DEF WorkerType, WorkerPCs
<1> HIDE DEF after
<1>13. PICK r \in WorkerType : r = after
  BY <1>12
<1>14. BatchOK(r)' /\ r.pc # "idle" /\ r.pc # "stamp" /\ Become(w, r)
  BY <1>1, <1>11, <1>12, <1>13
<1>15. /\ worker' \in [Workers -> WorkerType] /\ lock' \in Workers \cup {NoWorker}
       /\ worker'[w] = r
       /\ \A v \in Workers \ {w} : worker'[v] = worker[v] /\ worker[v].pc = "idle"
       /\ OneHolder' /\ Batches'
  <2>1. lock = w /\ lock' = w /\ BatchOK(r)' /\ r.pc # "idle" /\ Become(w, r)
    BY <1>1, <1>2, <1>14
  <2> HIDE DEF x, j, f, n, status, gone, t
  <2> QED
    BY <2>1, OneWorks
<1>16. Typed'
  <2>1. \A i \in 1..MaxJobs : i > Len(jobs) => failures'[i] = 0
    <3>1. \A i \in 1..MaxJobs : i > Len(jobs) => failures[i] = 0 /\ i # j
      BY <1>2, <1>3, JobFacts DEF IInv, Typed
    <3> QED
      BY <1>10, <3>1
  <2> QED
    BY <1>1, <1>3, <1>10, <1>15, <2>1 DEF IInv, Typed
<1>17. Readers'
  BY <1>1, <1>3 DEF IInv, Readers
<1>18. Agree'
  <2> HIDE DEF f, j, n, status, gone
  <2>1. \A i \in JobIds : jobs'[i].fire = jobs[i].fire
    BY <1>3 DEF f
  <2>2. ASSUME NEW i \in JobIds
        PROVE  LET o == fire[jobs'[i].fire] IN
               /\ jobs'[i].status \in {"pending", "failed"} => o = "unlabelled"
               /\ jobs'[i].status = "done" => o \in Labels
               /\ jobs'[i].status = "deleted" => o = "deleted"
    <3>1. CASE i = j /\ ~gone
      BY <1>3, <1>4, <3>1
    <3>2. CASE i = j /\ gone
      BY <1>3, <3>2 DEF IInv, Agree, gone, f
    <3>3. CASE i # j
      BY <1>3, <3>3 DEF IInv, Agree
    <3> QED
      BY <3>1, <3>2, <3>3
  <2> QED
    BY <1>1, <1>3, <2>1, <2>2 DEF IInv, Agree
<1>19. AttemptLeft'
  <2> HIDE DEF f, j, n, status
  <2> QED
    BY <1>3, <1>4 DEF IInv, AttemptLeft
<1>20. NoFailureIsLost'
  <2> SUFFICES ASSUME NEW i \in JobIds, jobs'[i].status # "deleted"
               PROVE  /\ jobs'[i].retries = failures'[i]
                      /\ jobs'[i].status = "failed" => failures'[i] = POSTHOC_MAX_RETRIES
    BY <1>3 DEF NoFailureIsLost
  <2> HIDE DEF f, j, n, status, gone
  <2>1. CASE i = j
    BY <1>3, <1>4, <1>10, <2>1
  <2>2. CASE i # j
    BY <1>3, <1>4, <1>10, <2>2 DEF IInv, NoFailureIsLost
  <2> QED
    BY <2>1, <2>2
<1>21. UsefulIsStamped'
  <2> SUFFICES ASSUME NEW g \in Fires, fire[g] = "observed_useful", RuleOf[g] \notin stamped,
                      ~(crashes > 0)
               PROVE  FALSE
    BY <1>1 DEF UsefulIsStamped
  <2> QED
    BY <1>1, <1>15 DEF IInv, UsefulIsStamped
<1> QED
  BY <1>15, <1>16, <1>17, <1>18, <1>19, <1>20, <1>21 DEF IInv

-----------------------------------------------------------------------------
(* The invariant                                                           *)

\* It holds at the start.
LEMMA StartsRight == Init => IInv
<1> SUFFICES ASSUME Init PROVE IInv
  OBVIOUS
<1> DEFINE empty == <<>>
           e == [pc |-> "idle", seen |-> {}, todo |-> {}]
<1>1. empty \in Seq(JobType) /\ Len(empty) = 0 /\ DOMAIN empty = {}
  OBVIOUS
<1>2. /\ fire = [f \in Fires |-> "absent"] /\ jobs = empty /\ lock = NoWorker
      /\ ender = [h \in Enders |-> IdleEnder]
      /\ worker = [w \in Workers |-> IdleWorker]
      /\ stamped = {} /\ failures = [j \in 1..MaxJobs |-> 0] /\ crashes = 0
  BY DEF Init
<1> HIDE DEF empty
<1>3. /\ JobIds = {} /\ jobs \in Seq(JobType) /\ Len(jobs) = 0 /\ MaxJobs \in Nat
      /\ crashes \in 0..MaxCrashes /\ NoWorker \notin Workers
  BY <1>1, <1>2, PosthocAssumption DEF JobIds
<1>4. IdleEnder \in EnderType /\ IdleEnder.seen = {} /\ IdleEnder.todo = {}
  <2>1. IdleEnder = e
    BY DEF IdleEnder
  <2>2. e \in EnderType /\ e.seen = {} /\ e.todo = {}
    BY DEF EnderType, EnderPCs
  <2> HIDE DEF e
  <2> QED
    BY <2>1, <2>2
<1>5. fire \in [Fires -> FireStates] /\ \A f \in Fires : fire[f] = "absent"
  BY <1>2 DEF FireStates
<1>6. Typed
  BY <1>2, <1>3, <1>4, <1>5, IdleWorkerIsTyped DEF Typed
<1>7. Readers /\ OneHolder /\ Batches
  BY <1>2, <1>3, <1>4, IdleWorkerIsTyped DEF Readers, OneHolder, Batches
<1>8. Agree /\ AttemptLeft /\ NoFailureIsLost /\ UsefulIsStamped
  BY <1>3, <1>5 DEF Agree, AttemptLeft, NoFailureIsLost, UsefulIsStamped, Labels
<1> QED
  BY <1>6, <1>7, <1>8 DEF IInv

\* It holds after a step of something else.
LEMMA StutterKeeps ==
  ASSUME IInv, UNCHANGED vars
  PROVE  IInv'
<1>1. JobIds' = JobIds
  BY DEF vars, JobIds
<1>2. Typed' /\ Readers' /\ OneHolder' /\ Agree' /\ AttemptLeft' /\ NoFailureIsLost' /\ UsefulIsStamped'
  BY <1>1 DEF IInv, vars, Typed, Readers, OneHolder, Agree, AttemptLeft, NoFailureIsLost, UsefulIsStamped
<1>3. Batches'
  BY <1>1 DEF IInv, vars, Batches, BatchOK
<1> QED
  BY <1>2, <1>3 DEF IInv

\* It is inductive.
LEMMA EveryStepKeeps == IInv /\ [Next]_vars => IInv'
<1> SUFFICES ASSUME IInv, [Next]_vars PROVE IInv'
  OBVIOUS
<1>1. ASSUME NEW f \in Fires, Fire(f) \/ InjectionCleanup(f)
      PROVE  IInv'
  BY <1>1, FireStep, CleanupStep
<1>2. ASSUME NEW h \in Enders, ReadFires(h) \/ Enqueue(h)
      PROVE  IInv'
  BY <1>2, ReadFiresStep, EnqueueStep
<1>3. ASSUME NEW h \in Enders, NEW j \in 1..MaxJobs, PopulateWindow(h, j)
      PROVE  IInv'
  BY <1>3, PopulateWindowStep
<1>4. ASSUME NEW w \in Workers, StartMaintain(w) \/ Crash(w)
      PROVE  IInv'
  BY <1>4, StartMaintainStep, CrashStep
<1>5. ASSUME NEW w \in Workers, WorkerStep(w)
      PROVE  IInv'
  <2>1. CASE Fetch(w)
    BY <2>1, FetchStep
  <2>2. CASE Evaluate(w)
    BY <2>2, EvaluateStep
  <2>3. CASE MarkComplete(w)
    BY <2>3, MarkCompleteStep
  <2>4. CASE MarkFailed(w)
    BY <2>4, MarkFailedStep
  <2>5. CASE StampUseful(w)
    BY <2>5, StampUsefulStep
  <2>6. CASE \E r \in Rules : Review(w, r)
    BY <2>6, ReviewStep
  <2>7. CASE Finish(w)
    BY <2>7, FinishStep
  <2> QED
    BY <1>5, <2>1, <2>2, <2>3, <2>4, <2>5, <2>6, <2>7 DEF WorkerStep
<1>6. CASE Tick
  BY <1>6, TickStep
<1>7. CASE UNCHANGED vars
  BY <1>7, StutterKeeps
<1> QED
  BY <1>1, <1>2, <1>3, <1>4, <1>5, <1>6, <1>7 DEF Next

\* The invariant holds, whatever the number of fires, session ends and workers.
THEOREM PosthocInvariant == Spec => []IInv
<1> QED
  BY StartsRight, EveryStepKeeps, PTL DEF Spec

\* "One posthoc job per fire event", although two session ends read the fires before
\* either writes.
THEOREM JobsAreUnique == Spec => []OneJobPerFire
<1>1. ASSUME IInv
      PROVE  OneJobPerFire
  <2> SUFFICES ASSUME NEW f \in Fires PROVE Cardinality(JobsOf(f)) <= 1
    BY DEF OneJobPerFire
  <2>1. \A i, k \in JobsOf(f) : i = k
    BY <1>1 DEF IInv, Agree, JobsOf
  <2>2. CASE JobsOf(f) = {}
    BY <2>2, FS_EmptySet
  <2>3. CASE JobsOf(f) # {}
    <3>1. PICK i : JobsOf(f) = {i}
      BY <2>1, <2>3
    <3> QED
      BY <3>1, FS_Singleton
  <2> QED
    BY <2>2, <2>3
<1> QED
  BY <1>1, PosthocInvariant, PTL

\* No failed attempt is lost between the read of the retries of a job and their
\* write, and a job that is given up has had all its attempts.
THEOREM RetriesAreFailures == Spec => []NoFailureIsLost
<1>1. IInv => NoFailureIsLost
  BY DEF IInv
<1> QED
  BY <1>1, PosthocInvariant, PTL

\* Short of a crash, a rule with a useful fire is stamped or about to be.
THEOREM UseIsStamped == Spec => []UsefulIsStamped
<1>1. IInv => UsefulIsStamped
  BY DEF IInv
<1> QED
  BY <1>1, PosthocInvariant, PTL

\* The variables keep their types.
THEOREM PosthocTypes == Spec => []TypeOK
<1>1. ASSUME IInv
      PROVE  TypeOK
  <2>1. ASSUME NEW w \in Workers
        PROVE  /\ worker[w].pc \in WorkerPCs /\ worker[w].batch \in Seq(1..Len(jobs))
               /\ worker[w].verdict \in [label : Labels, without : {"yes", "no", "unclear"}]
               /\ worker[w].retries \in 0..POSTHOC_MAX_RETRIES
               /\ worker[w].rules \subseteq Rules
    BY <1>1, <2>1, AtWork, JobFacts DEF IInv, WorkerType, VerdictType
  <2> QED
    BY <1>1, <2>1 DEF IInv, Typed, TypeOK, FireStates, EnderType
<1> QED
  BY <1>1, PosthocInvariant, PTL

-----------------------------------------------------------------------------
(* The ledger                                                              *)

outcomes == [f \in Fires |-> Outcome(f)]

\* What the one job of a fire makes of it.
OutcomeIs ==
  \A f \in Fires :
    /\ (\A j \in JobIds : jobs[j].fire # f) =>
         outcomes[f] = IF fire[f] = "unlabelled" THEN "fired" ELSE fire[f]
    /\ \A j \in JobIds : jobs[j].fire = f =>
         /\ jobs[j].status = "pending" => outcomes[f] = "queued"
         /\ jobs[j].status = "failed" => outcomes[f] = "given up"
         /\ jobs[j].status = "done" => outcomes[f] = fire[f]
         /\ jobs[j].status = "deleted" => outcomes[f] = "deleted"

\* It is a function of the fires.
LEMMA OutcomesMap ==
  /\ outcomes = [f \in Fires |-> outcomes[f]]
  /\ outcomes' = [f \in Fires |-> outcomes'[f]]
BY DEF outcomes

\* The invariant leaves no fire torn.
LEMMA OutcomeFacts == IInv => OutcomeIs
<1> SUFFICES ASSUME IInv, NEW f \in Fires
             PROVE  /\ (\A j \in JobIds : jobs[j].fire # f) =>
                         Outcome(f) = IF fire[f] = "unlabelled" THEN "fired" ELSE fire[f]
                    /\ \A j \in JobIds : jobs[j].fire = f =>
                         /\ jobs[j].status = "pending" => Outcome(f) = "queued"
                         /\ jobs[j].status = "failed" => Outcome(f) = "given up"
                         /\ jobs[j].status = "done" => Outcome(f) = fire[f]
                         /\ jobs[j].status = "deleted" => Outcome(f) = "deleted"
  BY DEF OutcomeIs, outcomes
<1> DEFINE status == {jobs[j].status : j \in JobsOf(f)}
<1>1. Outcome(f) = CASE fire[f] \in {"absent", "deleted"}                -> fire[f]
                     [] fire[f] = "unlabelled" /\ status = {}            -> "fired"
                     [] fire[f] = "unlabelled" /\ status = {"pending"}   -> "queued"
                     [] fire[f] = "unlabelled" /\ status = {"failed"}    -> "given up"
                     [] fire[f] \in Labels /\ status = {"done"}          -> fire[f]
                     [] OTHER                                            -> "torn"
  BY DEF Outcome
<1>2. fire[f] \in FireStates
  BY DEF IInv, Typed
<1>3. ASSUME \A j \in JobIds : jobs[j].fire # f
      PROVE  Outcome(f) = IF fire[f] = "unlabelled" THEN "fired" ELSE fire[f]
  <2>1. status = {} /\ fire[f] \notin Labels
    BY <1>3 DEF IInv, Agree, JobsOf
  <2> HIDE DEF status
  <2> QED
    BY <1>1, <1>2, <2>1 DEF FireStates
<1>4. ASSUME NEW j \in JobIds, jobs[j].fire = f
      PROVE  /\ jobs[j].status = "pending" => Outcome(f) = "queued"
             /\ jobs[j].status = "failed" => Outcome(f) = "given up"
             /\ jobs[j].status = "done" => Outcome(f) = fire[f]
             /\ jobs[j].status = "deleted" => Outcome(f) = "deleted"
  <2>1. /\ jobs[j].status \in {"pending", "failed"} => fire[f] = "unlabelled"
        /\ jobs[j].status = "done" => fire[f] \in Labels
        /\ jobs[j].status = "deleted" => fire[f] = "deleted"
    BY <1>4 DEF IInv, Agree
  <2>2. jobs[j].status # "deleted" => JobsOf(f) = {j}
    BY <1>4 DEF IInv, Agree, JobsOf
  <2>3. jobs[j].status # "deleted" => status = {jobs[j].status}
    BY <2>2
  <2> HIDE DEF status
  <2> QED
    BY <1>1, <2>1, <2>3 DEF Labels
<1> QED
  BY <1>3, <1>4

\* A fire that keeps what it has, and its job too, keeps its outcome.
LEMMA KeptOutcome ==
  ASSUME OutcomeIs, OutcomeIs', IInv, NEW g \in Fires, fire'[g] = fire[g],
         JobIds \subseteq JobIds', \A j \in JobIds' : j \in JobIds \/ jobs'[j].fire # g,
         \A j \in JobIds : /\ jobs'[j].fire = jobs[j].fire
                           /\ jobs[j].fire = g => jobs'[j].status = jobs[j].status
  PROVE  outcomes'[g] = outcomes[g]
<1>1. CASE \A j \in JobIds : jobs[j].fire # g
  <2>1. \A j \in JobIds' : jobs'[j].fire # g
    BY <1>1
  <2>2. outcomes[g] = IF fire[g] = "unlabelled" THEN "fired" ELSE fire[g]
    BY <1>1 DEF OutcomeIs
  <2>3. outcomes'[g] = IF fire'[g] = "unlabelled" THEN "fired" ELSE fire'[g]
    BY <2>1 DEF OutcomeIs
  <2> QED
    BY <2>2, <2>3
<1>2. CASE \E j \in JobIds : jobs[j].fire = g
  <2>1. PICK j \in JobIds : jobs[j].fire = g
    BY <1>2
  <2>2. jobs[j].status \in JobStatuses
    BY JobFacts DEF IInv
  <2>3. j \in JobIds' /\ jobs'[j].fire = g /\ jobs'[j].status = jobs[j].status
    BY <2>1
  <2>4. /\ jobs[j].status = "pending" => outcomes[g] = "queued"
        /\ jobs[j].status = "failed" => outcomes[g] = "given up"
        /\ jobs[j].status = "done" => outcomes[g] = fire[g]
        /\ jobs[j].status = "deleted" => outcomes[g] = "deleted"
    BY <2>1 DEF OutcomeIs
  <2>5. /\ jobs'[j].status = "pending" => outcomes'[g] = "queued"
        /\ jobs'[j].status = "failed" => outcomes'[g] = "given up"
        /\ jobs'[j].status = "done" => outcomes'[g] = fire'[g]
        /\ jobs'[j].status = "deleted" => outcomes'[g] = "deleted"
    BY <2>3 DEF OutcomeIs
  <2> QED
    BY <2>2, <2>3, <2>4, <2>5 DEF JobStatuses
<1> QED
  BY <1>1, <1>2

\* Jobs that keep their fires and their status leave the ledger as it is.
LEMMA TouchedStutters ==
  ASSUME IInv, IInv', UNCHANGED fire, JobIds' = JobIds,
         \A j \in JobIds : jobs'[j].fire = jobs[j].fire /\ jobs'[j].status = jobs[j].status
  PROVE  UNCHANGED outcomes
<1>1. OutcomeIs /\ OutcomeIs'
  BY OutcomeFacts, PTL
<1>2. \A g \in Fires : outcomes'[g] = outcomes[g]
  BY <1>1, KeptOutcome
<1> QED
  BY <1>2, OutcomesMap

\* A fire event is recorded in the ledger.
LEMMA FireRecords ==
  ASSUME IInv, IInv', NEW f \in Fires, Fire(f)
  PROVE  \E g \in Fires : Ledger!Record(g)
<1>1. /\ fire[f] = "absent" /\ fire' = [fire EXCEPT ![f] = "unlabelled"] /\ jobs' = jobs
      /\ fire \in [Fires -> FireStates]
  BY DEF Fire, IInv, Typed
<1>2. \A j \in JobIds : jobs[j].fire # f
  BY <1>1, JobFacts DEF IInv, Agree, JobStatuses, Labels
<1>3. JobIds' = JobIds /\ fire'[f] = "unlabelled" /\ \A g \in Fires \ {f} : fire'[g] = fire[g]
  BY <1>1 DEF JobIds
<1>4. OutcomeIs /\ OutcomeIs'
  BY OutcomeFacts, PTL
<1>5. outcomes[f] = "absent"
  BY <1>1, <1>2, <1>4 DEF OutcomeIs
<1>6. outcomes'[f] = "fired"
  <2>1. \A j \in JobIds' : jobs'[j].fire # f
    BY <1>1, <1>2, <1>3
  <2> QED
    BY <1>3, <1>4, <2>1 DEF OutcomeIs
<1>7. \A g \in Fires \ {f} : outcomes'[g] = outcomes[g]
  BY <1>1, <1>3, <1>4, KeptOutcome
<1>8. outcomes' = [outcomes EXCEPT ![f] = "fired"]
  BY <1>6, <1>7, OutcomesMap
<1> QED
  BY <1>5, <1>8 DEF Ledger!Record, outcomes

\* What the retention takes is settled or not, but neither harmful nor gone.
LEMMA CleanupDeletes ==
  ASSUME IInv, IInv', NEW f \in Fires, InjectionCleanup(f)
  PROVE  \E g \in Fires : Ledger!Delete(g)
<1>1. /\ fire[f] \in Labels \cup {"unlabelled"} /\ fire[f] # "harmful"
  BY Zenon DEF InjectionCleanup
<1>2. /\ JobIds' = JobIds /\ fire'[f] = "deleted"
      /\ \A g \in Fires \ {f} : fire'[g] = fire[g]
      /\ \A j \in JobIds : /\ jobs'[j].fire = jobs[j].fire
                           /\ jobs'[j].status = IF jobs[j].fire = f THEN "deleted" ELSE jobs[j].status
  BY CleanupRows
<1>3. OutcomeIs /\ OutcomeIs'
  BY OutcomeFacts, PTL
<1>4. outcomes[f] \notin {"absent", "harmful", "deleted"} /\ outcomes'[f] = "deleted"
  <2>1. CASE \A j \in JobIds : jobs[j].fire # f
    <3>1. outcomes[f] = IF fire[f] = "unlabelled" THEN "fired" ELSE fire[f]
      BY <1>3, <2>1 DEF OutcomeIs
    <3>2. \A j \in JobIds' : jobs'[j].fire # f
      BY <1>2, <2>1
    <3>3. outcomes'[f] = IF fire'[f] = "unlabelled" THEN "fired" ELSE fire'[f]
      BY <1>3, <3>2 DEF OutcomeIs
    <3> QED
      BY <1>1, <1>2, <3>1, <3>3 DEF Labels
  <2>2. CASE \E j \in JobIds : jobs[j].fire = f
    <3>1. PICK j \in JobIds : jobs[j].fire = f
      BY <2>2
    <3>2. jobs[j].status \in JobStatuses /\ jobs[j].status # "deleted"
      BY <1>1, <3>1, JobFacts DEF IInv, Agree, Labels
    <3>3. /\ jobs[j].status = "pending" => outcomes[f] = "queued"
          /\ jobs[j].status = "failed" => outcomes[f] = "given up"
          /\ jobs[j].status = "done" => outcomes[f] = fire[f]
      BY <1>3, <3>1 DEF OutcomeIs
    <3>4. j \in JobIds' /\ jobs'[j].fire = f /\ jobs'[j].status = "deleted"
      BY <1>2, <3>1
    <3>5. outcomes'[f] = "deleted"
      BY <1>3, <3>4 DEF OutcomeIs
    <3> QED
      BY <1>1, <3>2, <3>3, <3>5 DEF JobStatuses, Labels
  <2> QED
    BY <2>1, <2>2
<1>5. \A g \in Fires \ {f} : outcomes'[g] = outcomes[g]
  BY <1>2, <1>3, KeptOutcome
<1>6. outcomes' = [outcomes EXCEPT ![f] = "deleted"]
  BY <1>4, <1>5, OutcomesMap
<1> QED
  BY <1>4, <1>6 DEF Ledger!Delete, outcomes

\* One transaction queues a set of fires at once.
LEMMA EnqueueFollows ==
  ASSUME IInv, IInv', NEW h \in Enders, Enqueue(h)
  PROVE  (\E S \in SUBSET Fires : Ledger!Queue(S)) \/ UNCHANGED outcomes
<1>1. CASE jobs' = jobs
  <2>1. UNCHANGED fire /\ JobIds' = JobIds
    BY <1>1 DEF Enqueue, JobIds
  <2> QED
    BY <1>1, <2>1, TouchedStutters
<1>2. CASE jobs' # jobs
  <2>1. PICK S : Queues(S)
    BY <1>2, EnqueueQueues
  <2>2. OutcomeIs /\ OutcomeIs' /\ fire' = fire
    <3>1. OutcomeIs /\ OutcomeIs'
      BY OutcomeFacts, PTL
    <3> QED
      BY <3>1 DEF Enqueue
  <2> DEFINE new == (Len(jobs) + 1)..Len(jobs')
  <2>3. /\ JobIds = 1..Len(jobs) /\ Len(jobs) \in Nat
        /\ JobIds' = 1..Len(jobs') /\ Len(jobs') \in Nat
    BY JobFacts DEF Queues, IInv, Typed, JobIds
  <2>4. /\ JobIds \subseteq JobIds' /\ \A j \in JobIds' : j \in JobIds \/ j \in new
        /\ \A j \in new : j \in JobIds'
        /\ \A j \in JobIds : jobs'[j] = jobs[j]
        /\ \A j \in new : jobs'[j].fire \in S /\ jobs'[j].status = "pending"
        /\ \A f \in S : /\ fire[f] = "unlabelled" /\ \A j \in JobIds : jobs[j].fire # f
                        /\ \E j \in new : jobs'[j].fire = f
        /\ S \subseteq Fires
    BY <2>1, <2>3 DEF Queues
  <2> HIDE DEF new
  <2>5. ASSUME NEW f \in S
        PROVE  outcomes[f] = "fired" /\ outcomes'[f] = "queued"
    <3>1. f \in Fires /\ fire[f] = "unlabelled" /\ \A j \in JobIds : jobs[j].fire # f
      BY <2>4
    <3>2. outcomes[f] = "fired"
      BY <2>2, <3>1 DEF OutcomeIs
    <3>3. PICK j \in new : jobs'[j].fire = f
      BY <2>4
    <3>4. j \in JobIds' /\ jobs'[j].status = "pending"
      BY <2>4
    <3>5. outcomes'[f] = "queued"
      BY <2>2, <3>1, <3>3, <3>4 DEF OutcomeIs
    <3> QED
      BY <3>2, <3>5
  <2>6. ASSUME NEW f \in Fires, f \notin S
        PROVE  outcomes'[f] = outcomes[f]
    <3>1. \A j \in JobIds' : j \in JobIds \/ jobs'[j].fire # f
      BY <2>4, <2>6
    <3>2. \A j \in JobIds : jobs'[j] = jobs[j]
      BY <2>4
    <3> QED
      BY <2>2, <2>4, <3>1, <3>2, KeptOutcome
  <2>7. outcomes' = [f \in Fires |-> IF f \in S THEN "queued" ELSE outcomes[f]]
    <3>1. \A f \in Fires : outcomes'[f] = IF f \in S THEN "queued" ELSE outcomes[f]
      BY <2>5, <2>6
    <3> QED
      BY <3>1, OutcomesMap
  <2>8. Ledger!Queue(S) /\ S \in SUBSET Fires
    BY <2>4, <2>5, <2>7 DEF Ledger!Queue, outcomes
  <2> QED
    BY <2>8
<1> QED
  BY <1>1, <1>2

\* The row of one job is written: its fire alone may change in the ledger.
LEMMA RowSettles ==
  ASSUME IInv, IInv', JobIds' = JobIds, NEW j \in JobIds, NEW f \in Fires,
         jobs[j].fire = f, jobs'[j].fire = f, jobs[j].status \in {"pending", "deleted"},
         \A i \in JobIds \ {j} : jobs'[i] = jobs[i],
         \A g \in Fires \ {f} : fire'[g] = fire[g],
         \/ jobs'[j].status = jobs[j].status /\ fire'[f] = fire[f]
         \/ /\ jobs[j].status = "pending"
            /\ \/ jobs'[j].status = "failed"
               \/ jobs'[j].status = "done" /\ fire'[f] \in Labels
  PROVE  Ledger!Settle(f) \/ UNCHANGED outcomes
<1>1. OutcomeIs /\ OutcomeIs'
  BY OutcomeFacts, PTL
<1>2. \A i \in JobIds : jobs'[i].fire = jobs[i].fire
  OBVIOUS
<1>3. ASSUME NEW g \in Fires, g # f
      PROVE  outcomes'[g] = outcomes[g]
  <2>1. \A i \in JobIds : jobs[i].fire = g => jobs'[i].status = jobs[i].status
    BY <1>3
  <2> QED
    BY <1>1, <1>2, <1>3, <2>1, KeptOutcome
<1>4. CASE jobs'[j].status = jobs[j].status /\ fire'[f] = fire[f]
  <2>1. \A i \in JobIds : jobs'[i].status = jobs[i].status
    BY <1>4
  <2>2. outcomes'[f] = outcomes[f]
    BY <1>1, <1>2, <1>4, <2>1, KeptOutcome
  <2>3. UNCHANGED outcomes
    BY <1>3, <2>2, OutcomesMap
  <2> QED
    BY <2>3
<1>5. ASSUME jobs[j].status = "pending",
             \/ jobs'[j].status = "failed"
             \/ jobs'[j].status = "done" /\ fire'[f] \in Labels
      PROVE  Ledger!Settle(f)
  <2>1. outcomes[f] = "queued"
    BY <1>1, <1>5 DEF OutcomeIs
  <2>2. j \in JobIds' /\ jobs'[j].fire = f
    OBVIOUS
  <2>3. /\ jobs'[j].status = "failed" => outcomes'[f] = "given up"
        /\ jobs'[j].status = "done" => outcomes'[f] = fire'[f]
    BY <1>1, <2>2 DEF OutcomeIs
  <2>4. PICK o \in Labels \cup {"given up"} : outcomes'[f] = o
    BY <1>5, <2>3
  <2>5. outcomes' = [outcomes EXCEPT ![f] = o]
    BY <1>3, <2>4, OutcomesMap
  <2> QED
    BY <2>1, <2>5 DEF Ledger!Settle, outcomes
<1> QED
  BY <1>4, <1>5

\* A verdict or the last failure settles a fire; a failure that leaves an attempt is
\* no step of the ledger, and nor is the late write to a job that has been deleted.
LEMMA WorkFollows ==
  ASSUME IInv, IInv', NEW w \in Workers, MarkComplete(w) \/ MarkFailed(w)
  PROVE  (\E f \in Fires : Ledger!Settle(f)) \/ UNCHANGED outcomes
<1> DEFINE j == Head(worker[w].batch)
           f == jobs[j].fire
<1>1. CASE MarkComplete(w)
  <2>1. /\ j \in JobIds /\ jobs[j].status \in {"pending", "deleted"} /\ f \in Fires
        /\ fire[f] = IF jobs[j].status = "deleted" THEN "deleted" ELSE "unlabelled"
        /\ JobIds' = JobIds /\ (\A i \in JobIds \ {j} : jobs'[i] = jobs[i])
        /\ jobs'[j].fire = f
        /\ jobs'[j].status = IF jobs[j].status = "deleted" THEN "deleted" ELSE "done"
        /\ \A g \in Fires \ {f} : fire'[g] = fire[g]
        /\ jobs[j].status = "deleted" => fire'[f] = "deleted"
        /\ jobs[j].status # "deleted" => fire'[f] \in Labels
    BY <1>1, CompleteRows
  <2>2. jobs[j].fire = f
    OBVIOUS
  <2> HIDE DEF j, f
  <2>3. Ledger!Settle(f) \/ UNCHANGED outcomes
    BY <2>1, <2>2, RowSettles
  <2> QED
    BY <2>1, <2>3
<1>2. CASE MarkFailed(w)
  <2>1. /\ j \in JobIds /\ jobs[j].status \in {"pending", "deleted"} /\ f \in Fires
        /\ JobIds' = JobIds /\ (\A i \in JobIds \ {j} : jobs'[i] = jobs[i])
        /\ jobs'[j].fire = f
        /\ jobs[j].status = "deleted" => jobs'[j].status = "deleted"
        /\ jobs[j].status # "deleted" => jobs'[j].status \in {"pending", "failed"}
    BY <1>2, FailedRows
  <2>2. jobs[j].fire = f /\ fire' = fire
    BY <1>2 DEF MarkFailed
  <2> HIDE DEF j, f
  <2>3. Ledger!Settle(f) \/ UNCHANGED outcomes
    BY <2>1, <2>2, RowSettles
  <2> QED
    BY <2>1, <2>3
<1> QED
  BY <1>1, <1>2

\* Every step is one of the ledger or none.
LEMMA StepFollows ==
  IInv /\ IInv' /\ [Next]_vars => [Ledger!Next]_outcomes
<1> SUFFICES ASSUME IInv, IInv', [Next]_vars PROVE [Ledger!Next]_outcomes
  OBVIOUS
<1>1. ASSUME Touched, UNCHANGED fire
      PROVE  UNCHANGED outcomes
  <2>1. JobIds' = JobIds
    BY <1>1, TouchedKeeps
  <2> QED
    BY <1>1, <2>1, TouchedStutters DEF Touched
<1>2. ASSUME UNCHANGED <<fire, jobs>>
      PROVE  UNCHANGED outcomes
  <2>1. JobIds' = JobIds
    BY <1>2 DEF JobIds
  <2> QED
    BY <1>2, <2>1, TouchedStutters
<1>3. ASSUME NEW f \in Fires, Fire(f) \/ InjectionCleanup(f)
      PROVE  [Ledger!Next]_outcomes
  BY <1>3, FireRecords, CleanupDeletes DEF Ledger!Next
<1>4. ASSUME NEW h \in Enders, ReadFires(h)
      PROVE  UNCHANGED outcomes
  BY <1>2, <1>4 DEF ReadFires
<1>5. ASSUME NEW h \in Enders, Enqueue(h)
      PROVE  [Ledger!Next]_outcomes
  BY <1>5, EnqueueFollows DEF Ledger!Next
<1>6. ASSUME NEW h \in Enders, NEW j \in 1..MaxJobs, PopulateWindow(h, j)
      PROVE  UNCHANGED outcomes
  <2>1. UNCHANGED fire
    BY <1>6 DEF PopulateWindow
  <2> QED
    BY <1>1, <1>6, <2>1, WindowTouches
<1>7. ASSUME NEW w \in Workers, StartMaintain(w) \/ Crash(w)
      PROVE  UNCHANGED outcomes
  BY <1>2, <1>7 DEF StartMaintain, Crash
<1>8. ASSUME NEW w \in Workers, WorkerStep(w)
      PROVE  [Ledger!Next]_outcomes
  <2>1. CASE MarkComplete(w) \/ MarkFailed(w)
    BY <2>1, WorkFollows DEF Ledger!Next
  <2>2. CASE Fetch(w) \/ Evaluate(w) \/ StampUseful(w) \/ (\E r \in Rules : Review(w, r)) \/ Finish(w)
    BY <1>2, <2>2, Zenon DEF Fetch, Evaluate, StampUseful, Review, Finish
  <2> QED
    BY <1>8, <2>1, <2>2 DEF WorkerStep
<1>9. ASSUME Tick
      PROVE  UNCHANGED outcomes
  <2>1. UNCHANGED fire
    BY <1>9 DEF Tick
  <2> QED
    BY <1>1, <1>9, <2>1, TickTouches
<1>10. ASSUME UNCHANGED vars
       PROVE  UNCHANGED outcomes
  BY <1>2, <1>10 DEF vars
<1> QED
  BY <1>3, <1>4, <1>5, <1>6, <1>7, <1>8, <1>9, <1>10 DEF Next

\* The jobs implement the ledger: a fire is queued once, settled once, and label and
\* job change together, for all session ends and workers that race, crash and retry.
THEOREM JobsFollowTheLedger == Spec => FollowsLedger
<1>1. Init => Ledger!Init
  <2> SUFFICES ASSUME Init PROVE Ledger!Init
    OBVIOUS
  <2>1. IInv /\ OutcomeIs
    BY StartsRight, OutcomeFacts
  <2>2. JobIds = {} /\ \A f \in Fires : fire[f] = "absent"
    BY DEF Init, JobIds
  <2>3. \A f \in Fires : outcomes[f] = "absent"
    BY <2>1, <2>2 DEF OutcomeIs
  <2>4. outcomes = [f \in Fires |-> "absent"]
    BY <2>3, OutcomesMap
  <2> QED
    BY <2>4 DEF Ledger!Init, outcomes
<1>2. IInv /\ IInv' /\ [Next]_vars => [Ledger!Next]_outcomes
  BY StepFollows
<1> QED
  BY <1>1, <1>2, PosthocInvariant, PTL DEF Spec, FollowsLedger, Ledger!Spec, outcomes
=============================================================================
