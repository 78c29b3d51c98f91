------------------------- MODULE ExtractJobs_proofs -------------------------
(***************************************************************************)
(* Proofs about ExtractJobs, for any number of transcripts and processes,  *)
(* of faults and of appends: the end of a session is forgotten and what    *)
(* was said is skipped in the ways the properties name and in no other, and*)
(* no run takes an offset back.  Worker by worker the invariant says what  *)
(* has happened to the part it has in hand; that only one has anything in  *)
(* hand is the lock's doing.                                               *)
(***************************************************************************)
EXTENDS ExtractJobs, TLAPS

\* Whoever is past its start holds the lock, and nobody else does.
Holding(w) == worker[w].pc \notin {"idle", "spawned"}
OneHolder == \A w \in Workers : Holding(w) <=> lock = w

\* A job file stands for something that is written.
Written(j) == j.mtime <= length[j.transcript]
JobsAreWritten ==
  /\ \A j \in jobs : Written(j)
  /\ \A w \in Workers : \A j \in worker[w].todo : Written(j)
  /\ \A w \in Workers : worker[w].job # NoJob => Written(worker[w].job)

WithinLength ==
  \A t \in Transcripts :
    /\ offset[t] <= length[t] /\ ended[t] <= length[t] /\ compacted[t] <= length[t]
    /\ t \in ending => length[t] > 0

\* What a worker at some place has: a job, a part of it (up to upto, and for a
\* fork beyond from), and, in a drain that goes on, a failure to spare.
Shape(r) ==
  /\ r.pc \notin {"idle", "next"} => r.job \in Jobs
  /\ r.pc \in {"idle", "spawned", "next", "rewrite", "read", "fork"} => r.upto = 0
  /\ r.pc = "extract" => r.upto > 0
  /\ r.mode # "fork" => r.from = 0
  /\ r.mode = "fork" => r.pc \in {"spawned", "fork", "extract", "mark", "markdead", "delete", "drop"}
  /\ r.pc \in {"spawned", "fork", "drop"} => r.mode = "fork"
  /\ r.mode = "fork" /\ r.pc \notin {"spawned", "fork"} => r.upto > 0
  /\ r.mode = "drain" /\ r.pc \in {"rewrite", "read", "extract", "mark", "markdead"} =>
       r.fails < DRAIN_FAILURES

\* What of a transcript need not be read any more.
Dealt(t) == extracted[t] \cup missed[t]

\* The part of a transcript that a worker has in hand: an end of the session
\* beyond it has a job file of its own, or is about to; what is to be recorded
\* as read has been extracted or was missed; and before the job file is deleted
\* the offset is beyond the part.
InHand(w) ==
  LET r == worker[w]
      t == Of(w) IN
  /\ HasRead(w) /\ r.upto > 0 =>
       /\ r.upto <= length[t] /\ r.job.mtime <= r.upto
       /\ ended[t] > r.upto =>
            t \in gone \cup lost \cup ending \/ \E j \in jobs : j.transcript = t /\ j # r.job
       /\ r.pc \notin {"delete", "drop"} => offset[t] <= r.upto
       /\ r.pc = "delete" => r.upto <= offset[t] \/ t \in gone
  /\ r.pc \in {"mark", "markdead"} => ForkIsGone(w) \/ 1..r.upto \subseteq Dealt(t)
  /\ r.pc = "extract" /\ r.mode = "fork" =>
       t \in gone \/ (offset[t] + 1)..r.from \subseteq missed[t] \cup extracted[t]
  /\ r.pc = "fork" =>
       t \in gone \/ offset[t] = 0 \/ (offset[t] + 1)..compacted[t] \subseteq missed[t] \cup extracted[t]

\* The inductive invariant.
IInv ==
  /\ TypeOK /\ OneHolder /\ JobsAreWritten /\ WithinLength
  /\ \A w \in Workers : Shape(worker[w]) /\ InHand(w)
  /\ NothingIsSkipped /\ NoEndIsForgotten

-----------------------------------------------------------------------------
WorkerType == [pc : PCs, mode : Modes, todo : SUBSET Jobs, job : Jobs \cup {NoJob},
               from : 0..MaxLength, upto : 0..MaxLength, fails : 0..DRAIN_FAILURES]

\* What a step of a worker does to it, and to the lock: w becomes r.
Moves(w, r) ==
  /\ r \in WorkerType /\ Shape(r)
  /\ worker' = [worker EXCEPT ![w] = r]
  /\ \A j \in r.todo : Written(j)
  /\ r.job # NoJob => Written(r.job)
  /\ IF r.pc \in {"idle", "spawned"}
     THEN lock' = (IF lock = w THEN Nobody ELSE lock)
     ELSE lock' = w /\ lock \in {w, Nobody}

\* It lets go of the job.
Released(w, r) == Moves(w, r) /\ r.pc \in {"idle", "next"}

\* The fields of an idle worker.
LEMMA IdleFields ==
  /\ Idle \in WorkerType
  /\ Idle.pc = "idle" /\ Idle.mode = "list" /\ Idle.todo = {} /\ Idle.job = NoJob
  /\ Idle.from = 0 /\ Idle.upto = 0 /\ Idle.fails = 0
  BY ExtractAssumption DEF WorkerType, Idle, PCs, Modes

\* An idle worker has no job.
LEMMA IdleShape == Shape(Idle)
  BY IdleFields DEF Shape

\* The record of a worker.
LEMMA WorkerIsTyped ==
  ASSUME TypeOK, NEW w \in Workers
  PROVE worker[w] \in WorkerType
  BY DEF TypeOK, WorkerType

\* What it does after a job leaves nothing of it.
LEMMA ProceedReleases ==
  ASSUME IInv, NEW w \in Workers, lock = w, NEW fails \in 0..DRAIN_FAILURES, Proceed(w, fails),
         worker[w].pc \notin {"idle", "spawned"}
  PROVE \E r : Released(w, r)
<1>1. worker[w] \in WorkerType /\ Shape(worker[w]) /\ (\A j \in worker[w].todo : Written(j))
  BY WorkerIsTyped DEF IInv, JobsAreWritten
<1>2. jobs \subseteq Jobs /\ \A j \in jobs : Written(j)
  BY DEF IInv, TypeOK, JobsAreWritten
<1>3. CASE worker[w].mode = "session"
  <2>1. Return(w)
    BY <1>3 DEF Proceed
  <2>2. Moves(w, Idle)
    BY <2>1, IdleFields, IdleShape DEF Moves, Return, Become
  <2> QED BY <2>2, IdleFields DEF Released
<1>4. CASE worker[w].mode = "fork"
  <2> DEFINE r == [Idle EXCEPT !.pc = "next", !.mode = "drain", !.todo = jobs \ {worker[w].job}]
  <2>1. Become(w, r) /\ UNCHANGED lock
    BY <1>4 DEF Proceed
  <2>0. /\ r \in WorkerType
        /\ r.pc = "next" /\ r.mode = "drain" /\ r.todo \subseteq jobs /\ r.job = NoJob
        /\ r.from = 0 /\ r.upto = 0
    BY <1>2, IdleFields DEF WorkerType, PCs, Modes
  <2>2. r \in WorkerType /\ Shape(r) /\ r.todo \subseteq jobs /\ r.job = NoJob /\ r.pc = "next"
    <3> HIDE DEF r
    <3> QED BY <2>0 DEF Shape
  <2>3. Moves(w, r)
    <3> HIDE DEF r
    <3> QED BY <1>2, <2>1, <2>2 DEF Moves, Become
  <2> QED BY <2>2, <2>3 DEF Released
<1>5. CASE worker[w].mode \notin {"session", "fork"}
  <2> DEFINE r == [worker[w] EXCEPT !.pc = "next", !.job = NoJob, !.upto = 0, !.fails = fails]
  <2>1. Become(w, r) /\ UNCHANGED lock
    BY <1>5 DEF Proceed
  <2>0. /\ r \in WorkerType
        /\ r.pc = "next" /\ r.mode = worker[w].mode /\ r.todo = worker[w].todo /\ r.job = NoJob
        /\ r.from = 0 /\ r.upto = 0
    <3>1. worker[w] \in WorkerType /\ 0 \in 0..MaxLength /\ worker[w].from = 0
      BY <1>1, <1>5, ExtractAssumption DEF Shape
    <3> QED BY <3>1 DEF WorkerType, PCs
  <2>2. r \in WorkerType /\ Shape(r) /\ r.todo = worker[w].todo /\ r.job = NoJob /\ r.pc = "next"
    <3> HIDE DEF r
    <3> QED BY <1>5, <2>0 DEF Shape
  <2>3. Moves(w, r)
    <3> HIDE DEF r
    <3> QED BY <1>1, <2>1, <2>2 DEF Moves, Become
  <2> QED BY <2>2, <2>3 DEF Released
<1> QED BY <1>3, <1>4, <1>5

\* A worker that is past its start holds the lock.
LEMMA HolderHasLock ==
  ASSUME IInv, NEW w \in Workers, worker[w].pc \notin {"idle", "spawned"}
  PROVE lock = w
  BY DEF IInv, OneHolder, Holding

\* A worker that only goes on to the next step of its job.
LEMMA GoToMoves ==
  ASSUME IInv, NEW w \in Workers, worker[w].pc \notin {"idle", "spawned"}, UNCHANGED lock,
         NEW pc \in {"read", "mark", "markdead", "delete", "drop"}, GoTo(w, pc),
         worker[w].pc \in {"rewrite", "read", "extract", "mark", "markdead"},
         pc = "read" => worker[w].pc = "rewrite", pc = "drop" => worker[w].mode = "fork"
  PROVE \E r : Moves(w, r)
<1> DEFINE r == [worker[w] EXCEPT !.pc = pc]
<1>1. worker[w] \in WorkerType /\ Shape(worker[w])
  BY WorkerIsTyped DEF IInv
<1>2. /\ r \in WorkerType
      /\ r.pc = pc /\ r.mode = worker[w].mode /\ r.todo = worker[w].todo /\ r.job = worker[w].job
      /\ r.from = worker[w].from /\ r.upto = worker[w].upto /\ r.fails = worker[w].fails
  BY <1>1 DEF WorkerType, PCs
<1>3. /\ \A j \in worker[w].todo : Written(j)
      /\ worker[w].job # NoJob => Written(worker[w].job)
  BY DEF IInv, JobsAreWritten
<1>4. Become(w, r)
  BY DEF GoTo
<1> HIDE DEF r
<1>5. Shape(r)
  BY <1>1, <1>2 DEF Shape
<1>6. Moves(w, r)
  BY <1>2, <1>3, <1>4, <1>5, HolderHasLock DEF Moves, Become
<1> QED BY <1>6

\* A worker becomes idle, and lets go of the lock if it has it.
LEMMA IdleMoves ==
  ASSUME IInv, NEW w \in Workers, Become(w, Idle), lock' = IF lock = w THEN Nobody ELSE lock
  PROVE \E r : Released(w, r)
<1>1. Moves(w, Idle)
  BY IdleFields, IdleShape DEF Moves, Become
<1> QED BY <1>1, IdleFields DEF Released

\* A job file of the present end of a transcript.
LEMMA JobFileIsWritten ==
  ASSUME IInv, NEW t \in Transcripts, length[t] > 0
  PROVE JobFile(t, length[t]) \in Jobs /\ Written(JobFile(t, length[t]))
<1>1. length[t] \in Positions
  BY ExtractAssumption DEF IInv, TypeOK, Positions
<1> QED BY <1>1 DEF JobFile, Jobs, Written, Positions

\* A transcript with a job has something in it.
LEMMA JobIsOfSomething ==
  ASSUME IInv, NEW j \in Jobs, Written(j)
  PROVE j.transcript \in Transcripts /\ length[j.transcript] > 0
  BY ExtractAssumption DEF IInv, TypeOK, Jobs, Written, Positions

\* A worker takes a job from its list.
LEMMA TakeMoves ==
  ASSUME IInv, NEW w \in Workers, NEW j \in Jobs, Take(w, j)
  PROVE \E r : Moves(w, r)
<1> DEFINE t == j.transcript
           taken == [worker[w] EXCEPT !.todo = @ \ {j}, !.job = j]
<1>1. /\ worker[w] \in WorkerType /\ Shape(worker[w]) /\ worker[w].pc = "next" /\ lock = w
      /\ j \in worker[w].todo /\ ~GaveUp(w) /\ UNCHANGED lock
  BY WorkerIsTyped, HolderHasLock DEF IInv, Take, At
<1>2. Written(j) /\ \A i \in worker[w].todo : Written(i)
  BY <1>1 DEF IInv, JobsAreWritten
<1>3. worker[w].mode = "drain" => worker[w].fails < DRAIN_FAILURES
  BY <1>1, ExtractAssumption DEF GaveUp, WorkerType
<1>4. worker[w].mode # "fork" /\ worker[w].from = 0 /\ worker[w].upto = 0
  BY <1>1 DEF Shape
<1>5. /\ taken \in WorkerType
      /\ taken.pc = "next" /\ taken.mode = worker[w].mode /\ taken.todo = worker[w].todo \ {j}
      /\ taken.job = j /\ taken.from = 0 /\ taken.upto = 0 /\ taken.fails = worker[w].fails
  BY <1>1, <1>4 DEF WorkerType
<1>6. ASSUME NEW r \in WorkerType, NEW job \in Jobs, Written(job), Become(w, r),
             r.pc \in {"read", "rewrite"}, r.mode = worker[w].mode, r.todo = worker[w].todo \ {j},
             r.job = job, r.from = 0, r.upto = 0, r.fails = worker[w].fails
      PROVE \E q : Moves(w, q)
  <2>1. Shape(r)
    BY <1>3, <1>4, <1>6 DEF Shape
  <2>2. Moves(w, r)
    BY <1>1, <1>2, <1>6, <2>1 DEF Moves, Become
  <2> QED BY <2>2
<1>7. CASE Refreshes(w, j)
  <2> DEFINE job == JobFile(t, length[t])
             r == [taken EXCEPT !.pc = "rewrite", !.job = job]
  <2>1. Become(w, r)
    BY <1>7 DEF Take
  <2>2. job \in Jobs /\ Written(job)
    BY <1>2, JobIsOfSomething, JobFileIsWritten
  <2>3. /\ r \in WorkerType
        /\ r.pc = "rewrite" /\ r.mode = worker[w].mode /\ r.todo = worker[w].todo \ {j}
        /\ r.job = job /\ r.from = 0 /\ r.upto = 0 /\ r.fails = worker[w].fails
    <3> HIDE DEF taken, job
    <3> QED BY <1>5, <2>2 DEF WorkerType, PCs
  <2> HIDE DEF r, job
  <2> QED BY <1>6, <2>1, <2>2, <2>3
<1>8. CASE ~Refreshes(w, j)
  <2> DEFINE r == [taken EXCEPT !.pc = "read"]
  <2>1. Become(w, r)
    BY <1>8 DEF Take
  <2>3. /\ r \in WorkerType
        /\ r.pc = "read" /\ r.mode = worker[w].mode /\ r.todo = worker[w].todo \ {j}
        /\ r.job = j /\ r.from = 0 /\ r.upto = 0 /\ r.fails = worker[w].fails
    <3> HIDE DEF taken
    <3> QED BY <1>5 DEF WorkerType, PCs
  <2> HIDE DEF r
  <2> QED BY <1>2, <1>6, <2>1, <2>3
<1> QED BY <1>7, <1>8

\* A worker drops a job from its list.
LEMMA SkipMoves ==
  ASSUME IInv, NEW w \in Workers, NEW j \in Jobs, Skip(w, j) \/ Quarantine(w, j)
  PROVE \E r : Moves(w, r)
<1> DEFINE r == [worker[w] EXCEPT !.todo = @ \ {j}]
<1>1. /\ worker[w] \in WorkerType /\ Shape(worker[w]) /\ worker[w].pc = "next" /\ lock = w
      /\ Become(w, r) /\ UNCHANGED lock
  BY WorkerIsTyped, HolderHasLock DEF IInv, Skip, Quarantine, At
<1>2. /\ \A i \in worker[w].todo : Written(i)
      /\ worker[w].job # NoJob => Written(worker[w].job)
  BY DEF IInv, JobsAreWritten
<1>3. /\ r \in WorkerType
      /\ r.pc = worker[w].pc /\ r.mode = worker[w].mode /\ r.todo = worker[w].todo \ {j}
      /\ r.job = worker[w].job /\ r.from = worker[w].from /\ r.upto = worker[w].upto
      /\ r.fails = worker[w].fails
  BY <1>1 DEF WorkerType
<1> HIDE DEF r
<1>4. Moves(w, r)
  BY <1>1, <1>2, <1>3 DEF Moves, Become, Shape
<1> QED BY <1>4

\* The failures a drain counts stay within its limit.
LEMMA FailuresAreBounded ==
  ASSUME IInv, NEW w \in Workers, worker[w].pc \in {"read", "extract", "mark", "markdead"}
  PROVE Failures(w) \in 0..DRAIN_FAILURES /\ 0 \in 0..DRAIN_FAILURES
  BY WorkerIsTyped, ExtractAssumption DEF IInv, Failures, Shape, WorkerType

\* A worker reads a transcript, or finds it too long.
LEMMA ReadMoves ==
  ASSUME IInv, NEW w \in Workers, Read(w)
  PROVE \E r : Moves(w, r)
<1> DEFINE t == Of(w)
           r == [worker[w] EXCEPT !.pc = "extract", !.upto = length[t]]
<1>1. /\ worker[w] \in WorkerType /\ Shape(worker[w]) /\ worker[w].pc = "read" /\ lock = w
  BY WorkerIsTyped, HolderHasLock DEF IInv, Read, At
<1>2. CASE TooLong(t)
  BY <1>1, <1>2, FailuresAreBounded, ProceedReleases DEF Read, Released
<1>3. CASE ~TooLong(t)
  <2>1. Become(w, r) /\ UNCHANGED lock
    BY <1>3 DEF Read
  <2>2. /\ \A j \in worker[w].todo : Written(j)
        /\ worker[w].job \in Jobs /\ Written(worker[w].job)
    BY <1>1, ExtractAssumption DEF IInv, JobsAreWritten, Shape
  <2>3. length[t] > 0 /\ length[t] \in 0..MaxLength
    BY <2>2, JobIsOfSomething DEF Of, IInv, TypeOK
  <2>4. /\ r \in WorkerType
        /\ r.pc = "extract" /\ r.mode = worker[w].mode /\ r.todo = worker[w].todo
        /\ r.job = worker[w].job /\ r.from = worker[w].from /\ r.upto = length[t]
        /\ r.fails = worker[w].fails
    BY <1>1, <2>3 DEF WorkerType, PCs
  <2> HIDE DEF r, t
  <2>5. Shape(r)
    BY <1>1, <2>2, <2>3, <2>4 DEF Shape
  <2>6. Moves(w, r)
    BY <1>1, <2>1, <2>2, <2>4, <2>5 DEF Moves, Become
  <2> QED BY <2>6
<1> QED BY <1>2, <1>3

\* The runner of a fork begins, or goes on to the drain.
LEMMA StartForkMoves ==
  ASSUME IInv, NEW w \in Workers, StartFork(w)
  PROVE \E r : Moves(w, r) /\ r.pc \in {"next", "fork"}
<1> DEFINE drain == [Idle EXCEPT !.pc = "next", !.mode = "drain", !.todo = jobs \ {worker[w].job}]
           r == [worker[w] EXCEPT !.pc = "fork"]
<1>1. /\ worker[w] \in WorkerType /\ Shape(worker[w]) /\ worker[w].pc = "spawned"
      /\ lock = Nobody /\ lock' = w /\ (Become(w, drain) \/ Become(w, r))
  BY WorkerIsTyped DEF IInv, StartFork, At, Acquire, GoTo
<1>2. jobs \subseteq Jobs /\ \A j \in jobs : Written(j)
  BY DEF IInv, TypeOK, JobsAreWritten
<1>3. CASE Become(w, drain)
  <2>2. /\ drain \in WorkerType
        /\ drain.pc = "next" /\ drain.mode = "drain" /\ drain.todo \subseteq jobs
        /\ drain.job = NoJob /\ drain.from = 0 /\ drain.upto = 0
    BY <1>2, IdleFields DEF WorkerType, PCs, Modes
  <2> HIDE DEF drain
  <2>3. Moves(w, drain)
    BY <1>1, <1>2, <1>3, <2>2 DEF Moves, Become, Shape
  <2> QED BY <2>2, <2>3
<1>4. CASE Become(w, r)
  <2>2. /\ \A j \in worker[w].todo : Written(j)
        /\ worker[w].job \in Jobs /\ Written(worker[w].job)
    BY <1>1, ExtractAssumption DEF IInv, JobsAreWritten, Shape
  <2>4. /\ r \in WorkerType
        /\ r.pc = "fork" /\ r.mode = worker[w].mode /\ r.todo = worker[w].todo
        /\ r.job = worker[w].job /\ r.from = worker[w].from /\ r.upto = worker[w].upto
        /\ r.fails = worker[w].fails
    BY <1>1 DEF WorkerType, PCs
  <2> HIDE DEF r
  <2>5. Shape(r)
    BY <1>1, <2>2, <2>4 DEF Shape
  <2>6. Moves(w, r)
    BY <1>1, <1>4, <2>2, <2>4, <2>5 DEF Moves, Become
  <2> QED BY <2>4, <2>6
<1> QED BY <1>1, <1>3, <1>4

\* The session is forked.
LEMMA ForkSessionMoves ==
  ASSUME IInv, NEW w \in Workers, ForkSession(w)
  PROVE \E r : Moves(w, r)
<1> DEFINE t == Of(w)
           r == [worker[w] EXCEPT !.pc = "extract", !.from = compacted[t], !.upto = length[t]]
<1>1. /\ worker[w] \in WorkerType /\ Shape(worker[w]) /\ worker[w].pc = "fork" /\ lock = w
      /\ Become(w, r) /\ UNCHANGED lock
  BY WorkerIsTyped, HolderHasLock DEF IInv, ForkSession, At
<1>2. /\ \A j \in worker[w].todo : Written(j)
      /\ worker[w].job \in Jobs /\ Written(worker[w].job)
  BY <1>1, ExtractAssumption DEF IInv, JobsAreWritten, Shape
<1>3. length[t] > 0 /\ length[t] \in 0..MaxLength /\ compacted[t] \in 0..MaxLength
  BY <1>2, JobIsOfSomething DEF Of, IInv, TypeOK
<1>4. /\ r \in WorkerType
      /\ r.pc = "extract" /\ r.mode = worker[w].mode /\ r.todo = worker[w].todo
      /\ r.job = worker[w].job /\ r.upto = length[t] /\ r.fails = worker[w].fails
  BY <1>1, <1>3 DEF WorkerType, PCs
<1> HIDE DEF r, t
<1>5. Shape(r)
  BY <1>1, <1>2, <1>3, <1>4 DEF Shape
<1>6. Moves(w, r)
  BY <1>1, <1>2, <1>4, <1>5 DEF Moves, Become
<1> QED BY <1>6

\* Whatever a worker does, it is what Moves says.
LEMMA StepMoves ==
  ASSUME IInv, NEW w \in Workers, Step(w) \/ Crash(w)
  PROVE \E r : Moves(w, r)
<1>1. CASE Finish(w)
  BY <1>1, IdleMoves, HolderHasLock DEF Finish, Return, At, Released
<1>2. CASE \E j \in Jobs : Skip(w, j) \/ Quarantine(w, j) \/ Take(w, j)
  BY <1>2, SkipMoves, TakeMoves
<1>3. CASE Rewrite(w)
  BY <1>3, GoToMoves DEF Rewrite, At
<1>4. CASE Read(w)
  BY <1>4, ReadMoves
<1>5. CASE ReadNothing(w)
  BY <1>5, GoToMoves DEF ReadNothing, At
<1>6. CASE ForkDeferred(w)
  <2>1. lock # w
    BY <1>6 DEF ForkDeferred, At, IInv, OneHolder, Holding
  <2> QED BY <1>6, <2>1, IdleMoves DEF ForkDeferred, Released
<1>7. CASE StartFork(w)
  BY <1>7, StartForkMoves
<1>8. CASE Unavailable(w)
  <2>1. worker[w].pc = "extract" /\ lock = w /\ (Return(w) \/ Proceed(w, 0))
    BY <1>8, HolderHasLock DEF Unavailable, At
  <2> QED BY <2>1, IdleMoves, ProceedReleases, FailuresAreBounded DEF Return, Released
<1>9. CASE Raises(w) \/ Discards(w) \/ LeftPending(w)
  <2>1. worker[w].pc = "extract" /\ lock = w
    BY <1>9, HolderHasLock DEF Raises, Discards, LeftPending, At
  <2>2. worker[w].fails \in 0..DRAIN_FAILURES
    BY WorkerIsTyped DEF IInv, WorkerType
  <2> QED BY <1>9, <2>1, <2>2, ProceedReleases, FailuresAreBounded DEF Raises, Discards,
             LeftPending, Released
<1>10. CASE Settled(w)
  BY <1>10, GoToMoves DEF Settled, At
<1>11. CASE Fails(w)
  <2>1. worker[w].pc = "extract" /\ lock = w
    BY <1>11, HolderHasLock DEF Fails, At
  <2>2. (GoTo(w, "markdead") /\ UNCHANGED lock) \/ Proceed(w, 0)
    BY <1>11 DEF Fails
  <2> QED BY <2>1, <2>2, GoToMoves, ProceedReleases, FailuresAreBounded DEF Released
<1>12. CASE Mark(w)
  <2>1. worker[w].pc \in {"mark", "markdead"} /\ lock = w
    BY <1>12, HolderHasLock DEF Mark
  <2>2. (GoTo(w, "delete") /\ UNCHANGED lock) \/ Proceed(w, 0)
    BY <1>12 DEF Mark
  <2>3. 0 \in 0..DRAIN_FAILURES
    BY ExtractAssumption
  <2> QED BY <2>1, <2>2, <2>3, GoToMoves, ProceedReleases DEF Released
<1>13. CASE DeleteJob(w)
  <2>3. 0 \in 0..DRAIN_FAILURES
    BY ExtractAssumption
  <2> QED BY <1>13, <2>3, HolderHasLock, ProceedReleases DEF DeleteJob, At, Released
<1>15. CASE MarkFails(w)
  <2>1. worker[w].pc \in {"mark", "markdead"} /\ lock = w
    BY <1>15, HolderHasLock DEF MarkFails
  <2>2. CASE worker[w].mode = "fork"
    BY <1>15, <2>1, <2>2, GoToMoves DEF MarkFails
  <2>3. CASE worker[w].mode # "fork"
    <3>1. Proceed(w, Failures(w))
      BY <1>15, <2>3 DEF MarkFails
    <3>2. Failures(w) \in 0..DRAIN_FAILURES
      BY <2>1, FailuresAreBounded
    <3> QED BY <2>1, <3>1, <3>2, ProceedReleases DEF Released
  <2> QED BY <2>2, <2>3
<1>16. CASE ForkSession(w)
  BY <1>16, ForkSessionMoves
<1>14. CASE Crash(w)
  BY <1>14, IdleMoves DEF Crash, Released
<1> QED
  BY <1>1, <1>2, <1>3, <1>4, <1>5, <1>6, <1>7, <1>8, <1>9, <1>10, <1>11, <1>12, <1>13, <1>14,
     <1>15, <1>16 DEF Step

-----------------------------------------------------------------------------
\* What a step of a worker leaves of the job files.
LEMMA StepJobs ==
  ASSUME IInv, NEW w \in Workers, Step(w) \/ Crash(w)
  PROVE  /\ UNCHANGED <<length, compacted, gone, claimed, ending, ended>>
         /\ jobs' \subseteq Jobs /\ \A j \in jobs' : Written(j)
<1>1. jobs \subseteq Jobs /\ \A j \in jobs : Written(j)
  BY DEF IInv, TypeOK, JobsAreWritten
<1>2. UNCHANGED <<length, compacted, gone, claimed, ending, ended>>
  BY DEF Step, Crash, Finish, Skip, Quarantine, Take, Rewrite, Read, ReadNothing, ForkDeferred,
     StartFork, ForkSession,
         Unavailable, Raises, Discards, LeftPending, Settled, Fails, Mark, MarkFails, DeleteJob,
         files, history
<1>3. CASE Rewrite(w)
  <2>1. worker[w].job \in Jobs /\ Written(worker[w].job)
    BY <1>3, ExtractAssumption DEF IInv, Rewrite, At, Shape, JobsAreWritten
  <2> QED BY <1>1, <1>2, <1>3, <2>1 DEF Rewrite
<1>4. CASE ~Rewrite(w)
  <2>1. jobs' \subseteq jobs
    BY <1>4 DEF Step, Crash, Finish, Skip, Quarantine, Take, Read, ReadNothing, ForkDeferred,
       StartFork, ForkSession,
         Unavailable, Raises, Discards, LeftPending, Settled, Fails, Mark, MarkFails, DeleteJob,
         files, history
  <2> QED BY <1>1, <1>2, <2>1
<1> QED BY <1>3, <1>4

\* A step of that form keeps the lock, the jobs and the places.
LEMMA MovesControl ==
  ASSUME IInv, NEW w \in Workers, NEW r, Moves(w, r), UNCHANGED length,
         \A j \in jobs' : Written(j)
  PROVE  /\ worker' \in [Workers -> WorkerType] /\ lock' \in Workers \cup {Nobody}
         /\ OneHolder' /\ JobsAreWritten'
         /\ \A v \in Workers : Shape(worker'[v])
<1>1. /\ worker \in [Workers -> WorkerType] /\ lock \in Workers \cup {Nobody} /\ Nobody \notin Workers
  BY ExtractAssumption DEF IInv, TypeOK, WorkerType
<1>2. /\ worker' = [worker EXCEPT ![w] = r] /\ r \in WorkerType /\ Shape(r)
      /\ IF r.pc \in {"idle", "spawned"}
         THEN lock' = (IF lock = w THEN Nobody ELSE lock)
         ELSE lock' = w /\ lock \in {w, Nobody}
  BY DEF Moves
<1>3. worker'[w] = r /\ \A v \in Workers \ {w} : worker'[v] = worker[v]
  BY <1>1, <1>2
<1>4. worker' \in [Workers -> WorkerType] /\ lock' \in Workers \cup {Nobody}
  BY <1>1, <1>2
<1>5. \A v \in Workers : Shape(worker'[v])
  BY <1>2, <1>3 DEF IInv
<1>6. OneHolder'
  BY <1>1, <1>2, <1>3 DEF IInv, OneHolder, Holding
<1>7. JobsAreWritten'
  BY <1>3 DEF IInv, JobsAreWritten, Moves, Written
<1> QED BY <1>4, <1>5, <1>6, <1>7

\* A step that another worker cannot be disturbed by, since it holds the lock.
LEMMA OtherHolds ==
  ASSUME IInv, NEW w \in Workers, NEW v \in Workers, v # w, Step(w) \/ Crash(w),
         worker[v].pc \notin {"idle", "spawned"}
  PROVE  worker'[v] = worker[v] /\ UNCHANGED <<length, compacted, gone, ending, offset, jobs, extracted,
                                               missed, ended, lost>>
<1>1. lock = v /\ worker[w].pc \in {"idle", "spawned"} /\ lock # Nobody
  BY ExtractAssumption DEF IInv, OneHolder, Holding
<1>2. ForkDeferred(w) \/ Crash(w)
  BY <1>1 DEF Step, Finish, Skip, Quarantine, Take, Rewrite, Read, ReadNothing, StartFork,
     ForkSession, Acquire, At,
         Unavailable, Raises, Discards, LeftPending, Settled, Fails, Mark, MarkFails, DeleteJob
<1>3. /\ UNCHANGED <<length, compacted, gone, ending, offset, jobs, extracted, missed, ended, lost>>
      /\ worker' = [worker EXCEPT ![w] = Idle]
  BY <1>1, <1>2 DEF ForkDeferred, Crash, At, Become, files, history
<1>4. worker \in [Workers -> WorkerType]
  BY DEF IInv, TypeOK, WorkerType
<1> QED BY <1>3, <1>4

\* What a step of a worker adds to the history.
LEMMA StepHistory ==
  ASSUME IInv, NEW w \in Workers, Step(w) \/ Crash(w)
  PROVE  /\ \/ extracted' = extracted
            \/ Of(w) \in Transcripts /\ \E S \in SUBSET Positions : Extracts(Of(w), S)
         /\ \/ missed' = missed
            \/ Of(w) \in Transcripts /\ \E S \in SUBSET Positions : Misses(Of(w), S)
         /\ lost' = lost \/ \E t \in Transcripts : lost' = lost \cup {t}
<1> DEFINE t == Of(w)
<1>1. worker[w] \in WorkerType /\ Shape(worker[w]) /\ MaxLength \in Nat
  BY WorkerIsTyped, ExtractAssumption DEF IInv
<1>2. worker[w].pc \notin {"idle", "next"} => t \in Transcripts
  BY <1>1 DEF Shape, Jobs, Of
<1>3. t \in Transcripts =>
        /\ length[t] \in 0..MaxLength /\ offset[t] \in 0..MaxLength /\ compacted[t] \in 0..MaxLength
  BY DEF IInv, TypeOK
<1>4. worker[w].upto \in 0..MaxLength
  BY <1>1 DEF WorkerType
<1>5. t \in Transcripts => Seen(w) \subseteq Positions
  BY <1>1, <1>3, <1>4 DEF Seen, Positions
<1>6. t \in Transcripts =>
        1..compacted[t] \subseteq Positions /\ (worker[w].upto + 1)..RecordedOffset(w) \subseteq Positions
  BY <1>1, <1>3, <1>4 DEF Positions, RecordedOffset
<1>7. extracted' = extracted \/ (t \in Transcripts /\ \E S \in SUBSET Positions : Extracts(t, S))
  <2>1. CASE Settled(w)
    BY <1>2, <1>5, <2>1 DEF Settled, At
  <2>2. CASE Fails(w)
    <3>1. t \in Transcripts /\ Seen(w) \subseteq Positions
      BY <1>2, <1>5, <2>2 DEF Fails, At
    <3>2. extracted' = extracted \/ \E S \in SUBSET Seen(w) : Extracts(t, Seen(w) \ S)
      BY <2>2 DEF Fails
    <3> QED BY <3>1, <3>2
  <2>3. CASE ~Settled(w) /\ ~Fails(w)
    BY <2>3 DEF Step, Crash, Finish, Skip, Quarantine, Take, Rewrite, Read, ReadNothing, history,
       ForkDeferred, StartFork, ForkSession, Unavailable, Raises, Discards, LeftPending, Mark,
       MarkFails,
       DeleteJob
  <2> QED BY <2>1, <2>2, <2>3
<1>8. missed' = missed \/ (t \in Transcripts /\ \E S \in SUBSET Positions : Misses(t, S))
  <2>1. CASE ForkSession(w)
    BY <1>2, <1>6, <2>1 DEF ForkSession, At
  <2>2. CASE Fails(w)
    <3>1. t \in Transcripts /\ Seen(w) \subseteq Positions
      BY <1>2, <1>5, <2>2 DEF Fails, At
    <3>2. missed' = missed \/ \E S \in SUBSET Seen(w) : Misses(t, S)
      BY <2>2 DEF Fails
    <3> QED BY <3>1, <3>2
  <2>3. CASE Mark(w)
    BY <1>2, <1>6, <2>3 DEF Mark
  <2>4. CASE ~ForkSession(w) /\ ~Fails(w) /\ ~Mark(w)
    BY <2>4 DEF Step, Crash, Finish, Skip, Quarantine, Take, Rewrite, Read, ReadNothing, history,
       ForkDeferred, StartFork, Unavailable, Raises, Discards, LeftPending, Settled, MarkFails,
       DeleteJob
  <2> QED BY <2>1, <2>2, <2>3, <2>4
<1>9. lost' = lost \/ \E u \in Transcripts : lost' = lost \cup {u}
  <2>1. CASE Discards(w) \/ Mark(w) \/ DeleteJob(w) \/ Crash(w)
    <3>1. lost' = lost \/ (lost' = lost \cup {t} /\ worker[w].pc \notin {"idle", "next"})
      BY <2>1 DEF Discards, Mark, DeleteJob, Crash, At
    <3> QED BY <1>2, <3>1
  <2>2. CASE \E j \in Jobs : Quarantine(w, j)
    BY <2>2 DEF Quarantine, Jobs
  <2>3. CASE ~(Discards(w) \/ Mark(w) \/ DeleteJob(w) \/ Crash(w)) /\ ~ \E j \in Jobs : Quarantine(w, j)
    BY <2>3 DEF Step, Finish, Skip, Take, Rewrite, Read, ReadNothing, history,
       ForkDeferred, StartFork, ForkSession, Unavailable, Raises, LeftPending, Settled, Fails,
       MarkFails
  <2> QED BY <2>1, <2>2, <2>3
<1> QED BY <1>7, <1>8, <1>9

\* The history only grows.
LEMMA HistoryGrows ==
  ASSUME IInv, NEW w \in Workers, Step(w) \/ Crash(w), NEW t \in Transcripts
  PROVE  /\ extracted[t] \subseteq extracted'[t] /\ missed[t] \subseteq missed'[t] /\ lost \subseteq lost'
         /\ Dealt(t) \subseteq Dealt(t)'
<1>1. extracted \in [Transcripts -> SUBSET Positions] /\ missed \in [Transcripts -> SUBSET Positions]
  BY DEF IInv, TypeOK
<1>2. extracted[t] \subseteq extracted'[t]
  BY <1>1, StepHistory DEF Extracts
<1>3. missed[t] \subseteq missed'[t]
  BY <1>1, StepHistory DEF Misses
<1>4. lost \subseteq lost'
  BY StepHistory
<1> QED BY <1>2, <1>3, <1>4 DEF Dealt

\* Only recording it moves an offset.
LEMMA OffsetIsKept ==
  ASSUME NEW w, Step(w) \/ Crash(w), ~Mark(w)
  PROVE  offset' = offset
  BY DEF Step, Crash, Finish, Skip, Quarantine, Take, Rewrite, Read, ReadNothing, ForkDeferred,
     StartFork, ForkSession, Unavailable, Raises, Discards, LeftPending, Settled, Fails, MarkFails,
     DeleteJob

\* A step of a worker keeps the types.
LEMMA StepTypes ==
  ASSUME IInv, NEW w \in Workers, Step(w) \/ Crash(w)
  PROVE  TypeOK'
<1> DEFINE t == Of(w)
<1>1. PICK r : Moves(w, r)
  BY StepMoves
<1>2. worker' \in [Workers -> WorkerType] /\ lock' \in Workers \cup {Nobody}
  BY <1>1, StepJobs, MovesControl
<1>3. /\ UNCHANGED <<length, compacted, gone, claimed, ending, ended>> /\ jobs' \subseteq Jobs
  BY StepJobs
<1>4. worker[w] \in WorkerType /\ Shape(worker[w])
  BY WorkerIsTyped DEF IInv
<1>5. faults' \in 0..MaxFaults
  <2>1. Fault \/ faults' = faults
    BY DEF Step, Crash, Finish, Skip, Quarantine, Take, Rewrite, Read, ReadNothing,
       ForkDeferred, StartFork, ForkSession, Unavailable, Raises, Discards, LeftPending, Settled,
       Fails, Mark, MarkFails, DeleteJob
  <2> QED BY <2>1, ExtractAssumption DEF IInv, TypeOK, Fault
<1>6. lost' \subseteq Transcripts
  BY StepHistory DEF IInv, TypeOK
<1>7. worker[w].pc \notin {"idle", "next"} => t \in Transcripts
  BY <1>4 DEF Shape, Jobs, Of
<1>8. offset' \in [Transcripts -> 0..MaxLength]
  <2>1. CASE Mark(w)
    <3>1. RecordedOffset(w) \in 0..MaxLength
      BY <1>4, <1>7, <2>1 DEF IInv, TypeOK, Mark, RecordedOffset, WorkerType
    <3>2. offset' = offset \/ offset' = [offset EXCEPT ![t] = RecordedOffset(w)]
      BY <2>1 DEF Mark
    <3> QED BY <3>1, <3>2 DEF IInv, TypeOK
  <2>2. CASE ~Mark(w)
    <3>1. offset' = offset
      BY <2>2, OffsetIsKept
    <3> QED BY <3>1 DEF IInv, TypeOK
  <2> QED BY <2>1, <2>2
<1>9. attempts' \in [Transcripts -> 0..MAX_INGEST_RETRIES]
  <2>1. CASE Mark(w)
    <3>1. attempts' = attempts \/ attempts' = [attempts EXCEPT ![t] = 0]
      BY <2>1 DEF Mark
    <3> QED BY <3>1, ExtractAssumption DEF IInv, TypeOK
  <2>2. CASE Fails(w)
    <3>1. PICK counted \in {attempts[t], 0} :
            attempts' = [attempts EXCEPT ![t] = IF Dead(counted) THEN counted ELSE counted + 1]
      BY <2>2 DEF Fails
    <3>2. t \in Transcripts /\ attempts[t] \in 0..MAX_INGEST_RETRIES
      BY <1>7, <2>2 DEF Fails, At, IInv, TypeOK
    <3>3. (IF Dead(counted) THEN counted ELSE counted + 1) \in 0..MAX_INGEST_RETRIES
      BY <3>1, <3>2, ExtractAssumption DEF Dead
    <3> QED BY <3>1, <3>3 DEF IInv, TypeOK
  <2>3. CASE ~Mark(w) /\ ~Fails(w)
    <3>1. attempts' = attempts
      BY <2>3 DEF Step, Crash, Finish, Skip, Quarantine, Take, Rewrite, Read, ReadNothing,
         ForkDeferred, StartFork, ForkSession, Unavailable, Raises, Discards, LeftPending,
         Settled, MarkFails, DeleteJob
    <3> QED BY <3>1 DEF IInv, TypeOK
  <2> QED BY <2>1, <2>2, <2>3
<1>10. extracted' \in [Transcripts -> SUBSET Positions]
  BY StepHistory DEF IInv, TypeOK, Extracts
<1>11. missed' \in [Transcripts -> SUBSET Positions]
  BY StepHistory DEF IInv, TypeOK, Misses
<1> QED
  BY <1>2, <1>3, <1>5, <1>6, <1>8, <1>9, <1>10, <1>11 DEF IInv, TypeOK, WorkerType

-----------------------------------------------------------------------------
\* No offset goes beyond the end of its transcript.
LEMMA StepWithinLength ==
  ASSUME IInv, NEW w \in Workers, Step(w) \/ Crash(w)
  PROVE  WithinLength'
<1> DEFINE t == Of(w)
<1>1. UNCHANGED <<length, compacted, gone, claimed, ending, ended>>
  BY StepJobs
<1>2. CASE Mark(w)
  <2>1. /\ worker[w] \in WorkerType /\ worker[w].job \in Jobs /\ InHand(w)
        /\ worker[w].pc \in {"mark", "markdead"} /\ t \in Transcripts
    BY <1>2, WorkerIsTyped DEF IInv, Mark, Shape, Of, Jobs
  <2>2. length[t] \in Nat /\ worker[w].upto \in Nat
    BY <2>1, ExtractAssumption DEF IInv, TypeOK, WorkerType
  <2>3. worker[w].upto <= length[t]
    BY <2>1, <2>2 DEF InHand, HasRead
  <2>4. RecordedOffset(w) <= length[t]
    BY <2>2, <2>3 DEF RecordedOffset
  <2>5. offset' = offset \/ offset' = [offset EXCEPT ![t] = RecordedOffset(w)]
    BY <1>2 DEF Mark
  <2>6. offset \in [Transcripts -> 0..MaxLength]
    BY DEF IInv, TypeOK
  <2>7. \A u \in Transcripts : offset'[u] <= length[u]
    BY <2>4, <2>5, <2>6 DEF IInv, WithinLength
  <2> QED BY <1>1, <2>7 DEF IInv, WithinLength
<1>3. CASE ~Mark(w)
  <2>1. offset' = offset
    BY <1>3, OffsetIsKept
  <2> QED BY <1>1, <2>1 DEF IInv, WithinLength
<1> QED BY <1>2, <1>3

\* Of the worker of a step: once it lets go of the job there is nothing in hand.
LEMMA NothingInHand ==
  ASSUME IInv, NEW w \in Workers,
         (\E r : Released(w, r)) \/ worker'[w].pc \in {"idle", "spawned", "next", "rewrite", "read"}
  PROVE  InHand(w)'
<1>1. worker'[w].pc \in {"idle", "spawned", "next", "rewrite", "read"}
  <2>1. ASSUME NEW r, Released(w, r)
        PROVE worker'[w].pc \in {"idle", "spawned", "next", "rewrite", "read"}
    <3>1. worker' = [worker EXCEPT ![w] = r] /\ r.pc \in {"idle", "next"}
      BY <2>1 DEF Released, Moves
    <3> QED BY <3>1 DEF IInv, TypeOK
  <2> QED BY <2>1
<1> QED BY <1>1 DEF InHand, HasRead

\* A worker that goes on keeps its job and its part.
LEMMA GoToFields ==
  ASSUME IInv, NEW w \in Workers, NEW pc \in PCs, GoTo(w, pc)
  PROVE  /\ worker'[w].pc = pc /\ worker'[w].mode = worker[w].mode /\ worker'[w].job = worker[w].job
         /\ worker'[w].from = worker[w].from /\ worker'[w].upto = worker[w].upto
<1>1. worker \in [Workers -> WorkerType] /\ worker[w] \in WorkerType
  BY WorkerIsTyped DEF IInv, TypeOK, WorkerType
<1>2. worker'[w] = [worker[w] EXCEPT !.pc = pc]
  BY <1>1 DEF GoTo, Become
<1> QED BY <1>1, <1>2 DEF WorkerType

\* The transcript and the part of a worker that has begun are of their types.
LEMMA PartIsTyped ==
  ASSUME IInv, NEW w \in Workers, worker[w].pc \notin {"idle", "next"}
  PROVE  /\ Of(w) \in Transcripts /\ worker[w].job \in Jobs /\ Written(worker[w].job)
         /\ length[Of(w)] \in 0..MaxLength /\ length[Of(w)] > 0
         /\ offset[Of(w)] \in Nat /\ offset[Of(w)] <= length[Of(w)]
         /\ compacted[Of(w)] \in 0..MaxLength /\ compacted[Of(w)] <= length[Of(w)]
         /\ ended[Of(w)] \in Nat /\ ended[Of(w)] <= length[Of(w)]
         /\ worker[w].from \in 0..MaxLength /\ worker[w].upto \in 0..MaxLength /\ MaxLength \in Nat
         /\ worker[w].job.mtime \in Nat
<1>1. worker[w] \in WorkerType /\ worker[w].job \in Jobs /\ Written(worker[w].job)
  BY WorkerIsTyped, ExtractAssumption DEF IInv, Shape, JobsAreWritten
<1>2. Of(w) \in Transcripts /\ length[Of(w)] > 0
  BY <1>1, JobIsOfSomething DEF Of
<1> QED BY <1>1, <1>2, ExtractAssumption DEF IInv, TypeOK, WithinLength, WorkerType, Jobs, Positions

\* What the worker of a step has in its hand, for a job it has begun to read.
LEMMA BeginInHand ==
  ASSUME IInv, NEW w \in Workers, Read(w) \/ ForkSession(w)
  PROVE  InHand(w)'
<1> DEFINE t == Of(w)
<1>1. /\ worker \in [Workers -> WorkerType] /\ worker[w] \in WorkerType /\ Shape(worker[w]) /\ InHand(w)
      /\ worker[w].pc \in {"read", "fork"}
      /\ UNCHANGED <<length, compacted, gone, ending, offset, jobs, extracted, ended, lost>>
  BY WorkerIsTyped DEF IInv, TypeOK, WorkerType, Read, ForkSession, At, files, history
<1>2. /\ t \in Transcripts /\ Written(worker[w].job) /\ length[t] \in 0..MaxLength /\ offset[t] \in Nat
      /\ offset[t] <= length[t] /\ ended[t] <= length[t] /\ ended[t] \in Nat /\ compacted[t] \in Nat
      /\ missed \in [Transcripts -> SUBSET Positions]
  BY <1>1, PartIsTyped DEF IInv, TypeOK
<1>3. ASSUME worker'[w].pc = "extract", worker'[w].mode = worker[w].mode, worker'[w].job = worker[w].job,
             worker'[w].upto = length[t],
             worker[w].mode = "fork" =>
               t \in gone \/ (offset[t] + 1)..worker'[w].from \subseteq missed'[t] \cup extracted[t]
      PROVE  InHand(w)'
  <2>1. Of(w)' = t
    BY <1>3 DEF Of
  <2>2. worker[w].job.mtime <= length[t]
    BY <1>2 DEF Written, Of
  <2> HIDE DEF t
  <2> QED BY <1>1, <1>2, <1>3, <2>1, <2>2 DEF InHand, HasRead, ForkIsGone
<1>4. CASE Read(w)
  <2> DEFINE r == [worker[w] EXCEPT !.pc = "extract", !.upto = length[t]]
  <2>1. CASE TooLong(t)
    <3>1. Proceed(w, Failures(w)) /\ worker[w].pc = "read"
      BY <1>4, <2>1 DEF Read, At
    <3> QED BY <3>1, HolderHasLock, FailuresAreBounded, ProceedReleases, NothingInHand
  <2>2. CASE ~TooLong(t)
    <3>1. worker'[w] = r /\ worker[w].mode # "fork"
      BY <1>1, <1>4, <2>2 DEF Read, Become, At, Shape
    <3>2. /\ r.pc = "extract" /\ r.mode = worker[w].mode /\ r.job = worker[w].job /\ r.upto = length[t]
      BY <1>1 DEF WorkerType
    <3> HIDE DEF r, t
    <3> QED BY <1>3, <3>1, <3>2
  <2> QED BY <2>1, <2>2
<1>5. CASE ForkSession(w)
  <2> DEFINE r == [worker[w] EXCEPT !.pc = "extract", !.from = compacted[t], !.upto = length[t]]
  <2>1. worker'[w] = r /\ worker[w].pc = "fork"
    BY <1>1, <1>5 DEF ForkSession, Become, At
  <2>2. /\ r.pc = "extract" /\ r.mode = worker[w].mode /\ r.job = worker[w].job /\ r.upto = length[t]
        /\ r.from = compacted[t]
    BY <1>1 DEF WorkerType
  <2>3. t \in gone \/ (offset[t] + 1)..compacted[t] \subseteq missed'[t] \cup extracted[t]
    <3>1. CASE offset[t] = 0
      <4>1. missed'[t] = missed[t] \cup (1..compacted[t] \ extracted[t])
        BY <1>2, <1>5, <3>1 DEF ForkSession, Misses
      <4> QED BY <3>1, <4>1
    <3>2. CASE offset[t] # 0
      <4>1. missed' = missed
        BY <1>5, <3>2 DEF ForkSession
      <4> QED BY <1>1, <2>1, <3>2, <4>1 DEF InHand
    <3> QED BY <3>1, <3>2
  <2> HIDE DEF r, t
  <2> QED BY <1>3, <2>1, <2>2, <2>3
<1> QED BY <1>4, <1>5

\* A session about to be forked has not been compacted since its offset.
LEMMA StartForkInHand ==
  ASSUME IInv, NEW w \in Workers, StartFork(w)
  PROVE  InHand(w)'
<1> DEFINE t == Of(w)
           drain == [Idle EXCEPT !.pc = "next", !.mode = "drain", !.todo = jobs \ {worker[w].job}]
<1>1. worker \in [Workers -> WorkerType] /\ worker[w].pc = "spawned"
  BY DEF IInv, TypeOK, WorkerType, StartFork, At
<1>2. CASE t \notin gone /\ CompactAfterOffset(t)
  <2>1. worker'[w] = drain
    BY <1>1, <1>2 DEF StartFork, Become
  <2>2. drain.pc = "next"
    BY IdleFields DEF WorkerType
  <2> HIDE DEF drain
  <2> QED BY <2>1, <2>2, NothingInHand
<1>3. CASE ~(t \notin gone /\ CompactAfterOffset(t))
  <2>1. worker'[w].pc = "fork" /\ worker'[w].job = worker[w].job
    BY <1>3, GoToFields DEF StartFork, PCs
  <2>2. Of(w)' = t /\ UNCHANGED <<offset, compacted, gone, missed, extracted>>
    BY <2>1 DEF Of, StartFork, files, history
  <2>3. offset[t] \in Nat /\ compacted[t] \in Nat
    BY <1>1, PartIsTyped
  <2>4. t \in gone \/ offset[t] = 0 \/ (offset[t] + 1)..compacted[t] = {}
    BY <1>3, <2>3 DEF CompactAfterOffset
  <2> HIDE DEF t
  <2> QED BY <2>1, <2>2, <2>4 DEF InHand, HasRead
<1> QED BY <1>2, <1>3

\* A worker that has read nothing marks the transcript up to 0.
LEMMA ReadNothingInHand ==
  ASSUME IInv, NEW w \in Workers, ReadNothing(w)
  PROVE  InHand(w)'
<1>1. worker[w].pc = "read" /\ worker[w].upto = 0
  BY DEF ReadNothing, At, IInv, Shape
<1>2. worker'[w].pc = "mark" /\ worker'[w].upto = 0
  BY <1>1, GoToFields DEF ReadNothing, PCs
<1>3. 1..0 = {}
  OBVIOUS
<1> QED BY <1>2, <1>3 DEF InHand, HasRead

\* What has been extracted of a part, with what was missed of it, is all of it.
LEMMA ExtractedInHand ==
  ASSUME IInv, NEW w \in Workers, Settled(w) \/ Fails(w)
  PROVE  InHand(w)'
<1> DEFINE t == Of(w)
           r == worker[w]
<1>1. /\ r \in WorkerType /\ Shape(r) /\ r.pc = "extract" /\ InHand(w)
      /\ UNCHANGED <<length, compacted, gone, ending, offset, jobs, ended, lost>>
  BY WorkerIsTyped DEF IInv, Settled, Fails, At, files
<1>2. /\ t \in Transcripts /\ offset[t] \in Nat /\ r.upto \in Nat /\ r.upto > 0 /\ r.from \in Nat
      /\ extracted \in [Transcripts -> SUBSET Positions] /\ missed \in [Transcripts -> SUBSET Positions]
  BY <1>1, PartIsTyped DEF Shape, IInv, TypeOK
<1>3. \/ /\ \E pc \in {"mark", "markdead"} : GoTo(w, pc)
         /\ Dealt(t) \cup Seen(w) \subseteq extracted'[t] \cup missed'[t]
      \/ Proceed(w, 0)
  <2>1. CASE Settled(w)
    <3>1. extracted'[t] = extracted[t] \cup (Seen(w) \ missed[t]) /\ missed' = missed /\ GoTo(w, "mark")
      BY <1>2, <2>1 DEF Settled, Extracts
    <3> QED BY <3>1 DEF Dealt
  <2>2. CASE Fails(w)
    <3>1. \/ Proceed(w, 0)
          \/ \E U \in SUBSET Seen(w) : Extracts(t, Seen(w) \ U) /\ Misses(t, U) /\ GoTo(w, "markdead")
      BY <2>2 DEF Fails
    <3>2. ASSUME NEW U \in SUBSET Seen(w), Extracts(t, Seen(w) \ U), Misses(t, U), GoTo(w, "markdead")
          PROVE  Dealt(t) \cup Seen(w) \subseteq extracted'[t] \cup missed'[t]
      <4>1. /\ extracted'[t] = extracted[t] \cup ((Seen(w) \ U) \ missed[t])
            /\ missed'[t] = missed[t] \cup (U \ extracted[t])
        BY <1>2, <3>2 DEF Extracts, Misses
      <4> QED BY <4>1 DEF Dealt
    <3> QED BY <3>1, <3>2
  <2> QED BY <2>1, <2>2
<1>4. CASE /\ \E pc \in {"mark", "markdead"} : GoTo(w, pc)
           /\ Dealt(t) \cup Seen(w) \subseteq extracted'[t] \cup missed'[t]
  <2>1. PICK pc \in {"mark", "markdead"} : GoTo(w, pc)
    BY <1>4
  <2>2. worker'[w].pc = pc /\ worker'[w].mode = r.mode /\ worker'[w].upto = r.upto /\
       worker'[w].job = r.job
    BY <2>1, GoToFields DEF PCs
  <2>3. Of(w)' = t /\ ForkIsGone(w)' = ForkIsGone(w)
    BY <1>1, <2>2 DEF Of, ForkIsGone
  <2>5. ASSUME ~ForkIsGone(w), NEW p \in 1..r.upto
        PROVE  p \in extracted'[t] \cup missed'[t]
    <3>2. CASE p <= offset[t]
      <4>1. p \in 1..offset[t]
        BY <1>2, <2>5, <3>2
      <4>2. p \in Dealt(t)
        BY <1>2, <4>1 DEF IInv, NothingIsSkipped, Dealt
      <4> QED BY <1>4, <4>2
    <3>3. CASE p > offset[t] /\ p <= r.from
      <4>1. r.mode = "fork" /\ t \notin gone
        BY <1>1, <1>2, <2>5, <3>3 DEF Shape, ForkIsGone
      <4>2. p \in (offset[t] + 1)..r.from
        BY <1>2, <2>5, <3>3
      <4> QED BY <1>1, <1>4, <4>1, <4>2 DEF InHand, Dealt
    <3>4. CASE p > offset[t] /\ p > r.from
      <4>1. p \in (offset[t] + 1)..r.upto
        BY <1>2, <2>5, <3>4
      <4>2. p \in Seen(w)
        BY <3>4, <4>1 DEF Seen
      <4> QED BY <1>4, <4>2
    <3> QED BY <1>2, <2>5, <3>2, <3>3, <3>4
  <2>6. ForkIsGone(w) \/ 1..r.upto \subseteq Dealt(t)'
    BY <1>1, <2>3, <2>5 DEF Dealt
  <2>7. HasRead(w)
    BY <1>1 DEF HasRead
  <2> HIDE DEF t, r
  <2> QED BY <1>1, <1>2, <2>1, <2>2, <2>3, <2>6, <2>7 DEF InHand, t, r
<1>5. CASE Proceed(w, 0)
  BY <1>1, <1>5, HolderHasLock, FailuresAreBounded, ProceedReleases, NothingInHand
<1> QED BY <1>3, <1>4, <1>5

\* With the offset recorded, or the runner of a fork taking it for recorded, the
\* job file may be deleted.
LEMMA MarkedInHand ==
  ASSUME IInv, NEW w \in Workers, Mark(w) \/ MarkFails(w)
  PROVE  InHand(w)'
<1> DEFINE t == Of(w)
           r == worker[w]
<1>1. /\ r \in WorkerType /\ Shape(r) /\ r.pc \in {"mark", "markdead"} /\ InHand(w) /\ HasRead(w)
      /\ UNCHANGED <<length, compacted, gone, ending, jobs, extracted, ended>>
      /\ lost \subseteq lost'
  BY WorkerIsTyped DEF IInv, Mark, MarkFails, files, history, HasRead
<1>2. t \in Transcripts /\ length[t] \in Nat /\ r.upto \in Nat /\ (r.upto > 0 => r.upto <= length[t])
  BY <1>1, PartIsTyped DEF InHand
<1>3. CASE \E pc \in {"delete", "drop"} : GoTo(w, pc) /\ (pc = "delete" => Mark(w))
  <2>1. PICK pc \in {"delete", "drop"} : GoTo(w, pc) /\ (pc = "delete" => Mark(w))
    BY <1>3
  <2>2. worker'[w].pc = pc /\ worker'[w].mode = r.mode /\ worker'[w].upto = r.upto /\
       worker'[w].job = r.job
    BY <2>1, GoToFields DEF PCs
  <2>3. Of(w)' = t
    BY <2>2 DEF Of
  <2>4. pc = "delete" /\ r.upto > 0 => r.upto <= offset'[t] \/ t \in gone
    <3>1. ASSUME Mark(w), ~ForkIsGone(w), r.upto > 0
          PROVE  r.upto <= offset'[t]
      <4>1. r.upto <= RecordedOffset(w)
        BY <1>2, <3>1 DEF RecordedOffset
      <4>2. offset'[t] = RecordedOffset(w)
        BY <1>2, <3>1 DEF IInv, TypeOK, Mark
      <4> QED BY <4>1, <4>2
    <3> QED BY <2>1, <3>1 DEF ForkIsGone
  <2> HIDE DEF t, r
  <2> QED BY <1>1, <1>2, <2>1, <2>2, <2>3, <2>4 DEF InHand, t, r
<1>4. CASE Proceed(w, 0) \/ Proceed(w, Failures(w))
  <2>1. 0 \in 0..DRAIN_FAILURES /\ Failures(w) \in 0..DRAIN_FAILURES
    BY <1>1, FailuresAreBounded
  <2> QED BY <1>1, <1>4, <2>1, HolderHasLock, ProceedReleases, NothingInHand
<1>5. \/ \E pc \in {"delete", "drop"} : GoTo(w, pc) /\ (pc = "delete" => Mark(w))
      \/ Proceed(w, 0) \/ Proceed(w, Failures(w))
  BY DEF Mark, MarkFails
<1> QED BY <1>3, <1>4, <1>5

\* A step of a worker keeps what any of them has in hand.
LEMMA StepInHand ==
  ASSUME IInv, NEW w \in Workers, Step(w) \/ Crash(w), NEW v \in Workers
  PROVE  InHand(v)'
<1>1. CASE v # w
  <2>1. CASE worker[v].pc \notin {"idle", "spawned"}
    <3>1. worker'[v] = worker[v] /\ UNCHANGED <<length, compacted, gone, ending, offset, jobs, extracted,
                                                missed, ended, lost>>
      BY <1>1, <2>1, OtherHolds
    <3>2. InHand(v)
      BY DEF IInv
    <3> QED BY <3>1, <3>2 DEF InHand, HasRead, ForkIsGone, Of, Dealt
  <2>2. CASE worker[v].pc \in {"idle", "spawned"}
    <3>1. PICK r : Moves(w, r)
      BY StepMoves
    <3>2. worker'[v] = worker[v]
      BY <1>1, <3>1 DEF Moves, IInv, TypeOK
    <3> QED BY <2>2, <3>2, NothingInHand
  <2> QED BY <2>1, <2>2
<1>2. CASE v = w
  <2>1. CASE Finish(w)
    BY <1>2, <2>1, IdleMoves, HolderHasLock, NothingInHand DEF Finish, Return, At
  <2>2. CASE \E j \in Jobs : Skip(w, j) \/ Quarantine(w, j) \/ Take(w, j)
    <3>1. worker'[w].pc \in {"next", "rewrite", "read"}
      <4>1. worker \in [Workers -> WorkerType] /\ worker[w] \in WorkerType
        BY WorkerIsTyped DEF IInv, TypeOK, WorkerType
      <4>2. CASE \E j \in Jobs : Skip(w, j) \/ Quarantine(w, j)
        <5>1. PICK j \in Jobs : Skip(w, j) \/ Quarantine(w, j)
          BY <4>2
        <5>2. worker'[w] = [worker[w] EXCEPT !.todo = @ \ {j}] /\ worker[w].pc = "next"
          BY <4>1, <5>1 DEF Skip, Quarantine, Become, At
        <5> QED BY <4>1, <5>2 DEF WorkerType
      <4>3. CASE \E j \in Jobs : Take(w, j)
        <5>1. PICK j \in Jobs : Take(w, j)
          BY <4>3
        <5> DEFINE taken == [worker[w] EXCEPT !.todo = @ \ {j}, !.job = j]
                   written == JobFile(j.transcript, length[j.transcript])
        <5>2. worker'[w] = [taken EXCEPT !.pc = "rewrite", !.job = written]
                \/ worker'[w] = [taken EXCEPT !.pc = "read"]
          BY <4>1, <5>1 DEF Take, Become
        <5>3. DOMAIN taken = {"pc", "mode", "todo", "job", "from", "upto", "fails"}
          BY <4>1 DEF WorkerType
        <5> HIDE DEF taken, written
        <5>4. worker'[w].pc \in {"rewrite", "read"}
          BY <5>2, <5>3
        <5> QED BY <5>4
      <4> QED BY <2>2, <4>2, <4>3
    <3> QED BY <1>2, <3>1, NothingInHand
  <2>3. CASE Rewrite(w)
    <3>1. worker'[w].pc = "read"
      BY <2>3, GoToFields DEF Rewrite, PCs
    <3> QED BY <1>2, <3>1, NothingInHand
  <2>4. CASE Read(w) \/ StartFork(w) \/ ForkSession(w)
    BY <1>2, <2>4, BeginInHand, StartForkInHand
  <2>5. CASE ReadNothing(w)
    BY <1>2, <2>5, ReadNothingInHand
  <2>6. CASE ForkDeferred(w)
    <3>1. lock # w
      BY <2>6 DEF ForkDeferred, At, IInv, OneHolder, Holding
    <3> QED BY <1>2, <2>6, <3>1, IdleMoves, NothingInHand DEF ForkDeferred
  <2>7. CASE Unavailable(w) \/ Raises(w) \/ Discards(w) \/ LeftPending(w)
    <3>1. worker[w].pc = "extract" /\ lock = w
      BY <2>7, HolderHasLock DEF Unavailable, Raises, Discards, LeftPending, At
    <3>2. Return(w) \/ Proceed(w, 0) \/ Proceed(w, Failures(w)) \/ Proceed(w, worker[w].fails)
      BY <2>7 DEF Unavailable, Raises, Discards, LeftPending
    <3>3. worker[w].fails \in 0..DRAIN_FAILURES
      BY WorkerIsTyped DEF IInv, WorkerType
    <3> QED BY <1>2, <3>1, <3>2, <3>3, IdleMoves, ProceedReleases, FailuresAreBounded,
               NothingInHand DEF Return
  <2>8. CASE Settled(w) \/ Fails(w)
    BY <1>2, <2>8, ExtractedInHand
  <2>9. CASE Mark(w) \/ MarkFails(w)
    BY <1>2, <2>9, MarkedInHand
  <2>10. CASE DeleteJob(w)
    <3>1. 0 \in 0..DRAIN_FAILURES
      BY ExtractAssumption
    <3> QED BY <1>2, <2>10, <3>1, HolderHasLock, ProceedReleases, NothingInHand DEF DeleteJob, At
  <2>11. CASE Crash(w)
    BY <1>2, <2>11, IdleMoves, NothingInHand DEF Crash
  <2> QED
    BY <2>1, <2>2, <2>3, <2>4, <2>5, <2>6, <2>7, <2>8, <2>9, <2>10, <2>11 DEF Step
<1> QED BY <1>1, <1>2

\* The offset a worker records.
LEMMA MarkOffset ==
  ASSUME IInv, NEW w \in Workers, Mark(w)
  PROVE  /\ Of(w) \in Transcripts
         /\ \/ UNCHANGED offset
            \/ /\ offset' = [offset EXCEPT ![Of(w)] = RecordedOffset(w)]
               /\ RecordedOffset(w) \in Nat
               /\ \/ RecordedOffset(w) = 0 /\ Of(w) \in lost'
                  \/ offset[Of(w)] <= RecordedOffset(w)
               /\ 1..RecordedOffset(w) \subseteq extracted'[Of(w)] \cup missed'[Of(w)]
<1> DEFINE t == Of(w)
           r == worker[w]
<1>1. /\ r \in WorkerType /\ Shape(r) /\ r.pc \in {"mark", "markdead"} /\ InHand(w) /\ HasRead(w)
  BY WorkerIsTyped DEF IInv, Mark, HasRead
<1>2. t \in Transcripts /\ length[t] \in Nat /\ r.upto \in Nat /\ offset[t] \in Nat
  BY <1>1, PartIsTyped
<1>3. RecordedOffset(w) = IF r.mode = "fork" THEN length[t] ELSE r.upto
  BY DEF RecordedOffset
<1>4. CASE ForkIsGone(w)
  BY <1>2, <1>4 DEF Mark
<1>5. CASE ~ForkIsGone(w)
  <2>1. /\ offset' = [offset EXCEPT ![t] = RecordedOffset(w)] /\ Misses(t, (r.upto + 1)..RecordedOffset(w))
        /\ r.upto = 0 => t \in lost'
        /\ extracted' = extracted
    BY <1>5 DEF Mark
  <2>2. 1..r.upto \subseteq Dealt(t) /\ (r.upto > 0 => offset[t] <= r.upto /\ r.upto <= length[t])
    BY <1>1, <1>5 DEF InHand
  <2>3. r.mode = "fork" => r.upto > 0
    BY <1>1 DEF Shape
  <2>4. missed'[t] = missed[t] \cup ((r.upto + 1)..RecordedOffset(w) \ extracted[t])
    BY <1>2, <2>1 DEF Misses, IInv, TypeOK
  <2>5. Of(w) = t
    OBVIOUS
  <2> HIDE DEF t, r
  <2>6. ASSUME NEW p \in 1..RecordedOffset(w)
        PROVE  p \in extracted'[t] \cup missed'[t]
    <3>1. CASE p \in 1..r.upto
      BY <2>1, <2>2, <2>4, <3>1 DEF Dealt
    <3>2. CASE p \notin 1..r.upto
      <4>1. p \in (r.upto + 1)..RecordedOffset(w)
        BY <1>2, <1>3, <2>6, <3>2
      <4> QED BY <2>1, <2>4, <4>1
    <3> QED BY <3>1, <3>2
  <2>7. RecordedOffset(w) \in Nat /\ ((RecordedOffset(w) = 0 /\ t \in lost') \/ offset[t] <= RecordedOffset(w))
    BY <1>2, <1>3, <2>1, <2>2, <2>3
  <2> QED BY <1>2, <2>1, <2>5, <2>6, <2>7
<1> QED BY <1>4, <1>5

\* A step of a worker skips nothing.
LEMMA StepNothingIsSkipped ==
  ASSUME IInv, NEW w \in Workers, Step(w) \/ Crash(w)
  PROVE  NothingIsSkipped'
<1> SUFFICES ASSUME NEW t \in Transcripts
             PROVE  1..offset'[t] \subseteq extracted'[t] \cup missed'[t]
  BY DEF NothingIsSkipped
<1>1. offset \in [Transcripts -> 0..MaxLength]
  BY DEF IInv, TypeOK
<1>2. extracted[t] \subseteq extracted'[t] /\ missed[t] \subseteq missed'[t]
  BY HistoryGrows
<1>3. 1..offset[t] \subseteq extracted[t] \cup missed[t]
  BY DEF IInv, NothingIsSkipped
<1>4. CASE Mark(w)
  <2>1. CASE UNCHANGED offset
    BY <1>2, <1>3, <2>1
  <2>2. CASE t # Of(w)
    <3>1. offset'[t] = offset[t]
      BY <1>1, <1>4, <2>2, MarkOffset
    <3> QED BY <1>2, <1>3, <3>1
  <2>3. CASE t = Of(w) /\ offset' # offset
    BY <1>1, <1>4, <2>3, MarkOffset
  <2> QED BY <2>1, <2>2, <2>3
<1>5. CASE ~Mark(w)
  <2>1. offset' = offset
    BY <1>5, OffsetIsKept
  <2> QED BY <1>2, <1>3, <2>1
<1> QED BY <1>4, <1>5

\* A step of a worker forgets no end: a job file is only deleted when the offset
\* is beyond it or there is another.
LEMMA StepNoEndIsForgotten ==
  ASSUME IInv, NEW w \in Workers, Step(w) \/ Crash(w)
  PROVE  NoEndIsForgotten'
<1> SUFFICES ASSUME NEW t \in Transcripts, t \notin gone', t \notin lost', ended'[t] > offset'[t]
             PROVE  \/ \E j \in jobs' : j.transcript = t
                    \/ t \in ending'
                    \/ \E v \in Workers : worker'[v].pc = "rewrite" /\ worker'[v].job.transcript = t
  BY DEF NoEndIsForgotten, HasJob, At, Of
<1>1. offset \in [Transcripts -> 0..MaxLength] /\ ended[t] \in Nat
  BY ExtractAssumption DEF IInv, TypeOK
<1>2. UNCHANGED <<length, compacted, gone, claimed, ending, ended>> /\ t \notin gone /\ t \notin lost
  BY StepJobs, HistoryGrows
<1>3. ended[t] > offset[t]
  <2>1. CASE Mark(w)
    <3>1. offset'[t] = offset[t] \/ (t = Of(w) /\ offset'[t] = RecordedOffset(w) /\ offset' # offset)
      BY <1>1, <2>1, MarkOffset
    <3>2. offset'[t] \in Nat /\ offset[t] \in Nat /\ offset[t] <= offset'[t]
      BY <1>1, <1>2, <2>1, <3>1, MarkOffset, ExtractAssumption
    <3> QED BY <1>1, <1>2, <3>2
  <2>2. CASE ~Mark(w)
    <3>1. offset' = offset
      BY <2>2, OffsetIsKept
    <3> QED BY <1>2, <3>1
  <2> QED BY <2>1, <2>2
<1>4. \/ \E j \in jobs : j.transcript = t
      \/ t \in ending
      \/ \E v \in Workers : worker[v].pc = "rewrite" /\ worker[v].job.transcript = t
  BY <1>2, <1>3 DEF IInv, NoEndIsForgotten, HasJob, At, Of
<1>7. CASE t \in ending
  BY <1>2, <1>7
<1>5. CASE \E v \in Workers : worker[v].pc = "rewrite" /\ worker[v].job.transcript = t
  <2>1. PICK v \in Workers : worker[v].pc = "rewrite" /\ worker[v].job.transcript = t
    BY <1>5
  <2>2. CASE v = w
    <3>1. Rewrite(w) \/ Crash(w)
      BY <2>1, <2>2 DEF Step, Finish, Skip, Quarantine, Take, Rewrite, Read, ReadNothing, At,
         ForkDeferred, StartFork, ForkSession, Unavailable, Raises, Discards, LeftPending,
         Settled, Fails, Mark, MarkFails, DeleteJob
    <3>2. ~Crash(w)
      BY <1>2, <2>1, <2>2 DEF Crash, At, Of
    <3> QED BY <2>1, <2>2, <3>1, <3>2 DEF Rewrite
  <2>3. CASE v # w
    BY <2>1, <2>3, OtherHolds
  <2> QED BY <2>2, <2>3
<1>6. CASE \E j \in jobs : j.transcript = t
  <2>1. PICK j \in jobs : j.transcript = t
    BY <1>6
  <2>2. CASE j \in jobs'
    BY <2>1, <2>2
  <2>3. CASE j \notin jobs'
    <3>1. DeleteJob(w) \/ Discards(w) \/ \E i \in Jobs : Skip(w, i) \/ Quarantine(w, i) \/ Take(w, i)
      BY <2>1, <2>3 DEF Step, Finish, Rewrite, Read, ReadNothing, Crash,
         ForkDeferred, StartFork, ForkSession, Unavailable, Raises, LeftPending, Settled, Fails,
         Mark,
         MarkFails
    <3>2. CASE \E i \in Jobs : Skip(w, i)
      BY <1>2, <2>1, <2>3, <3>2 DEF Skip
    <3>5. CASE Discards(w) \/ \E i \in Jobs : Quarantine(w, i)
      <4>1. t \in lost'
        BY <2>1, <2>3, <3>5 DEF Discards, Quarantine, Of
      <4> QED BY <4>1
    <3>3. CASE \E i \in Jobs : Take(w, i)
      <4>1. PICK i \in Jobs : Take(w, i)
        BY <3>3
      <4> DEFINE taken == [worker[w] EXCEPT !.todo = @ \ {i}, !.job = i]
                 written == JobFile(i.transcript, length[i.transcript])
      <4>2. i = j /\ Become(w, [taken EXCEPT !.pc = "rewrite", !.job = written])
        BY <2>1, <2>3, <4>1 DEF Take
      <4>3. worker \in [Workers -> WorkerType] /\ worker[w] \in WorkerType
        BY WorkerIsTyped DEF IInv, TypeOK, WorkerType
      <4>4. worker'[w] = [taken EXCEPT !.pc = "rewrite", !.job = written]
        BY <4>2, <4>3 DEF Become
      <4>5. DOMAIN taken = {"pc", "mode", "todo", "job", "from", "upto", "fails"}
        BY <4>3 DEF WorkerType
      <4>6. written.transcript = t
        BY <2>1, <4>2 DEF JobFile
      <4> HIDE DEF taken, written
      <4>7. worker'[w].pc = "rewrite" /\ worker'[w].job = written
        BY <4>4, <4>5
      <4> QED BY <4>6, <4>7
    <3>4. CASE DeleteJob(w)
      <4> DEFINE r == worker[w]
      <4>1. /\ r.pc \in {"delete", "drop"} /\ j = r.job /\ Of(w) = t /\ jobs' = jobs \ {r.job} /\ InHand(w)
            /\ r \in WorkerType
        BY <2>1, <2>3, <3>4, WorkerIsTyped DEF DeleteJob, Of, IInv
      <4>2. r.upto \in Nat /\ offset[t] \in Nat
        BY <1>1, <4>1, ExtractAssumption DEF WorkerType
      <4>6. r.pc = "delete" /\ r.upto > 0 /\ HasRead(w)
        BY <3>4, <4>1, <4>2 DEF DeleteJob, At, HasRead
      <4>3. r.upto <= offset[t]
        BY <1>2, <4>1, <4>6 DEF InHand
      <4>4. ended[t] > r.upto
        BY <1>1, <1>3, <4>2, <4>3
      <4>5. t \in ending \/ \E i \in jobs : i.transcript = t /\ i # r.job
        BY <1>2, <4>1, <4>4, <4>6 DEF InHand
      <4> QED BY <1>2, <4>1, <4>5
    <3> QED BY <3>1, <3>2, <3>3, <3>4, <3>5
  <2> QED BY <2>2, <2>3
<1> QED BY <1>4, <1>5, <1>6, <1>7

\* A step of a worker keeps the invariant.
LEMMA WorkerStep ==
  ASSUME IInv, NEW w \in Workers, Step(w) \/ Crash(w)
  PROVE  IInv'
<1>1. PICK r : Moves(w, r)
  BY StepMoves
<1>2. /\ OneHolder' /\ JobsAreWritten' /\ \A v \in Workers : Shape(worker'[v])
  BY <1>1, StepJobs, MovesControl
<1>3. \A v \in Workers : InHand(v)'
  BY StepInHand
<1> QED
  BY <1>2, <1>3, StepTypes, StepWithinLength, StepNothingIsSkipped, StepNoEndIsForgotten DEF IInv

-----------------------------------------------------------------------------
\* A session goes on, perhaps while it is being extracted.
LEMMA AppendStep ==
  ASSUME IInv, NEW t \in Transcripts, NEW boundary \in BOOLEAN, Append(t, boundary)
  PROVE  IInv'
<1> DEFINE hidden == (offset[t] + 1)..(length[t] + 1) \ extracted[t]
           Forking(w) == worker[w].pc = "fork" /\ Of(w) = t
<1>1. /\ t \notin gone /\ length[t] < MaxLength /\ length' = [length EXCEPT ![t] = @ + 1]
      /\ compacted' = IF boundary THEN [compacted EXCEPT ![t] = length[t] + 1] ELSE compacted
      /\ missed' = IF boundary /\ \E w \in Workers : Forking(w)
                   THEN [missed EXCEPT ![t] = @ \cup hidden] ELSE missed
      /\ UNCHANGED <<gone, offset, attempts, claimed, ending, jobs, lock, worker, faults, extracted,
                     ended, lost>>
  BY DEF Append, Misses, At
<1>2. /\ length \in [Transcripts -> 0..MaxLength] /\ compacted \in [Transcripts -> 0..MaxLength]
      /\ missed \in [Transcripts -> SUBSET Positions] /\ offset \in [Transcripts -> 0..MaxLength]
      /\ ended \in [Transcripts -> 0..MaxLength] /\ jobs \subseteq Jobs
      /\ worker \in [Workers -> WorkerType] /\ MaxLength \in Nat
  BY ExtractAssumption DEF IInv, TypeOK, WorkerType
<1>3. /\ length' \in [Transcripts -> 0..MaxLength] /\ compacted' \in [Transcripts -> 0..MaxLength]
      /\ missed' \in [Transcripts -> SUBSET Positions]
  <2>1. hidden \subseteq Positions
    BY <1>1, <1>2 DEF Positions
  <2>2. length[t] + 1 \in 0..MaxLength
    BY <1>1, <1>2
  <2> HIDE DEF hidden, Forking
  <2> QED BY <1>1, <1>2, <2>1, <2>2
<1>4. \A u \in Transcripts : length[u] <= length'[u] /\ missed[u] \subseteq missed'[u]
  <2> HIDE DEF hidden, Forking
  <2> QED BY <1>1, <1>2
<1>5. TypeOK'
  BY <1>1, <1>3 DEF IInv, TypeOK
<1>6. OneHolder' /\ \A w \in Workers : Shape(worker'[w])
  BY <1>1 DEF IInv, OneHolder, Holding
<1>7. ASSUME NEW j \in Jobs, Written(j) PROVE Written(j)'
  <2>1. j.transcript \in Transcripts /\ j.mtime \in Nat
    BY <1>2, <1>7 DEF Jobs, Positions
  <2> QED BY <1>2, <1>3, <1>4, <1>7, <2>1 DEF Written
<1>8. JobsAreWritten'
  <2>1. \A w \in Workers : worker[w].todo \subseteq Jobs /\ worker[w].job \in Jobs \cup {NoJob}
    BY <1>2 DEF WorkerType
  <2>2. JobsAreWritten
    BY DEF IInv
  <2>3. \A j \in jobs' : Written(j)'
    BY <1>1, <1>2, <1>7, <2>2 DEF JobsAreWritten
  <2>4. \A w \in Workers : \A j \in worker'[w].todo : Written(j)'
    BY <1>1, <1>7, <2>1, <2>2 DEF JobsAreWritten
  <2>5. \A w \in Workers : worker'[w].job # NoJob => Written(worker[w].job)'
    BY <1>1, <1>7, <2>1, <2>2 DEF JobsAreWritten
  <2> QED BY <1>1, <2>3, <2>4, <2>5 DEF JobsAreWritten, Written
<1>9. WithinLength'
  <2>1. \A u \in Transcripts : compacted'[u] <= length'[u]
    BY <1>1, <1>2 DEF IInv, WithinLength
  <2> QED BY <1>1, <1>2, <1>3, <1>4, <2>1 DEF IInv, WithinLength
<1>10. ASSUME NEW w \in Workers PROVE InHand(w)'
  <2> DEFINE r == worker[w]
             u == Of(w)
  <2>1. InHand(w) /\ r \in WorkerType /\ Of(w)' = u /\ worker'[w] = r /\ HasRead(w)' = HasRead(w)
        /\ ForkIsGone(w)' = ForkIsGone(w)
    BY <1>1, <1>2 DEF IInv, Of, HasRead, ForkIsGone
  <2>2. CASE r.pc \in {"idle", "next"}
    BY <2>1, <2>2 DEF InHand, HasRead
  <2>3. CASE r.pc \notin {"idle", "next"}
    <3>1. /\ u \in Transcripts /\ length[u] \in Nat /\ length'[u] \in Nat /\ r.upto \in Nat
          /\ length[u] <= length'[u] /\ offset[u] \in Nat /\ offset'[u] = offset[u]
      BY <1>1, <1>2, <1>3, <1>4, <2>3, PartIsTyped
    <3>2. r.upto <= length[u] => r.upto <= length'[u]
      BY <3>1
    <3>3. missed[u] \subseteq missed'[u]
      BY <1>4, <3>1
      \* A compaction under the runner hides all that is not extracted.
    <3>4. CASE r.pc = "fork" /\ u = t /\ boundary
      <4>1. missed'[u] = missed[u] \cup hidden /\ compacted'[u] = length[u] + 1
        <5>1. Forking(w)
          BY <3>4
        <5> HIDE DEF Forking, hidden
        <5> QED BY <1>1, <1>2, <3>4, <5>1
      <4>2. (offset[u] + 1)..compacted'[u] \subseteq missed'[u] \cup extracted[u]
        BY <3>4, <4>1
      <4>3. ~HasRead(w)
        BY <3>4 DEF HasRead
      <4> HIDE DEF r, u, hidden, Forking
      <4> QED BY <1>1, <2>1, <3>1, <3>4, <4>2, <4>3 DEF InHand, r
    <3>5. CASE ~(r.pc = "fork" /\ u = t /\ boundary)
      <4>1. r.pc = "fork" => compacted'[u] = compacted[u]
        BY <1>1, <1>2, <3>1, <3>5
      <4>2. /\ HasRead(w) /\ r.upto > 0 =>
                 /\ r.upto <= length'[u] /\ r.job.mtime <= r.upto
                 /\ ended'[u] > r.upto =>
                      u \in gone' \cup lost' \cup ending' \/ \E j \in jobs' : j.transcript = u /\ j # r.job
                 /\ r.pc \notin {"delete", "drop"} => offset'[u] <= r.upto
                 /\ r.pc = "delete" => r.upto <= offset'[u] \/ u \in gone'
        BY <1>1, <2>1, <3>2 DEF InHand
      <4>3. /\ r.pc \in {"mark", "markdead"} => ForkIsGone(w) \/ 1..r.upto \subseteq Dealt(u)
            /\ r.pc = "extract" /\ r.mode = "fork" =>
                 u \in gone \/ (offset[u] + 1)..r.from \subseteq missed[u] \cup extracted[u]
            /\ r.pc = "fork" =>
                 u \in gone \/ offset[u] = 0 \/ (offset[u] + 1)..compacted[u] \subseteq missed[u] \cup extracted[u]
        BY <2>1 DEF InHand
      <4> HIDE DEF r, u, hidden, Forking
      <4> QED BY <1>1, <2>1, <3>1, <3>3, <4>1, <4>2, <4>3 DEF InHand, Dealt, r
    <3> QED BY <3>4, <3>5
  <2> QED BY <2>2, <2>3
<1>11. NothingIsSkipped'
  BY <1>1, <1>4 DEF IInv, NothingIsSkipped
<1>12. NoEndIsForgotten'
  BY <1>1 DEF IInv, NoEndIsForgotten, HasJob, At, Of
<1> QED BY <1>5, <1>6, <1>8, <1>9, <1>10, <1>11, <1>12 DEF IInv

\* What a worker has in hand is left to it by the host, provided an end beyond it
\* is still taken care of.
LEMMA HandIsKept ==
  ASSUME IInv, NEW w \in Workers, worker'[w] = worker[w], gone \subseteq gone',
         UNCHANGED <<length, compacted, offset, extracted, missed>>,
         HasRead(w) /\ worker[w].upto > 0 /\ ended'[Of(w)] > worker[w].upto =>
           \/ Of(w) \in gone' \cup lost' \cup ending'
           \/ \E j \in jobs' : j.transcript = Of(w) /\ j # worker[w].job
  PROVE  InHand(w)'
<1>1. InHand(w) /\ Of(w)' = Of(w) /\ HasRead(w)' = HasRead(w) /\ (ForkIsGone(w) => ForkIsGone(w)')
  BY DEF IInv, Of, HasRead, ForkIsGone
<1> QED BY <1>1 DEF InHand, Dealt

\* The places of the workers and the job files are left alone.
LEMMA HostLeaves ==
  ASSUME IInv, UNCHANGED <<length, compacted, offset, jobs, lock, worker, extracted, missed>>
  PROVE  /\ OneHolder' /\ JobsAreWritten' /\ NothingIsSkipped'
         /\ \A w \in Workers : Shape(worker'[w])
  BY DEF IInv, OneHolder, Holding, JobsAreWritten, Written, NothingIsSkipped

\* The host deletes a transcript, or a claim is pruned.
LEMMA HostDeletesStep ==
  ASSUME IInv, NEW t \in Transcripts, HostDeletes(t) \/ PruneStaleClaims(t)
  PROVE  IInv'
<1>1. /\ gone \subseteq gone' /\ gone' \subseteq Transcripts
      /\ claimed' \subseteq claimed /\ ending \subseteq claimed'
      /\ UNCHANGED <<length, compacted, offset, attempts, ending, jobs, lock, worker, faults,
                     extracted, missed, ended, lost>>
  BY DEF HostDeletes, PruneStaleClaims, history, files, IInv, TypeOK
<1>2. TypeOK' /\ WithinLength'
  BY <1>1 DEF IInv, TypeOK, WithinLength
<1>3. \A w \in Workers : InHand(w)'
  <2> SUFFICES ASSUME NEW w \in Workers PROVE InHand(w)'
    OBVIOUS
  <2>1. InHand(w)
    BY DEF IInv
  <2> QED BY <1>1, <2>1, HandIsKept DEF InHand
<1>4. NoEndIsForgotten'
  BY <1>1 DEF IInv, NoEndIsForgotten, HasJob, At, Of
<1> QED BY <1>1, <1>2, <1>3, <1>4, HostLeaves DEF IInv

\* A session ends, and its hook takes the claim.
LEMMA SessionEndStep ==
  ASSUME IInv, NEW t \in Transcripts, SessionEnd(t)
  PROVE  IInv'
<1>1. /\ ended' = [ended EXCEPT ![t] = length[t]] /\ length[t] > 0
      /\ claimed' = claimed \cup {t} /\ ending' = ending \cup {t}
      /\ UNCHANGED <<length, compacted, gone, offset, attempts, jobs, lock, worker, faults,
                     extracted, missed, lost>>
  BY DEF SessionEnd, Ends, files
<1>2. /\ length \in [Transcripts -> 0..MaxLength] /\ ended \in [Transcripts -> 0..MaxLength]
      /\ MaxLength \in Nat
  BY ExtractAssumption DEF IInv, TypeOK
<1>3. TypeOK' /\ WithinLength'
  <2>1. ended' \in [Transcripts -> 0..MaxLength]
    BY <1>1, <1>2
  <2>2. TypeOK'
    BY <1>1, <2>1 DEF IInv, TypeOK
  <2>3. WithinLength'
    BY <1>1, <1>2 DEF IInv, WithinLength
  <2> QED BY <2>2, <2>3
<1>4. \A w \in Workers : InHand(w)'
  <2> SUFFICES ASSUME NEW w \in Workers PROVE InHand(w)'
    OBVIOUS
  <2>1. InHand(w)
    BY DEF IInv
  <2>2. Of(w) # t => ended'[Of(w)] = ended[Of(w)]
    BY <1>1, <1>2
  <2> QED BY <1>1, <2>1, <2>2, HandIsKept DEF InHand
<1>5. NoEndIsForgotten'
  BY <1>1, <1>2 DEF IInv, NoEndIsForgotten, HasJob, At, Of
<1> QED BY <1>1, <1>3, <1>4, <1>5, HostLeaves DEF IInv

\* A session ends under the claim of an earlier end.
LEMMA EndUnderClaimStep ==
  ASSUME IInv, NEW t \in Transcripts, EndUnderClaim(t)
  PROVE  IInv'
<1>1. /\ ended' = [ended EXCEPT ![t] = length[t]]
      /\ lost' = IF length[t] = ended[t] \/ WillBeRead(t) THEN lost ELSE lost \cup {t}
      /\ UNCHANGED <<length, compacted, gone, offset, attempts, claimed, ending, jobs, lock, worker,
                     faults, extracted, missed>>
  BY DEF EndUnderClaim, Ends, files
<1>2. /\ length \in [Transcripts -> 0..MaxLength] /\ ended \in [Transcripts -> 0..MaxLength]
      /\ MaxLength \in Nat
  BY ExtractAssumption DEF IInv, TypeOK
<1>3. TypeOK' /\ WithinLength'
  <2>1. ended' \in [Transcripts -> 0..MaxLength] /\ lost' \subseteq Transcripts
    BY <1>1, <1>2 DEF IInv, TypeOK
  <2>2. TypeOK'
    BY <1>1, <2>1 DEF IInv, TypeOK
  <2>3. WithinLength'
    BY <1>1, <1>2 DEF IInv, WithinLength
  <2> QED BY <2>2, <2>3
<1>4. CASE length[t] = ended[t]
  <2>1. ended' = ended /\ lost' = lost
    BY <1>1, <1>2, <1>4
  <2>2. \A w \in Workers : InHand(w)'
    <3> SUFFICES ASSUME NEW w \in Workers PROVE InHand(w)'
      OBVIOUS
    <3>1. InHand(w)
      BY DEF IInv
    <3> QED BY <1>1, <2>1, <3>1, HandIsKept DEF InHand
  <2>3. NoEndIsForgotten'
    BY <1>1, <2>1 DEF IInv, NoEndIsForgotten, HasJob, At, Of
  <2> QED BY <1>1, <1>3, <2>2, <2>3, HostLeaves DEF IInv
<1>5. CASE length[t] # ended[t]
  <2>1. lost \subseteq lost' /\ (t \in lost' \/ WillBeRead(t))
    BY <1>1, <1>5
  <2>2. \A w \in Workers : InHand(w)'
    <3> SUFFICES ASSUME NEW w \in Workers PROVE InHand(w)'
      OBVIOUS
    <3>1. InHand(w)
      BY DEF IInv
    <3>2. Of(w) # t => ended'[Of(w)] = ended[Of(w)]
      BY <1>1, <1>2
    <3>3. HasRead(w) /\ WillBeRead(t) => t \in ending \/ \E j \in jobs : j.transcript = t /\ j # worker[w].job
      <4>1. ASSUME HasRead(w), NEW v \in Workers, At(v, "rewrite") PROVE FALSE
        BY <4>1, ExtractAssumption DEF IInv, OneHolder, Holding, HasRead, At
      <4> QED BY <4>1 DEF WillBeRead
    <3> QED BY <1>1, <2>1, <3>1, <3>2, <3>3, HandIsKept DEF InHand
  <2>3. NoEndIsForgotten'
    <3> SUFFICES ASSUME NEW u \in Transcripts, u \notin gone, u \notin lost', ended'[u] > offset[u]
                 PROVE  \/ \E j \in jobs : j.transcript = u
                        \/ u \in ending
                        \/ \E v \in Workers : worker[v].pc = "rewrite" /\ worker[v].job.transcript = u
      BY <1>1 DEF NoEndIsForgotten, HasJob, At, Of
    <3>1. CASE u = t
      BY <2>1, <3>1 DEF WillBeRead, At, Of
    <3>2. CASE u # t
      <4>1. ended'[u] = ended[u]
        BY <1>1, <1>2, <3>2
      <4> QED BY <1>1, <2>1, <4>1 DEF IInv, NoEndIsForgotten, HasJob, At, Of
    <3> QED BY <3>1, <3>2
  <2> QED BY <1>1, <1>3, <2>2, <2>3, HostLeaves DEF IInv
<1> QED BY <1>4, <1>5

\* A hook does not get to its job file.
LEMMA HookFailsStep ==
  ASSUME IInv, NEW t \in Transcripts, HookFails(t)
  PROVE  IInv'
<1>1. /\ ending' = ending \ {t} /\ lost' = lost \cup {t} /\ faults' \in 0..MaxFaults
      /\ UNCHANGED <<length, compacted, gone, offset, attempts, claimed, jobs, lock, worker,
                     extracted, missed, ended>>
  BY ExtractAssumption DEF HookFails, Fault, files, IInv, TypeOK
<1>2. TypeOK' /\ WithinLength'
  BY <1>1 DEF IInv, TypeOK, WithinLength
<1>3. \A w \in Workers : InHand(w)'
  <2> SUFFICES ASSUME NEW w \in Workers PROVE InHand(w)'
    OBVIOUS
  <2>1. InHand(w)
    BY DEF IInv
  <2> QED BY <1>1, <2>1, HandIsKept DEF InHand
<1>4. NoEndIsForgotten'
  BY <1>1 DEF IInv, NoEndIsForgotten, HasJob, At, Of
<1> QED BY <1>1, <1>2, <1>3, <1>4, HostLeaves DEF IInv

\* The job file for the end of a session, of all that is written.
LEMMA WriteJobStep ==
  ASSUME IInv, NEW t \in Transcripts, WriteJob(t), t \notin gone
  PROVE  IInv'
<1> DEFINE j == JobFile(t, length[t])
<1>1. /\ t \in ending /\ ending' = ending \ {t} /\ jobs' = jobs \cup {j} /\ lost' = lost \ {t}
      /\ UNCHANGED <<length, compacted, gone, offset, attempts, claimed, lock, faults, extracted,
                     missed, ended>>
  BY DEF WriteJob, files
<1>2. /\ length \in [Transcripts -> 0..MaxLength] /\ ended \in [Transcripts -> 0..MaxLength]
      /\ jobs \subseteq Jobs /\ worker \in [Workers -> WorkerType] /\ MaxLength \in Nat
  BY ExtractAssumption DEF IInv, TypeOK, WorkerType
<1>3. j \in Jobs /\ Written(j) /\ j.transcript = t /\ j.mtime = length[t]
  BY <1>1, JobFileIsWritten DEF JobFile, IInv, WithinLength
  \* The runner of a fork begins, or nobody does.
<1>4. \/ worker' = worker
      \/ \E w \in Workers : \E r \in WorkerType :
            /\ worker[w].pc = "idle" /\ worker' = [worker EXCEPT ![w] = r]
            /\ r.pc = "spawned" /\ r.mode = "fork" /\ r.todo = {} /\ r.job = j /\ r.upto = 0
  <2>1. CASE worker' # worker
    <3> DEFINE r == [Idle EXCEPT !.pc = "spawned", !.mode = "fork", !.job = j]
    <3>1. PICK w \in Forkers : worker[w].pc = "idle" /\ worker' = [worker EXCEPT ![w] = r]
      BY <2>1 DEF WriteJob, At, Become
    <3> HIDE DEF j
    <3>2. /\ r \in WorkerType
          /\ r.pc = "spawned" /\ r.mode = "fork" /\ r.todo = {} /\ r.job = j /\ r.upto = 0
      BY <1>3, IdleFields DEF WorkerType, PCs, Modes
    <3> HIDE DEF r
    <3> QED BY <3>1, <3>2 DEF Workers
  <2> QED BY <2>1
<1> HIDE DEF j
<1>5. worker' \in [Workers -> WorkerType]
  BY <1>2, <1>4
<1>6. \A w \in Workers :
        \/ worker'[w] = worker[w]
        \/ /\ worker[w].pc = "idle" /\ worker'[w].pc = "spawned" /\ worker'[w].mode = "fork"
           /\ worker'[w].todo = {} /\ worker'[w].job = j /\ worker'[w].upto = 0
  BY <1>2, <1>4
<1>7. TypeOK' /\ WithinLength'
  <2>1. jobs' \subseteq Jobs
    BY <1>1, <1>2, <1>3
  <2>2. TypeOK'
    BY <1>1, <1>5, <2>1 DEF IInv, TypeOK, WorkerType
  <2>3. WithinLength'
    BY <1>1, <1>2 DEF IInv, WithinLength
  <2> QED BY <2>2, <2>3
<1>8. OneHolder' /\ \A w \in Workers : Shape(worker'[w])
  <2>1. OneHolder'
    BY <1>1, <1>6 DEF IInv, OneHolder, Holding
  <2>2. \A w \in Workers : Shape(worker'[w])
    BY <1>3, <1>6 DEF IInv, Shape
  <2> QED BY <2>1, <2>2
<1>9. JobsAreWritten'
  <2>1. \A i \in jobs' : Written(i)'
    BY <1>1, <1>3 DEF IInv, JobsAreWritten, Written
  <2>2. \A w \in Workers : \A i \in worker'[w].todo : Written(i)'
    BY <1>1, <1>6 DEF IInv, JobsAreWritten, Written
  <2>3. \A w \in Workers : worker'[w].job # NoJob => Written(worker[w].job)'
    BY <1>1, <1>3, <1>6 DEF IInv, JobsAreWritten, Written
  <2> QED BY <2>1, <2>2, <2>3 DEF JobsAreWritten, Written
<1>10. ASSUME NEW w \in Workers PROVE InHand(w)'
  <2>1. CASE worker'[w] = worker[w]
    <3>1. InHand(w) /\ worker[w] \in WorkerType /\ Shape(worker[w])
      BY WorkerIsTyped DEF IInv
      \* The new job file is a later one than that of the worker.
    <3>2. CASE HasRead(w) /\ worker[w].upto > 0 /\ ended[Of(w)] > worker[w].upto /\ Of(w) = t
      <4>1. worker[w].job.mtime <= worker[w].upto /\ worker[w].job.mtime \in Nat /\ worker[w].upto \in Nat
        BY <3>1, <3>2, PartIsTyped DEF InHand, HasRead
      <4>2. ended[t] <= length[t] /\ ended[t] \in Nat /\ length[t] \in Nat
        BY <1>2 DEF IInv, WithinLength
      <4>3. j # worker[w].job
        BY <1>3, <3>2, <4>1, <4>2
      <4> QED BY <1>1, <1>3, <2>1, <3>2, <4>3, HandIsKept
    <3>3. CASE ~(HasRead(w) /\ worker[w].upto > 0 /\ ended[Of(w)] > worker[w].upto /\ Of(w) = t)
      BY <1>1, <2>1, <3>1, <3>3, HandIsKept DEF InHand
    <3> QED BY <3>2, <3>3
  <2>2. CASE worker'[w] # worker[w]
    BY <1>6, <2>2, NothingInHand
  <2> QED BY <2>1, <2>2
<1>11. NothingIsSkipped'
  BY <1>1 DEF IInv, NothingIsSkipped
<1>12. NoEndIsForgotten'
  <2> SUFFICES ASSUME NEW u \in Transcripts, u \notin gone, u \notin lost', ended[u] > offset[u]
               PROVE  \/ \E i \in jobs' : i.transcript = u
                      \/ u \in ending'
                      \/ \E v \in Workers : worker'[v].pc = "rewrite" /\ worker'[v].job.transcript = u
    BY <1>1 DEF NoEndIsForgotten, HasJob, At, Of
  <2>1. CASE u = t
    BY <1>1, <1>3, <2>1
  <2>2. CASE u # t
    <3>1. \/ \E i \in jobs : i.transcript = u
          \/ u \in ending
          \/ \E v \in Workers : worker[v].pc = "rewrite" /\ worker[v].job.transcript = u
      BY <1>1, <2>2 DEF IInv, NoEndIsForgotten, HasJob, At, Of
    <3> QED BY <1>1, <1>6, <2>2, <3>1
  <2> QED BY <2>1, <2>2
<1> QED BY <1>7, <1>8, <1>9, <1>10, <1>11, <1>12 DEF IInv

\* The hook of a session whose transcript has gone writes none.
LEMMA WriteNoJobStep ==
  ASSUME IInv, NEW t \in Transcripts, WriteJob(t), t \in gone
  PROVE  IInv'
<1>1. /\ ending' = ending \ {t}
      /\ UNCHANGED <<length, compacted, gone, offset, attempts, claimed, jobs, lock, worker, faults,
                     extracted, missed, ended, lost>>
  BY DEF WriteJob, files
<1>2. TypeOK' /\ WithinLength'
  BY <1>1 DEF IInv, TypeOK, WithinLength
<1>3. \A w \in Workers : InHand(w)'
  <2> SUFFICES ASSUME NEW w \in Workers PROVE InHand(w)'
    OBVIOUS
  <2>1. InHand(w)
    BY DEF IInv
  <2> QED BY <1>1, <2>1, HandIsKept DEF InHand
<1>4. NoEndIsForgotten'
  BY <1>1 DEF IInv, NoEndIsForgotten, HasJob, At, Of
<1> QED BY <1>1, <1>2, <1>3, <1>4, HostLeaves DEF IInv

\* A worker that takes the free lock to list the jobs, or to read a transcript.
LEMMA BeginStep ==
  ASSUME IInv, NEW w \in Workers, worker[w].pc = "idle", lock = Nobody, lock' = w,
         NEW r \in WorkerType, Become(w, r), r.pc \in {"next", "read"}, r.mode \in {"list", "session"},
         r.from = 0, r.upto = 0, r.todo \subseteq jobs, r.job # NoJob => Written(r.job),
         r.pc = "read" => r.job \in Jobs,
         UNCHANGED <<files, offset, attempts, claimed, ending, jobs, faults, history>>
  PROVE  IInv'
<1>1. Moves(w, r) /\ \A j \in jobs' : Written(j)
  BY DEF Moves, Shape, Become, IInv, JobsAreWritten
<1>2. UNCHANGED <<length, compacted, gone, offset, attempts, claimed, ending, jobs, faults, extracted, missed,
                  ended, lost>>
  BY DEF files, history
<1>3. /\ worker' \in [Workers -> WorkerType] /\ lock' \in Workers \cup {Nobody}
      /\ OneHolder' /\ JobsAreWritten' /\ \A v \in Workers : Shape(worker'[v])
  BY <1>1, <1>2, MovesControl
<1>4. worker'[w] = r /\ \A v \in Workers \ {w} : worker'[v] = worker[v]
  BY DEF Become, IInv, TypeOK
<1>5. TypeOK'
  BY <1>2, <1>3 DEF IInv, TypeOK, WorkerType
<1>6. \A v \in Workers : InHand(v)'
  BY <1>2, <1>4 DEF IInv, InHand, HasRead, ForkIsGone, Of, Dealt
<1>7. WithinLength' /\ NothingIsSkipped'
  BY <1>2 DEF IInv, WithinLength, NothingIsSkipped
<1>8. NoEndIsForgotten'
  BY <1>2, <1>4 DEF IInv, NoEndIsForgotten, HasJob, At, Of
<1> QED BY <1>3, <1>5, <1>6, <1>7, <1>8 DEF IInv

\* nokori extract --session begins.
LEMMA ExtractSessionStep ==
  ASSUME IInv, NEW w \in Extractors, NEW t \in Transcripts, ExtractSession(w, t)
  PROVE  IInv'
<1> DEFINE j == JobFile(t, length[t])
           r == [Idle EXCEPT !.pc = "read", !.mode = "session", !.job = j]
<1>1. /\ worker[w].pc = "idle" /\ lock = Nobody /\ lock' = w /\ Become(w, r) /\ w \in Workers
      /\ length[t] > 0 /\ UNCHANGED <<files, offset, attempts, claimed, ending, jobs, faults, history>>
  BY DEF ExtractSession, At, Acquire, Workers
<1>2. j \in Jobs /\ Written(j)
  BY <1>1, JobFileIsWritten
<1> HIDE DEF j
<1>3. /\ r \in WorkerType /\ r.pc = "read" /\ r.mode = "session" /\ r.todo = {} /\ r.job = j
      /\ r.from = 0 /\ r.upto = 0
  BY <1>2, IdleFields DEF WorkerType, PCs, Modes
<1> HIDE DEF r
<1> QED BY <1>1, <1>2, <1>3, BeginStep

\* nokori extract begins.
LEMMA StartExtractStep ==
  ASSUME IInv, NEW w \in Extractors, StartExtract(w)
  PROVE  IInv'
<1> DEFINE r == [Idle EXCEPT !.pc = "next", !.todo = jobs]
<1>1. /\ worker[w].pc = "idle" /\ lock = Nobody /\ lock' = w /\ Become(w, r) /\ w \in Workers
      /\ UNCHANGED <<files, offset, attempts, claimed, ending, jobs, faults, history>>
  BY DEF StartExtract, At, Acquire, Workers
<1>2. jobs \subseteq Jobs
  BY DEF IInv, TypeOK
<1>3. /\ r \in WorkerType /\ r.pc = "next" /\ r.mode = "list" /\ r.todo = jobs /\ r.job = NoJob
      /\ r.from = 0 /\ r.upto = 0
  BY <1>2, IdleFields DEF WorkerType, PCs
<1> HIDE DEF r
<1> QED BY <1>1, <1>3, BeginStep

-----------------------------------------------------------------------------
\* At first there is nothing.
LEMMA InitIInv ==
  ASSUME Init
  PROVE  IInv
<1>1. \A w \in Workers : worker[w] = Idle
  BY DEF Init
<1>2. TypeOK
  <2>1. worker \in [Workers -> WorkerType]
    BY <1>1, IdleFields DEF Init
  <2> QED BY <2>1, ExtractAssumption DEF Init, TypeOK, WorkerType
<1>3. OneHolder
  BY <1>1, IdleFields, ExtractAssumption DEF Init, OneHolder, Holding
<1>4. JobsAreWritten /\ WithinLength
  <2>1. JobsAreWritten
    BY <1>1, IdleFields DEF Init, JobsAreWritten
  <2>2. WithinLength
    BY DEF Init, WithinLength
  <2> QED BY <2>1, <2>2
<1>5. \A w \in Workers : Shape(worker[w]) /\ InHand(w)
  BY <1>1, IdleFields, IdleShape DEF InHand, HasRead
<1>6. NothingIsSkipped /\ NoEndIsForgotten
  <2>1. \A t \in Transcripts : 1..offset[t] = {} /\ ended[t] = 0 /\ offset[t] = 0
    BY DEF Init
  <2> QED BY <2>1 DEF NothingIsSkipped, NoEndIsForgotten
<1> QED BY <1>2, <1>3, <1>4, <1>5, <1>6 DEF IInv

\* Every step keeps the invariant.
LEMMA NextIInv ==
  ASSUME IInv, [Next]_vars
  PROVE  IInv'
<1>1. CASE UNCHANGED vars
  <2>1. UNCHANGED <<length, compacted, gone, offset, attempts, claimed, ending, jobs, lock, worker, faults,
                    extracted, missed, ended, lost>>
    BY <1>1 DEF vars, files, history
  <2>2. TypeOK' /\ OneHolder' /\ JobsAreWritten' /\ WithinLength' /\ NothingIsSkipped'
    BY <2>1 DEF IInv, TypeOK, OneHolder, Holding, JobsAreWritten, Written, WithinLength,
       NothingIsSkipped
  <2>3. \A w \in Workers : Shape(worker'[w]) /\ InHand(w)'
    BY <2>1 DEF IInv, InHand, HasRead, ForkIsGone, Of, Dealt
  <2>4. NoEndIsForgotten'
    BY <2>1 DEF IInv, NoEndIsForgotten, HasJob, At, Of
  <2> QED BY <2>2, <2>3, <2>4 DEF IInv
<1>2. CASE Next
  <2>1. ASSUME NEW t \in Transcripts, Host(t) PROVE IInv'
    BY <2>1, AppendStep, HostDeletesStep, SessionEndStep, EndUnderClaimStep, HookFailsStep,
       WriteJobStep,
       WriteNoJobStep DEF Host
  <2>2. ASSUME NEW w \in Extractors, NEW t \in Transcripts, ExtractSession(w, t) PROVE IInv'
    BY <2>2, ExtractSessionStep
  <2>3. ASSUME NEW w \in Extractors, StartExtract(w) PROVE IInv'
    BY <2>3, StartExtractStep
  <2>4. ASSUME NEW w \in Workers, Step(w) \/ Crash(w) PROVE IInv'
    BY <2>4, WorkerStep
  <2> QED BY <1>2, <2>1, <2>2, <2>3, <2>4 DEF Next
<1> QED BY <1>1, <1>2

\* What holds at every point of every extraction.
THEOREM ExtractInvariant == Spec => []IInv
  BY InitIInv, NextIInv, PTL DEF Spec

\* The state is what the code takes it for; in particular a drain never counts
\* more failures than end it.
THEOREM ExtractTypes == Spec => []TypeOK
<1>1. IInv => TypeOK
  BY DEF IInv
<1> QED BY <1>1, ExtractInvariant, PTL

\* What had been said at the end of a session, beyond the offset, has a job file
\* or is about to get one, in every order of the steps of ends, extractions,
\* runners of forks and crashes (session_end.py, extract/process.py,
\* extract/fork_runner.py), except after what puts a transcript into lost: an
\* end under a claim whose job was read, a hook that fails after its claim, a
\* crash in a rename, a transcript that reads as empty, an offset a fork could
\* not record, a quarantined job file.
THEOREM EndsAreKept == Spec => []NoEndIsForgotten
<1>1. IInv => NoEndIsForgotten
  BY DEF IInv
<1> QED BY <1>1, ExtractInvariant, PTL

\* The offset passes only over what has been extracted and what is in missed:
\* what a fork did not show because of a compaction, what was said while a forked
\* session was being extracted, and candidates that could not be queued beside
\* dead ones (extract/process.py, extract/fork_runner.py).
THEOREM ConversationIsRead == Spec => []NothingIsSkipped
<1>1. IInv => NothingIsSkipped
  BY DEF IInv
<1> QED BY <1>1, ExtractInvariant, PTL

\* No run takes the offset back to where an earlier one had been; only a
\* transcript that cannot be read starts over.
THEOREM OffsetsGrow == Spec => OffsetNeverFalls
<1> DEFINE A == \A t \in Transcripts : offset'[t] >= offset[t] \/ offset'[t] = 0
<1>1. ASSUME IInv, [Next]_vars PROVE A
  <2> SUFFICES ASSUME NEW t \in Transcripts
               PROVE  offset'[t] >= offset[t] \/ offset'[t] = 0
    OBVIOUS
  <2>1. offset \in [Transcripts -> 0..MaxLength] /\ offset[t] \in Nat
    BY <1>1, ExtractAssumption DEF IInv, TypeOK
  <2>2. CASE \E w \in Workers : Mark(w)
    BY <1>1, <2>1, <2>2, MarkOffset
  <2>3. CASE ~ \E w \in Workers : Mark(w)
    <3>1. ASSUME NEW w \in Workers, Step(w) \/ Crash(w) PROVE offset' = offset
      BY <2>3, <3>1, OffsetIsKept
    <3>2. offset' = offset
      BY <1>1, <3>1 DEF vars, Next, Host, Append, HostDeletes, SessionEnd, EndUnderClaim, WriteJob,
         HookFails, PruneStaleClaims, ExtractSession, StartExtract
    <3> QED BY <2>1, <3>2
  <2> QED BY <2>2, <2>3
<1>2. IInv /\ [Next]_vars => [A]_vars
  BY <1>1
<1>3. Spec => [][A]_vars
  BY <1>2, ExtractInvariant, PTL DEF Spec
<1> QED BY <1>3 DEF OffsetNeverFalls
=============================================================================
