---------------------------- MODULE ExtractJobs ----------------------------
(***************************************************************************)
(* The way of a transcript into the rules.  The end of a session leaves a  *)
(* job file named by transcript and modification time; nokori extract, or  *)
(* a runner that forks the ended session, takes the job files under one    *)
(* lock, extracts what lies beyond the recorded offset, records the new    *)
(* offset and deletes the job file.  Sessions are resumed and appended to  *)
(* at any time, processes die between any two of these steps, and most     *)
(* errors are caught and logged: the step is left out and the rest runs on.*)
(*                                                                         *)
(* A transcript only grows, so its length stands for its modification time *)
(* as well.  What happens to a candidate after it is extracted is module   *)
(* ColdPipeline; here it settles, is left pending, or fails until its      *)
(* retries are over.                                                       *)
(***************************************************************************)
EXTENDS Integers, FiniteSets

CONSTANTS
  Transcripts,
  Extractors,           \* processes that run nokori extract
  Forkers,              \* runners of a forked session
  Nobody,
  NoJob,
  MAX_TRANSCRIPT,       \* the longest unread part that is read
  MAX_INGEST_RETRIES,
  DRAIN_FAILURES,       \* failures in a row that end a drain, 3 in the code
  MaxLength, MaxFaults  \* bounds

Workers == Extractors \cup Forkers
Positions == 1..MaxLength
Jobs == [transcript : Transcripts, mtime : Positions]

ASSUME ExtractAssumption ==
  /\ Nobody \notin Workers /\ NoJob \notin Jobs /\ Extractors \cap Forkers = {}
  /\ MAX_TRANSCRIPT \in Nat /\ MAX_INGEST_RETRIES \in Nat \ {0}
  /\ DRAIN_FAILURES \in Nat \ {0} /\ MaxLength \in Nat /\ MaxFaults \in Nat

VARIABLES
  length,     \* of each transcript
  compacted,  \* where its last compact_boundary lies, 0 if there is none
  gone,       \* transcripts the host has deleted
  offset,     \* extract_state.last_byte_offset
  attempts,   \* failed attempts at the candidates beyond the offset
  claimed,    \* transcripts with a session-end claim
  ending,     \* those whose end hook has yet to write the job file
  jobs,       \* job files
  lock,       \* the holder of extract.lock
  worker,     \* [Workers -> [pc, mode, todo, job, from, upto, fails]]
  faults,
  extracted,  \* history: positions whose candidates have been dealt with
  missed,     \* history: positions no extraction will deal with
  ended,      \* history: the length at the last end of the session
  lost        \* history: transcripts one of whose ends was left without a job

files == <<length, compacted, gone>>
history == <<extracted, missed, ended, lost>>
vars == <<files, offset, attempts, claimed, ending, jobs, lock, worker, faults, history>>

PCs == {"idle", "spawned", "next", "rewrite", "read", "fork", "extract", "mark", "markdead",
        "delete", "drop"}
Modes == {"list", "session", "fork", "drain"}
Idle == [pc |-> "idle", mode |-> "list", todo |-> {}, job |-> NoJob,
         from |-> 0, upto |-> 0, fails |-> 0]

TypeOK ==
  /\ length \in [Transcripts -> 0..MaxLength] /\ compacted \in [Transcripts -> 0..MaxLength]
  /\ gone \subseteq Transcripts /\ claimed \subseteq Transcripts
  /\ ending \subseteq claimed /\ lost \subseteq Transcripts
  /\ offset \in [Transcripts -> 0..MaxLength]
  /\ attempts \in [Transcripts -> 0..MAX_INGEST_RETRIES]
  /\ jobs \subseteq Jobs
  /\ lock \in Workers \cup {Nobody}
  /\ worker \in [Workers -> [pc : PCs, mode : Modes, todo : SUBSET Jobs, job : Jobs \cup {NoJob},
                             from : 0..MaxLength, upto : 0..MaxLength, fails : 0..DRAIN_FAILURES]]
  /\ faults \in 0..MaxFaults
  /\ extracted \in [Transcripts -> SUBSET Positions]
  /\ missed \in [Transcripts -> SUBSET Positions]
  /\ ended \in [Transcripts -> 0..MaxLength]

Init ==
  /\ length = [t \in Transcripts |-> 0] /\ compacted = [t \in Transcripts |-> 0]
  /\ gone = {} /\ claimed = {} /\ ending = {} /\ lost = {} /\ jobs = {}
  /\ offset = [t \in Transcripts |-> 0] /\ attempts = [t \in Transcripts |-> 0]
  /\ lock = Nobody /\ worker = [w \in Workers |-> Idle]
  /\ faults = 0
  /\ extracted = [t \in Transcripts |-> {}] /\ missed = [t \in Transcripts |-> {}]
  /\ ended = [t \in Transcripts |-> 0]

Become(w, rec) == worker' = [worker EXCEPT ![w] = rec]
GoTo(w, pc) == Become(w, [worker[w] EXCEPT !.pc = pc])
At(w, pc) == worker[w].pc = pc
Of(w) == worker[w].job.transcript
Fault == faults < MaxFaults /\ faults' = faults + 1

\* The history of a position is what comes first.
Extracts(t, part) == extracted' = [extracted EXCEPT ![t] = @ \cup (part \ missed[t])]
Misses(t, part) == missed' = [missed EXCEPT ![t] = @ \cup (part \ extracted[t])]

-----------------------------------------------------------------------------
(* The host                                                                *)

\* A session compacted between the runner's look at it and its fork shows the
\* fork nothing of what lies between the offset and the compaction.
Append(t, boundary) ==
  /\ t \notin gone /\ length[t] < MaxLength
  /\ length' = [length EXCEPT ![t] = @ + 1]
  /\ compacted' = IF boundary THEN [compacted EXCEPT ![t] = length[t] + 1] ELSE compacted
  /\ IF boundary /\ \E w \in Workers : At(w, "fork") /\ Of(w) = t
     THEN Misses(t, (offset[t] + 1)..(length[t] + 1)) ELSE UNCHANGED missed
  /\ UNCHANGED <<gone, offset, attempts, claimed, ending, jobs, lock, worker, faults,
                 extracted, ended, lost>>

HostDeletes(t) ==
  /\ t \notin gone /\ length[t] > 0
  /\ gone' = gone \cup {t}
  /\ UNCHANGED <<length, compacted, offset, attempts, claimed, ending, jobs, lock, worker, faults, history>>

-----------------------------------------------------------------------------
(* The end of a session: the hook takes a claim, then writes a job file    *)
(* for the transcript as it is by then.                                    *)

\* Mutant: one job file per transcript.
JobOfTranscript(t, mtime) == [transcript |-> t, mtime |-> 1]
JobFile(t, mtime) == [transcript |-> t, mtime |-> mtime]

Ends(t) == t \notin gone /\ length[t] > 0 /\ ended' = [ended EXCEPT ![t] = length[t]]

SessionEnd(t) ==
  /\ Ends(t) /\ t \notin claimed
  /\ claimed' = claimed \cup {t} /\ ending' = ending \cup {t}
  /\ UNCHANGED <<files, offset, attempts, jobs, lock, worker, faults, extracted, missed, lost>>

HasRead(w) == worker[w].pc \in {"extract", "mark", "markdead", "delete", "drop"}

\* A job file of the transcript is to come, or is there and has yet to be read.
WillBeRead(t) ==
  \/ t \in ending
  \/ \E w \in Workers : At(w, "rewrite") /\ Of(w) = t
  \/ \E j \in jobs : j.transcript = t /\ \A w \in Workers : HasRead(w) => worker[w].job # j

\* An end under the claim of an earlier one is answered with nothing done, also
\* when the session has been resumed between them.
EndUnderClaim(t) ==
  /\ Ends(t) /\ t \in claimed
  /\ lost' = IF length[t] = ended[t] \/ WillBeRead(t) THEN lost ELSE lost \cup {t}
  /\ UNCHANGED <<files, offset, attempts, claimed, ending, jobs, lock, worker, faults, extracted, missed>>

WriteJob(t) ==
  /\ t \in ending
  /\ ending' = ending \ {t}
  /\ IF t \in gone THEN UNCHANGED <<jobs, worker, lost>>
     ELSE /\ jobs' = jobs \cup {JobFile(t, length[t])}
          /\ lost' = lost \ {t}
          /\ \/ UNCHANGED worker
             \/ \E w \in Forkers :
                  /\ At(w, "idle")
                  /\ Become(w, [Idle EXCEPT !.pc = "spawned", !.mode = "fork", !.job = JobFile(t, length[t])])
  /\ UNCHANGED <<files, offset, attempts, claimed, lock, faults, extracted, missed, ended>>

\* The hook is killed before it writes the job file, or the write fails and is
\* logged: the claim stays.
HookFails(t) ==
  /\ t \in ending /\ Fault
  /\ ending' = ending \ {t} /\ lost' = lost \cup {t}
  /\ UNCHANGED <<files, offset, attempts, claimed, jobs, lock, worker, extracted, missed, ended>>

PruneStaleClaims(t) ==
  /\ t \in claimed \ ending
  /\ claimed' = claimed \ {t}
  /\ UNCHANGED <<files, offset, attempts, ending, jobs, lock, worker, faults, history>>

-----------------------------------------------------------------------------
(* Taking the jobs                                                         *)

\* Mutant: the lock is taken whether or not it is free.
AcquireAnyway(w) == lock' = w
Acquire(w) == lock = Nobody /\ lock' = w

StartExtract(w) ==
  /\ w \in Extractors /\ At(w, "idle") /\ jobs # {}
  /\ Acquire(w)
  /\ Become(w, [Idle EXCEPT !.pc = "next", !.todo = jobs])
  /\ UNCHANGED <<files, offset, attempts, claimed, ending, jobs, faults, history>>

\* nokori extract --session: one transcript, whatever job files there are.
ExtractSession(w, t) ==
  /\ w \in Extractors /\ At(w, "idle") /\ t \notin gone /\ length[t] > 0
  /\ Acquire(w)
  /\ Become(w, [Idle EXCEPT !.pc = "read", !.mode = "session", !.job = JobFile(t, length[t])])
  /\ UNCHANGED <<files, offset, attempts, claimed, ending, jobs, faults, history>>

\* A drain ends after failures in a row.
GaveUp(w) == worker[w].mode = "drain" /\ worker[w].fails >= DRAIN_FAILURES

Return(w) == Become(w, Idle) /\ lock' = Nobody

Finish(w) ==
  /\ At(w, "next") /\ (worker[w].todo = {} \/ GaveUp(w))
  /\ Return(w)
  /\ UNCHANGED <<files, offset, attempts, claimed, ending, jobs, faults, history>>

\* A listed job file may be gone by now, and so may its transcript.
Skip(w, j) ==
  /\ At(w, "next") /\ j \in worker[w].todo /\ ~GaveUp(w)
  /\ j \notin jobs \/ j.transcript \in gone
  /\ jobs' = jobs \ {j}
  /\ Become(w, [worker[w] EXCEPT !.todo = @ \ {j}])
  /\ UNCHANGED <<files, offset, attempts, claimed, ending, lock, faults, history>>

\* A job file that cannot be parsed is moved out of the way.
Quarantine(w, j) ==
  /\ At(w, "next") /\ j \in worker[w].todo \cap jobs /\ ~GaveUp(w) /\ Fault
  /\ jobs' = jobs \ {j} /\ lost' = lost \cup {j.transcript}
  /\ Become(w, [worker[w] EXCEPT !.todo = @ \ {j}])
  /\ UNCHANGED <<files, offset, attempts, claimed, ending, lock, extracted, missed, ended>>

\* nokori extract renames the job file of a transcript that has grown.
Refreshes(w, j) == worker[w].mode = "list" /\ j.mtime # length[j.transcript]

Take(w, j) ==
  /\ At(w, "next") /\ j \in worker[w].todo /\ ~GaveUp(w)
  /\ j \in jobs /\ j.transcript \notin gone
  /\ LET taken == [worker[w] EXCEPT !.todo = @ \ {j}, !.job = j] IN
     IF Refreshes(w, j)
     THEN /\ jobs' = jobs \ {j}
          /\ Become(w, [taken EXCEPT !.pc = "rewrite",
                          !.job = JobFile(j.transcript, length[j.transcript])])
     ELSE /\ Become(w, [taken EXCEPT !.pc = "read"])
          /\ UNCHANGED jobs
  /\ UNCHANGED <<files, offset, attempts, claimed, ending, lock, faults, history>>

Rewrite(w) ==
  /\ At(w, "rewrite")
  /\ jobs' = jobs \cup {worker[w].job}
  /\ GoTo(w, "read")
  /\ UNCHANGED <<files, offset, attempts, claimed, ending, lock, faults, history>>

-----------------------------------------------------------------------------
(* Reading and forking                                                     *)

\* What follows a job: the next one, or the end of an explicit extraction.
\* A forked session is followed by the drain of all jobs but its own.
Proceed(w, fails) ==
  CASE worker[w].mode = "session" -> Return(w)
    [] worker[w].mode = "fork" ->
         /\ Become(w, [Idle EXCEPT !.pc = "next", !.mode = "drain", !.todo = jobs \ {worker[w].job}])
         /\ UNCHANGED lock
    [] OTHER -> /\ Become(w, [worker[w] EXCEPT !.pc = "next", !.job = NoJob, !.upto = 0, !.fails = fails])
                /\ UNCHANGED lock

Failures(w) == IF worker[w].mode = "drain" THEN worker[w].fails + 1 ELSE 0

TooLong(t) == length[t] - offset[t] > MAX_TRANSCRIPT

\* A part too long to read is an exception, and the job file stays.
Read(w) ==
  /\ At(w, "read") /\ Of(w) \notin gone
  /\ IF TooLong(Of(w)) THEN Proceed(w, Failures(w))
     ELSE Become(w, [worker[w] EXCEPT !.pc = "extract", !.upto = length[Of(w)]]) /\ UNCHANGED lock
  /\ UNCHANGED <<files, offset, attempts, claimed, ending, jobs, faults, history>>

\* A transcript that is gone, or cannot be opened, reads as empty up to 0.
ReadNothing(w) ==
  /\ At(w, "read")
  /\ IF Of(w) \in gone THEN UNCHANGED faults ELSE Fault
  /\ GoTo(w, "mark")
  /\ UNCHANGED <<files, offset, attempts, claimed, ending, jobs, lock, history>>

ForkDeferred(w) ==
  /\ At(w, "spawned") /\ lock # Nobody
  /\ Become(w, Idle)
  /\ UNCHANGED <<files, offset, attempts, claimed, ending, jobs, lock, faults, history>>

\* Mutant: a compacted session is forked all the same.
NeverCompacted(t) == FALSE
CompactAfterOffset(t) == offset[t] > 0 /\ compacted[t] > offset[t]

\* What the compaction has hidden would not be extracted; a transcript that is
\* gone is not looked at.
StartFork(w) ==
  /\ At(w, "spawned") /\ Acquire(w)
  /\ IF Of(w) \notin gone /\ CompactAfterOffset(Of(w))
     THEN Become(w, [Idle EXCEPT !.pc = "next", !.mode = "drain", !.todo = jobs \ {worker[w].job}])
     ELSE GoTo(w, "fork")
  /\ UNCHANGED <<files, offset, attempts, claimed, ending, jobs, faults, history>>

\* The fork shows the session as it is now, from its last compaction on.  One
\* compacted before its first extraction is forked as it is.
ForkSession(w) ==
  /\ At(w, "fork")
  /\ LET t == Of(w) IN
     /\ Become(w, [worker[w] EXCEPT !.pc = "extract", !.from = compacted[t], !.upto = length[t]])
     /\ IF offset[t] = 0 THEN Misses(t, 1..compacted[t]) ELSE UNCHANGED missed
  /\ UNCHANGED <<files, offset, attempts, claimed, ending, jobs, lock, faults, extracted, ended, lost>>

-----------------------------------------------------------------------------
(* Extracting, recording the offset, deleting the job file                 *)

\* Mutant: one more retry.
DeadLater(n) == n > MAX_INGEST_RETRIES
Dead(n) == n >= MAX_INGEST_RETRIES

\* What the extraction of a part sees of it.
Seen(w) == {p \in (offset[Of(w)] + 1)..worker[w].upto : p > worker[w].from}

\* The model is not reached, or answers with nothing that can be parsed: a
\* drain ends, and the job of a forked session is left to a later run.
Unavailable(w) ==
  /\ At(w, "extract") /\ Fault
  /\ IF worker[w].mode = "drain" THEN Return(w) ELSE Proceed(w, 0)
  /\ UNCHANGED <<files, offset, attempts, claimed, ending, jobs, history>>

\* An exception on the way: the job file stays.
Raises(w) ==
  /\ At(w, "extract") /\ Fault
  /\ Proceed(w, Failures(w))
  /\ UNCHANGED <<files, offset, attempts, claimed, ending, jobs, history>>

\* A drain takes an error in parsing for that of a corrupt job file.
Discards(w) ==
  /\ At(w, "extract") /\ worker[w].mode = "drain" /\ Fault
  /\ jobs' = jobs \ {worker[w].job} /\ lost' = lost \cup {Of(w)}
  /\ Proceed(w, worker[w].fails)
  /\ UNCHANGED <<files, offset, attempts, claimed, ending, extracted, missed, ended>>

\* Every candidate settles; perhaps there is none.
Settled(w) ==
  /\ At(w, "extract")
  /\ GoTo(w, "mark")
  /\ Extracts(Of(w), Seen(w))
  /\ UNCHANGED <<files, offset, attempts, claimed, ending, jobs, lock, faults, missed, ended, lost>>

\* Candidates are left pending, by a role that fails or an open circuit
\* breaker, or cannot be looked up or queued: that counts as no failure, and
\* the job file stays.
LeftPending(w) ==
  /\ At(w, "extract") /\ worker[w].upto > offset[Of(w)] /\ Fault
  /\ Proceed(w, 0)
  /\ UNCHANGED <<files, offset, attempts, claimed, ending, jobs, history>>

\* What there is beside the candidates that fail: others that settle, some left
\* pending (or the question whether all are dead fails), some never queued.
Company == {"settled", "pending", "unqueued"}

\* Mutant: the offset waits until every candidate has settled.
WaitsForAll(n, company) == FALSE
MovesOn(n, company) == Dead(n) /\ company # "pending"

\* Candidates fail by an exception.  The failures of one start again from 0
\* when its row has expired, or when the model words it another way.  Once all
\* that failed are dead the offset moves on, also past those a database error
\* kept from being queued.  The job file goes with it in the runner of a fork
\* only; elsewhere the next run finds nothing more to read.
Fails(w) ==
  LET t == Of(w) IN
  /\ At(w, "extract") /\ worker[w].upto > offset[t]
  /\ \E counted \in {attempts[t], 0}, company \in Company :
       LET n == IF Dead(counted) THEN counted ELSE counted + 1 IN
       /\ IF counted = attempts[t] /\ company = "settled" THEN UNCHANGED faults ELSE Fault
       /\ attempts' = [attempts EXCEPT ![t] = n]
       /\ IF MovesOn(n, company)
          THEN \E unqueued \in SUBSET Seen(w) :
                 /\ company = "unqueued" <=> unqueued # {}
                 /\ Extracts(t, Seen(w) \ unqueued)
                 /\ Misses(t, unqueued)
                 /\ GoTo(w, "markdead")
                 /\ UNCHANGED lock
          ELSE Proceed(w, 0) /\ UNCHANGED <<extracted, missed>>
  /\ UNCHANGED <<files, offset, claimed, ending, jobs, ended, lost>>

\* The runner of a fork records the present end of the file, the others the
\* end of what they have read.
RecordedOffset(w) == IF worker[w].mode = "fork" THEN length[Of(w)] ELSE worker[w].upto

ForkIsGone(w) == worker[w].mode = "fork" /\ Of(w) \in gone

\* What was said while a fork ran is recorded as read.  A transcript that read
\* as empty has nothing recorded as read, and loses its job file all the same.
Mark(w) ==
  /\ worker[w].pc \in {"mark", "markdead"}
  /\ LET t == Of(w) IN
     IF ForkIsGone(w) THEN UNCHANGED <<offset, attempts, missed, lost>>
     ELSE /\ offset' = [offset EXCEPT ![t] = RecordedOffset(w)]
          /\ attempts' = [attempts EXCEPT ![t] = 0]
          /\ Misses(t, (worker[w].upto + 1)..RecordedOffset(w))
          /\ lost' = IF worker[w].upto = 0 THEN lost \cup {t} ELSE lost
  /\ IF At(w, "markdead") /\ worker[w].mode # "fork"
     THEN Proceed(w, 0)
     ELSE GoTo(w, "delete") /\ UNCHANGED lock
  /\ UNCHANGED <<files, claimed, ending, jobs, faults, extracted, ended>>

\* The offset is not recorded.  The runner of a fork logs that and deletes the
\* job file; elsewhere it is an exception like others.
MarkFails(w) ==
  /\ worker[w].pc \in {"mark", "markdead"} /\ ~ForkIsGone(w) /\ Fault
  /\ IF worker[w].mode = "fork" THEN GoTo(w, "drop") /\ UNCHANGED lock ELSE Proceed(w, Failures(w))
  /\ UNCHANGED <<files, offset, attempts, claimed, ending, jobs, history>>

DeleteJob(w) ==
  /\ worker[w].pc \in {"delete", "drop"}
  /\ jobs' = IF worker[w].mode = "session" THEN jobs ELSE jobs \ {worker[w].job}
  /\ lost' = IF At(w, "drop") \/ worker[w].upto = 0 THEN lost \cup {Of(w)} ELSE lost
  /\ Proceed(w, 0)
  /\ UNCHANGED <<files, offset, attempts, claimed, ending, faults, extracted, missed, ended>>

\* The lock is a flock: it dies with its process.
Crash(w) ==
  /\ ~At(w, "idle") /\ Fault
  /\ lock' = IF lock = w THEN Nobody ELSE lock
  /\ Become(w, Idle)
  /\ lost' = IF At(w, "rewrite") THEN lost \cup {Of(w)} ELSE lost
  /\ UNCHANGED <<files, offset, attempts, claimed, ending, jobs, extracted, missed, ended>>

Host(t) ==
  \/ Append(t, TRUE) \/ Append(t, FALSE) \/ HostDeletes(t)
  \/ SessionEnd(t) \/ EndUnderClaim(t) \/ WriteJob(t) \/ HookFails(t) \/ PruneStaleClaims(t)

Step(w) ==
  \/ Finish(w)
  \/ \E j \in Jobs : Skip(w, j) \/ Quarantine(w, j) \/ Take(w, j)
  \/ Rewrite(w) \/ Read(w) \/ ReadNothing(w)
  \/ ForkDeferred(w) \/ StartFork(w) \/ ForkSession(w)
  \/ Unavailable(w) \/ Raises(w) \/ Discards(w) \/ Settled(w) \/ LeftPending(w) \/ Fails(w)
  \/ Mark(w) \/ MarkFails(w) \/ DeleteJob(w)

Next ==
  \/ \E t \in Transcripts : Host(t) \/ \E w \in Extractors : ExtractSession(w, t)
  \/ \E w \in Extractors : StartExtract(w)
  \/ \E w \in Workers : Step(w) \/ Crash(w)

Spec == Init /\ [][Next]_vars

\* A started process runs on, and nokori extract is run again and again, at
\* times too when no runner of a fork holds the lock.
FairSpec ==
  /\ Spec
  /\ \A w \in Workers : WF_vars(Step(w))
  /\ \A w \in Extractors : SF_vars(StartExtract(w))

-----------------------------------------------------------------------------
HasJob(t) == \E j \in jobs : j.transcript = t

\* What had been said at the last end of a session, beyond the offset, has a job
\* file or is about to get one.  It is given up only by what follows, and until
\* an end writes its job file again (lost): an end under the claim of an
\* earlier one after the job of that one was read; a hook killed or failing
\* between its claim and its job file; a crash in the rename of a job file; a
\* transcript that reads as empty; an offset a fork could not record before it
\* deleted the job file; a quarantined job file.  In no other order of the steps
\* is an end lost: the job of a second one must not go with that of the first.
NoEndIsForgotten ==
  \A t \in Transcripts \ (gone \cup lost) :
    ended[t] > offset[t] =>
      HasJob(t) \/ t \in ending \/ \E w \in Workers : At(w, "rewrite") /\ Of(w) = t

\* Below the offset nothing has gone by unread, except (missed) what a fork did
\* not show, because of a compaction before the first extraction or after the
\* look for one; what was said while a forked session was being extracted; and
\* candidates a database error kept from being queued beside dead ones.
NothingIsSkipped ==
  \A t \in Transcripts : 1..offset[t] \subseteq extracted[t] \cup missed[t]

\* No run takes the offset back to where an earlier one had been, whatever
\* order they finish in; only an unreadable transcript starts over.
OffsetNeverFalls ==
  [][\A t \in Transcripts : offset'[t] >= offset[t] \/ offset'[t] = 0]_vars

\* Once the faults are over, every job file is used up at last, unless what it
\* stands for is too long to be read.  Faults are the crashes and errors, and the
\* candidates left pending, expired or worded anew: while there is no end of
\* those a job file stays for ever, since only dead ones let the offset move on.
JobsAreConsumed ==
  \A t \in Transcripts : HasJob(t) ~> (~HasJob(t) \/ TooLong(t))
=============================================================================
