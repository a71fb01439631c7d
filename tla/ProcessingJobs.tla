--------------------------- MODULE ProcessingJobs ---------------------------
(***************************************************************************)
(* The processing jobs of product files: ProcessingJobsService, the        *)
(* polling workers of ProcessingJobsWorker and the deletion of a file.     *)
(*                                                                         *)
(* A step is one statement of the database.  A worker runs its loop:       *)
(* recover what seems interrupted, claim the oldest job, process it, write *)
(* the outcome, first to the file and then to the job.  Workers crash, and *)
(* work may take longer than staleAfterMs, which nothing bounds.           *)
(*                                                                         *)
(* An operator whose name starts with Bug is the operator that follows it  *)
(* with a plausible mistake; no specification uses it.                     *)
(***************************************************************************)
EXTENDS Naturals, FiniteSets

CONSTANTS
  Worker,       \* loops of all API processes, and calls of processNextJob
  Client,       \* calls of create
  File,
  Model,        \* the files that are GLB models; the others are validated only
  NoFile,
  MaxJobs,      \* bound: jobs created over time
  MaxAttempts,  \* maxAttempts of every job: DEFAULT_MAX_ATTEMPTS
  MaxCrashes    \* bound: crashes of workers

ASSUME BoundAssumption == MaxJobs \in Nat /\ MaxAttempts \in Nat \ {0} /\ MaxCrashes \in Nat
ASSUME FileAssumption == Model \subseteq File /\ NoFile \notin File
ASSUME WorkerAssumption == IsFiniteSet(Worker)

VARIABLES
  jobs,      \* the rows of ProductFileProcessingJob, in the order of createdAt
  overdue,   \* the jobs PROCESSING for longer than staleAfterMs
  files,     \* ProductFile.processingStatus
  optimizing,\* rows of ThreeDConversionJob for the file that have not failed
  worker,    \* program counter and locals of every worker
  client,    \* the same of every call of create
  crashes    \* crashes so far

vars == <<jobs, overdue, files, optimizing, worker, client, crashes>>

Job == 1..MaxJobs
\* The promise of the table, a module of its own.
Board == INSTANCE JobBoard WITH board <- jobs

FileStatus == {"PENDING", "PROCESSING", "COMPLETED", "FAILED", "GONE"}
PC == {"idle", "stale", "recover", "recover.file", "claim", "claim.job",
       "claim.read", "claim.file", "process", "enqueue", "enqueue.create",
       "enqueue.note", "finish.file", "finish.job", "fail.file", "fail.job"}
\* job and attempts: the job in hand, as it was read; todo: the stale jobs found
Local == [pc : PC, job : Nat, attempts : Nat, todo : SUBSET (Nat \X Nat)]
Idle == [pc |-> "idle", job |-> 0, attempts |-> 0, todo |-> {}]
NoCall == [pc |-> "idle", file |-> NoFile]
Call == [pc : {"insert", "collided"}, file : File] \cup {NoCall}

TypeOK ==
  /\ jobs \in [Job -> Board!Row]
  /\ overdue \subseteq {j \in Job : jobs[j].status = "PROCESSING"}
  /\ files \in [File -> FileStatus]
  /\ optimizing \in [File -> Nat]
  /\ worker \in [Worker -> Local]
  /\ client \in [Client -> Call]
  /\ crashes \in 0..MaxCrashes

Init ==
  /\ Board!Init
  /\ overdue = {}
  /\ files = [f \in File |-> "PENDING"]
  /\ optimizing = [f \in File |-> 0]
  /\ worker = [w \in Worker |-> Idle]
  /\ client = [c \in Client |-> NoCall]
  /\ crashes = 0

-----------------------------------------------------------------------------

At(w, l) == worker[w].pc = l
Goto(w, l) == worker' = [worker EXCEPT ![w].pc = l]
\* Back to the top of the loop: nothing to do, done, or an error that the loop
\* or processAvailableJobs logs.
Rest(w) == worker' = [worker EXCEPT ![w] = Idle]

Mine(w) == worker[w].job
FileOf(j) == jobs[j].file
Exists(j) == jobs[j].status \notin {"NONE", "GONE"}

BugStaysOverdue(j) == overdue
\* startedAt counts while a job is PROCESSING only.
NoLongerRunning(j) == overdue \ {j}
SetJob(j, s) ==
  /\ jobs' = [jobs EXCEPT ![j].status = s]
  /\ overdue' = NoLongerRunning(j)
SetFile(f, s) == files' = [files EXCEPT ![f] = s]

BugNoIndex(f) == TRUE
\* The partial unique index on productFileId admits an active job.
Admits(f) == \A j \in Job : FileOf(j) = f => jobs[j].status \notin Board!Active

-----------------------------------------------------------------------------
(* ProcessingJobsService *)

\* The two reads: there is the file, and it has no active job.
CreateFind(c, f) ==
  /\ client[c] = NoCall /\ files[f] # "GONE" /\ Admits(f)
  /\ client' = [client EXCEPT ![c] = [pc |-> "insert", file |-> f]]
  /\ UNCHANGED <<jobs, overdue, files, optimizing, worker, crashes>>

Answer(c) == client' = [client EXCEPT ![c] = NoCall]

\* MaxJobs bounds the ids; they are given in the order of creation.
CreateInsert(c, j) ==
  LET f == client[c].file IN
  /\ client[c].pc = "insert" /\ files[f] # "GONE" /\ Admits(f)
  /\ jobs[j].status = "NONE" /\ \A k \in 1..(j - 1) : jobs[k].status # "NONE"
  /\ jobs' = [jobs EXCEPT ![j] = [file |-> f, status |-> "QUEUED", attempts |-> 0]]
  /\ Answer(c)
  /\ UNCHANGED <<overdue, files, optimizing, worker, crashes>>

\* P2002: another call was faster.
CreateCollides(c) ==
  /\ client[c].pc = "insert" /\ ~Admits(client[c].file)
  /\ client' = [client EXCEPT ![c].pc = "collided"]
  /\ UNCHANGED <<jobs, overdue, files, optimizing, worker, crashes>>

\* The other call's job is the answer, or an error when it is over; an error,
\* too, when the file is gone.
CreateAnswers(c) ==
  /\ \/ client[c].pc = "collided"
     \/ client[c].pc = "insert" /\ files[client[c].file] = "GONE"
  /\ Answer(c)
  /\ UNCHANGED <<jobs, overdue, files, optimizing, worker, crashes>>

\* What retry demands of a job before it puts it back.
RetryPasses(j) == jobs[j].status = "FAILED" /\ jobs[j].attempts < MaxAttempts

\* ProductFilesService.delete; the table of jobs cascades.
DeleteFile(f) ==
  /\ files[f] # "GONE"
  /\ SetFile(f, "GONE")
  /\ jobs' = [j \in Job |-> IF FileOf(j) = f
                            THEN [jobs[j] EXCEPT !.status = "GONE"] ELSE jobs[j]]
  /\ overdue' = {j \in overdue : FileOf(j) # f}
  /\ UNCHANGED <<optimizing, worker, client, crashes>>

-----------------------------------------------------------------------------
(* The loop: recoverStaleJobs, then claimNextJob *)

Poll(w) ==
  /\ At(w, "idle")
  /\ Goto(w, "stale")
  /\ UNCHANGED <<jobs, overdue, files, optimizing, client, crashes>>

\* processNextJob claims without looking for stale jobs first.
Manual(w) ==
  /\ At(w, "idle")
  /\ Goto(w, "claim")
  /\ UNCHANGED <<jobs, overdue, files, optimizing, client, crashes>>

BugFindsNothing == {}
\* The stale jobs, with the attempts they have now.
StaleJobs == {<<j, jobs[j].attempts>> : j \in overdue}

RecoverRead(w) ==
  /\ At(w, "stale")
  /\ worker' = [worker EXCEPT ![w].pc = IF StaleJobs = {} THEN "claim" ELSE "recover",
                              ![w].todo = StaleJobs]
  /\ UNCHANGED <<jobs, overdue, files, optimizing, client, crashes>>

BugRetriesForever(n) == TRUE
BugGivesUpEarly(n) == n + 1 < MaxAttempts
\* canRetry and shouldRetry
MayRetry(n) == n < MaxAttempts

BugLeavesFile(n) == IF MayRetry(n) THEN "PENDING" ELSE "PROCESSING"
FileAfter(n) == IF MayRetry(n) THEN "PENDING" ELSE "FAILED"

RecoverNext(todo) == IF todo = {} THEN "claim" ELSE "recover"

BugAnyStatus(j) == Exists(j)
\* The where clause of the recovery.
StillProcessing(j) == jobs[j].status = "PROCESSING"

RecoverJob(w) ==
  /\ At(w, "recover")
  /\ \E t \in worker[w].todo :
       LET rest == worker[w].todo \ {t} IN
       IF StillProcessing(t[1])
       THEN /\ SetJob(t[1], IF MayRetry(t[2]) THEN "QUEUED" ELSE "FAILED")
            /\ worker' = [worker EXCEPT ![w] = [pc |-> "recover.file", job |-> t[1],
                                                attempts |-> t[2], todo |-> rest]]
       ELSE /\ worker' = [worker EXCEPT ![w].pc = RecoverNext(rest), ![w].todo = rest]
            /\ UNCHANGED <<jobs, overdue>>
  /\ UNCHANGED <<files, optimizing, client, crashes>>

RecoverFile(w) ==
  LET f == FileOf(Mine(w)) IN
  /\ At(w, "recover.file")
  /\ IF files[f] = "GONE" THEN Rest(w) /\ UNCHANGED files
     ELSE /\ SetFile(f, FileAfter(worker[w].attempts))
          /\ worker' = [worker EXCEPT ![w] = [Idle EXCEPT
                          !.pc = RecoverNext(worker[w].todo), !.todo = worker[w].todo]]
  /\ UNCHANGED <<jobs, overdue, optimizing, client, crashes>>

Queued == {j \in Job : jobs[j].status = "QUEUED"}

ClaimRead(w) ==
  /\ At(w, "claim")
  /\ \/ Queued = {} /\ Rest(w)
     \/ \E j \in Queued :
          /\ \A k \in Queued : j <= k
          /\ worker' = [worker EXCEPT ![w].pc = "claim.job", ![w].job = j]
  /\ UNCHANGED <<jobs, overdue, files, optimizing, client, crashes>>

BugClaimsAnything(j) == Exists(j)
\* The where clause of the claim.
Claimable(j) == jobs[j].status = "QUEUED"

ClaimJob(w) ==
  LET j == Mine(w) IN
  /\ At(w, "claim.job")
  /\ IF Claimable(j)
     THEN /\ jobs' = [jobs EXCEPT ![j].status = "PROCESSING", ![j].attempts = @ + 1]
          /\ Goto(w, "claim.read")
     ELSE Rest(w) /\ UNCHANGED jobs
  /\ UNCHANGED <<overdue, files, optimizing, client, crashes>>

\* The job is read again, and with it the attempts that decide on a retry.
ClaimReload(w) ==
  /\ At(w, "claim.read")
  /\ IF Exists(Mine(w))
     THEN worker' = [worker EXCEPT ![w].pc = "claim.file",
                                   ![w].attempts = jobs[Mine(w)].attempts]
     ELSE Rest(w)
  /\ UNCHANGED <<jobs, overdue, files, optimizing, client, crashes>>

\* An update of the file by id; it throws when the file is gone.
WriteFile(w, s, next, thrown) ==
  LET f == FileOf(Mine(w)) IN
  /\ IF files[f] = "GONE"
     THEN (IF thrown = "idle" THEN Rest(w) ELSE Goto(w, thrown)) /\ UNCHANGED files
     ELSE SetFile(f, s) /\ Goto(w, next)
  /\ UNCHANGED <<jobs, overdue, optimizing, client, crashes>>

ClaimFile(w) == At(w, "claim.file") /\ WriteFile(w, "PROCESSING", "process", "idle")

-----------------------------------------------------------------------------
(* processClaimedJob *)

\* processFile: the stored file is read and validated.
ProcessFails(w) ==
  /\ At(w, "process")
  /\ Goto(w, "fail.file")
  /\ UNCHANGED <<jobs, overdue, files, optimizing, client, crashes>>

ProcessDone(w) ==
  /\ At(w, "process")
  /\ Goto(w, IF FileOf(Mine(w)) \in Model THEN "enqueue" ELSE "finish.file")
  /\ UNCHANGED <<jobs, overdue, files, optimizing, client, crashes>>

\* enqueueLegacyModelOptimization: one conversion per source, by a read ...
EnqueueFind(w) ==
  /\ At(w, "enqueue")
  /\ Goto(w, IF optimizing[FileOf(Mine(w))] > 0 THEN "finish.file" ELSE "enqueue.create")
  /\ UNCHANGED <<jobs, overdue, files, optimizing, client, crashes>>

\* ... and a creation.
EnqueueCreate(w) ==
  /\ At(w, "enqueue.create")
  /\ optimizing' = [optimizing EXCEPT ![FileOf(Mine(w))] = @ + 1]
  /\ Goto(w, "enqueue.note")
  /\ UNCHANGED <<jobs, overdue, files, client, crashes>>

\* The job's message is written by id.
EnqueueNote(w) ==
  /\ At(w, "enqueue.note")
  /\ Goto(w, IF Exists(Mine(w)) THEN "finish.file" ELSE "fail.file")
  /\ UNCHANGED <<jobs, overdue, files, optimizing, client, crashes>>

FinishFile(w) == At(w, "finish.file") /\ WriteFile(w, "COMPLETED", "finish.job", "fail.file")

FinishJob(w) ==
  /\ At(w, "finish.job")
  /\ IF Exists(Mine(w)) THEN SetJob(Mine(w), "COMPLETED") /\ Rest(w)
     ELSE Goto(w, "fail.file") /\ UNCHANGED <<jobs, overdue>>
  /\ UNCHANGED <<files, optimizing, client, crashes>>

\* handleProcessingFailure, with the attempts read at the claim
FailFile(w) ==
  /\ At(w, "fail.file")
  /\ WriteFile(w, FileAfter(worker[w].attempts), "fail.job", "idle")

\* An update by id, whatever the job is by now; it throws when the job is gone
\* or when the index does not admit another active job of the file.
FailJob(w) ==
  LET j == Mine(w)
      s == IF MayRetry(worker[w].attempts) THEN "QUEUED" ELSE "FAILED" IN
  /\ At(w, "fail.job")
  /\ \/ /\ Exists(j)
        /\ s = "FAILED" \/ jobs[j].status \in Board!Active \/ Admits(FileOf(j))
        /\ SetJob(j, s)
     \/ /\ ~Exists(j) \/ (s = "QUEUED" /\ jobs[j].status \notin Board!Active
                                       /\ ~Admits(FileOf(j)))
        /\ UNCHANGED <<jobs, overdue>>
  /\ Rest(w)
  /\ UNCHANGED <<files, optimizing, client, crashes>>

-----------------------------------------------------------------------------

\* A job has been PROCESSING for longer than staleAfterMs.
Age(j) ==
  /\ jobs[j].status = "PROCESSING" /\ j \notin overdue
  /\ overdue' = overdue \cup {j}
  /\ UNCHANGED <<jobs, files, optimizing, worker, client, crashes>>

Crash(w) ==
  /\ ~At(w, "idle") /\ crashes < MaxCrashes
  /\ crashes' = crashes + 1
  /\ Rest(w)
  /\ UNCHANGED <<jobs, overdue, files, optimizing, client>>

Step(w) ==
  \/ RecoverRead(w) \/ RecoverJob(w) \/ RecoverFile(w)
  \/ ClaimRead(w) \/ ClaimJob(w) \/ ClaimReload(w) \/ ClaimFile(w)
  \/ ProcessFails(w) \/ ProcessDone(w)
  \/ EnqueueFind(w) \/ EnqueueCreate(w) \/ EnqueueNote(w)
  \/ FinishFile(w) \/ FinishJob(w) \/ FailFile(w) \/ FailJob(w)

Next ==
  \/ \E w \in Worker : Step(w) \/ Poll(w) \/ Manual(w) \/ Crash(w)
  \/ \E c \in Client : \/ \E f \in File : CreateFind(c, f)
                       \/ \E j \in Job : CreateInsert(c, j)
                       \/ CreateCollides(c) \/ CreateAnswers(c)
  \/ \E f \in File : DeleteFile(f)
  \/ \E j \in Job : Age(j)

Spec == Init /\ [][Next]_vars

\* The loops run while their process lives, statements return, time passes.
\* Nobody has to call create or processNextJob.  A call of processNextJob does
\* not hold up the loop, with which it shares a worker here: the poll is
\* strongly fair.
Fairness == /\ \A w \in Worker : WF_vars(Step(w)) /\ SF_vars(Poll(w))
            /\ \A j \in Job : WF_vars(Age(j))
FairSpec == Spec /\ Fairness

-----------------------------------------------------------------------------
(* Properties *)

\* The database never holds two active jobs of one file, although create,
\* the recovery and late workers all make jobs active.
OneActiveJob ==
  \A j, k \in Job :
    (jobs[j].status \in Board!Active /\ jobs[k].status \in Board!Active
     /\ FileOf(j) = FileOf(k)) => j = k

\* A failed job has used up its attempts, also when late workers and the
\* recovery write it by turns; so retry, which wants a failed job with attempts
\* left, never finds one and the operation is dead code.
RetryNeverPasses == \A j \in Job : ~RetryPasses(j)

\* The worker is going to write the file's status.
WillWrite(w, f) ==
  /\ worker[w].pc \in PC \ {"idle", "stale", "recover", "claim", "claim.job", "fail.job"}
  /\ FileOf(Mine(w)) = f

\* As long as no worker dies, a file shown as PROCESSING has an active job or
\* a worker that will still write its status.
NoFileForgotten ==
  \A f \in File : files[f] = "PROCESSING" /\ crashes = 0 =>
    \/ \E j \in Job : FileOf(j) = f /\ jobs[j].status \in Board!Active
    \/ \E w \in Worker : WillWrite(w, f)

\* The attempts pass maxAttempts at most once per other worker: only a worker
\* that read fewer attempts than there are by now can put a job back.
AttemptsBounded ==
  \A j \in Job : jobs[j].attempts < MaxAttempts + Cardinality(Worker)

\* The table keeps its promise.
BoardKept == Board!Spec

\* Every active job ends, although workers crash, time out and undo each
\* other's outcomes.
JobsSettle ==
  \A j \in Job : jobs[j].status \in Board!Active ~> jobs[j].status \notin Board!Active
=============================================================================
