----------------------- MODULE ProcessingJobs_proofs ------------------------
(***************************************************************************)
(* Proofs about ProcessingJobs, for any number of workers, callers, files, *)
(* jobs and attempts.  The table's own invariant Table is kept by every    *)
(* step of JobBoard (BoardStep).  A step of ProcessingJobs is a step of    *)
(* JobBoard (Implements), because no worker remembers more attempts of a   *)
(* job than there are (Memory): the two invariants need each other.        *)
(***************************************************************************)
EXTENDS ProcessingJobs, FiniteSetTheorems, TLAPS

\* A job that is not created is blank; a failed job has no attempts left; no
\* file has two active jobs.
Blank == \A j \in Job : jobs[j].status = "NONE" => jobs[j] = Board!NoJob
Exhausted == \A j \in Job : jobs[j].status = "FAILED" => jobs[j].attempts >= MaxAttempts
Table == Blank /\ Exhausted /\ OneActiveJob

\* What a worker holds: a job once it has picked one, its attempts once it has
\* read them; and the stale jobs it has found.
Holding == PC \ {"idle", "stale", "recover", "claim"}
Reading == Holding \ {"claim.job", "claim.read", "recover.file"}
Memory ==
  \A w \in Worker :
    /\ worker[w].pc \in Holding => worker[w].job \in Job
    /\ worker[w].pc \in Reading => worker[w].attempts <= jobs[worker[w].job].attempts
    /\ \A t \in worker[w].todo : t[1] \in Job /\ t[2] <= jobs[t[1]].attempts

IInv == TypeOK /\ Table /\ Memory

LEMMA JobsAreNumbers == Job \subseteq Nat /\ 0 \notin Job
BY BoundAssumption DEF Job

-----------------------------------------------------------------------------
(* Types *)

LEMMA TypeInit == Init => TypeOK
BY BoundAssumption DEF Init, TypeOK, Board!Init, Board!Row, Board!NoJob, Board!Status,
   Board!Active, FileStatus, Local, Idle, Call, NoCall, PC

LEMMA SetJobType ==
  ASSUME TypeOK, NEW j, NEW s \in {"QUEUED", "COMPLETED", "FAILED"}, SetJob(j, s)
  PROVE  /\ jobs' \in [Job -> Board!Row]
         /\ overdue' \subseteq {k \in Job : jobs'[k].status = "PROCESSING"}
<1>1. jobs' \in [Job -> Board!Row]
  BY DEF TypeOK, SetJob, Board!Row, Board!Status, Board!Active
<1>2. \A k \in Job \ {j} : jobs'[k] = jobs[k]
  BY DEF TypeOK, SetJob
<1> QED BY <1>1, <1>2 DEF TypeOK, SetJob, NoLongerRunning

LEMMA FilesType ==
  ASSUME TypeOK, NEW f, NEW s \in FileStatus, SetFile(f, s)
  PROVE  files' \in [File -> FileStatus]
BY DEF TypeOK, SetFile

LEMMA WorkerType ==
  ASSUME TypeOK, NEW w \in Worker,
         \/ Rest(w)
         \/ \E l \in PC : Goto(w, l)
         \/ \E r \in Local : worker' = [worker EXCEPT ![w] = r]
  PROVE  worker' \in [Worker -> Local]
<1>1. Idle \in Local
  BY DEF Idle, Local, PC
<1>2. ASSUME NEW l \in PC, Goto(w, l) PROVE worker' \in [Worker -> Local]
  <2>1. [worker[w] EXCEPT !.pc = l] \in Local
    BY DEF TypeOK, Local
  <2>2. worker' = [worker EXCEPT ![w] = [worker[w] EXCEPT !.pc = l]]
    BY <1>2 DEF Goto
  <2> QED BY <2>1, <2>2 DEF TypeOK
<1> QED BY <1>1, <1>2 DEF TypeOK, Rest

LEMMA WriteFileType ==
  ASSUME TypeOK, NEW w \in Worker, NEW s \in FileStatus, NEW n \in PC, NEW t \in PC,
         WriteFile(w, s, n, t)
  PROVE  TypeOK'
<1>1. files' \in [File -> FileStatus]
  BY FilesType DEF WriteFile, TypeOK
<1>2. worker' \in [Worker -> Local]
  BY WorkerType DEF WriteFile
<1> QED BY <1>1, <1>2 DEF TypeOK, WriteFile

LEMMA AttemptsAreNumbers ==
  ASSUME TypeOK, NEW j \in Job
  PROVE  jobs[j].attempts \in Nat /\ jobs[j].file \in File \cup {NoFile}
BY DEF TypeOK, Board!Row

LEMMA FileAfterType == ASSUME NEW n PROVE FileAfter(n) \in FileStatus
BY DEF FileAfter, FileStatus

\* The steps of a worker keep the types.
LEMMA StepTypes == ASSUME TypeOK, Memory, NEW w \in Worker, Step(w) PROVE TypeOK'
<1>1. CASE RecoverRead(w)
  <2> DEFINE r == [worker[w] EXCEPT !.pc = IF StaleJobs = {} THEN "claim" ELSE "recover",
                                    !.todo = StaleJobs]
  <2>1. StaleJobs \in SUBSET (Nat \X Nat)
    <3>1. \A j \in overdue : j \in Nat /\ jobs[j].attempts \in Nat
      BY JobsAreNumbers, AttemptsAreNumbers DEF TypeOK
    <3>2. \A j \in overdue : <<j, jobs[j].attempts>> \in Nat \X Nat
      BY <3>1
    <3> QED BY <3>2 DEF StaleJobs
  <2>2. r \in Local
    BY <2>1 DEF TypeOK, Local, PC
  <2>3. worker' = [worker EXCEPT ![w] = r]
    BY <1>1 DEF RecoverRead
  <2>4. worker' \in [Worker -> Local]
    BY <2>2, <2>3, WorkerType
  <2> QED BY <1>1, <2>4 DEF TypeOK, RecoverRead
<1>2. CASE RecoverJob(w)
  <2>1. PICK t \in worker[w].todo :
          LET rest == worker[w].todo \ {t} IN
          IF StillProcessing(t[1])
          THEN /\ SetJob(t[1], IF MayRetry(t[2]) THEN "QUEUED" ELSE "FAILED")
               /\ worker' = [worker EXCEPT ![w] = [pc |-> "recover.file", job |-> t[1],
                                                   attempts |-> t[2], todo |-> rest]]
          ELSE /\ worker' = [worker EXCEPT ![w].pc = RecoverNext(rest), ![w].todo = rest]
               /\ UNCHANGED <<jobs, overdue>>
    BY <1>2 DEF RecoverJob
  <2> DEFINE rest == worker[w].todo \ {t}
  <2>2. t[1] \in Nat /\ t[2] \in Nat /\ rest \in SUBSET (Nat \X Nat)
    BY DEF TypeOK, Local
  <2>3. CASE StillProcessing(t[1])
    <3>1. [pc |-> "recover.file", job |-> t[1], attempts |-> t[2], todo |-> rest] \in Local
      BY <2>2 DEF Local, PC
    <3>2. worker' \in [Worker -> Local]
      BY <2>1, <2>3, <3>1, WorkerType
    <3>3. /\ jobs' \in [Job -> Board!Row]
          /\ overdue' \subseteq {k \in Job : jobs'[k].status = "PROCESSING"}
      BY <2>1, <2>3, SetJobType
    <3> QED BY <1>2, <3>2, <3>3 DEF TypeOK, RecoverJob
  <2>4. CASE ~StillProcessing(t[1])
    <3> DEFINE r == [worker[w] EXCEPT !.pc = RecoverNext(rest), !.todo = rest]
    <3>1. r \in Local
      BY <2>2 DEF TypeOK, Local, PC, RecoverNext
    <3>2. worker' = [worker EXCEPT ![w] = r]
      BY <2>1, <2>4
    <3>3. worker' \in [Worker -> Local]
      BY <3>1, <3>2, WorkerType
    <3> QED BY <1>2, <2>1, <2>4, <3>3 DEF TypeOK, RecoverJob
  <2> QED BY <2>3, <2>4
<1>3. CASE RecoverFile(w)
  <2>1. [Idle EXCEPT !.pc = RecoverNext(worker[w].todo), !.todo = worker[w].todo] \in Local
    BY DEF TypeOK, Local, PC, Idle, RecoverNext
  <2>2. worker' \in [Worker -> Local]
    BY <1>3, <2>1, WorkerType DEF RecoverFile
  <2>3. files' \in [File -> FileStatus]
    BY <1>3, FilesType, FileAfterType DEF RecoverFile, TypeOK
  <2> QED BY <1>3, <2>2, <2>3 DEF TypeOK, RecoverFile
<1>4. CASE ClaimRead(w)
  <2>1. \A j \in Job : [worker[w] EXCEPT !.pc = "claim.job", !.job = j] \in Local
    BY JobsAreNumbers DEF TypeOK, Local, PC
  <2>2. \/ Rest(w)
        \/ \E j \in Job : worker' = [worker EXCEPT ![w] =
                                       [worker[w] EXCEPT !.pc = "claim.job", !.job = j]]
    BY <1>4 DEF ClaimRead, Queued
  <2>3. worker' \in [Worker -> Local]
    BY <2>1, <2>2, WorkerType
  <2> QED BY <1>4, <2>3 DEF TypeOK, ClaimRead
<1>5. CASE ClaimJob(w)
  <2>1. worker' \in [Worker -> Local]
    BY <1>5, WorkerType DEF ClaimJob, PC
  <2>2. jobs' \in [Job -> Board!Row]
    BY <1>5 DEF ClaimJob, TypeOK, Board!Row, Board!Status, Board!Active
  <2>3. overdue \subseteq {k \in Job : jobs'[k].status = "PROCESSING"}
    BY <1>5 DEF ClaimJob, TypeOK, Board!Row
  <2> QED BY <1>5, <2>1, <2>2, <2>3 DEF TypeOK, ClaimJob
<1>6. CASE ClaimReload(w)
  <2>0. Mine(w) \in Job
    BY <1>6 DEF Memory, Holding, PC, Mine, ClaimReload, At
  <2>1. CASE Exists(Mine(w))
    <3>1. [worker[w] EXCEPT !.pc = "claim.file", !.attempts = jobs[Mine(w)].attempts] \in Local
      BY <2>0, AttemptsAreNumbers DEF TypeOK, Local, PC
    <3>2. worker' = [worker EXCEPT ![w] =
            [worker[w] EXCEPT !.pc = "claim.file", !.attempts = jobs[Mine(w)].attempts]]
      BY <1>6, <2>1 DEF ClaimReload
    <3>3. worker' \in [Worker -> Local]
      BY <3>1, <3>2, WorkerType
    <3> QED BY <1>6, <3>3 DEF TypeOK, ClaimReload
  <2>2. CASE ~Exists(Mine(w))
    <3>1. worker' \in [Worker -> Local]
      BY <1>6, <2>2, WorkerType DEF ClaimReload
    <3> QED BY <1>6, <3>1 DEF TypeOK, ClaimReload
  <2> QED BY <2>1, <2>2
<1>7. CASE ClaimFile(w)
  BY <1>7, WriteFileType DEF ClaimFile, PC, FileStatus
<1>8. CASE ProcessFails(w) \/ ProcessDone(w) \/ EnqueueFind(w) \/ EnqueueNote(w)
  <2>1. \E l \in PC : Goto(w, l)
    BY <1>8 DEF ProcessFails, ProcessDone, EnqueueFind, EnqueueNote, PC
  <2> QED BY <1>8, <2>1, WorkerType
          DEF TypeOK, ProcessFails, ProcessDone, EnqueueFind, EnqueueNote
<1>9. CASE EnqueueCreate(w)
  <2>1. worker' \in [Worker -> Local]
    BY <1>9, WorkerType DEF EnqueueCreate, PC
  <2>2. optimizing' \in [File -> Nat]
    <3> DEFINE g == FileOf(Mine(w))
    <3>1. optimizing' = [optimizing EXCEPT ![g] = optimizing[g] + 1]
      BY <1>9 DEF EnqueueCreate
    <3> HIDE DEF g
    <3>2. \A f \in File : optimizing[f] + 1 \in Nat
      BY DEF TypeOK
    <3> QED BY <3>1, <3>2 DEF TypeOK
  <2> QED BY <1>9, <2>1, <2>2 DEF TypeOK, EnqueueCreate
<1>10. CASE FinishFile(w)
  BY <1>10, WriteFileType DEF FinishFile, PC, FileStatus
<1>11. CASE FinishJob(w)
  <2>1. worker' \in [Worker -> Local]
    BY <1>11, WorkerType DEF FinishJob, PC
  <2>2. /\ jobs' \in [Job -> Board!Row]
        /\ overdue' \subseteq {k \in Job : jobs'[k].status = "PROCESSING"}
    BY <1>11, SetJobType DEF FinishJob, TypeOK
  <2> QED BY <1>11, <2>1, <2>2 DEF TypeOK, FinishJob
<1>12. CASE FailFile(w)
  BY <1>12, WriteFileType, FileAfterType DEF FailFile, PC
<1>13. CASE FailJob(w)
  <2>1. worker' \in [Worker -> Local]
    BY <1>13, WorkerType DEF FailJob
  <2>2. /\ jobs' \in [Job -> Board!Row]
        /\ overdue' \subseteq {k \in Job : jobs'[k].status = "PROCESSING"}
    BY <1>13, SetJobType DEF FailJob, TypeOK
  <2> QED BY <1>13, <2>1, <2>2 DEF TypeOK, FailJob
<1> QED BY <1>1, <1>2, <1>3, <1>4, <1>5, <1>6, <1>7, <1>8, <1>9, <1>10, <1>11, <1>12, <1>13
        DEF Step

-----------------------------------------------------------------------------
(* The table *)

\* Every step of JobBoard keeps the table's invariant and loses no attempts.
LEMMA BoardStep ==
  ASSUME jobs \in [Job -> Board!Row], Table, [Board!Next]_jobs
  PROVE  /\ Table'
         /\ \A j \in Job : jobs[j].attempts <= jobs'[j].attempts
         /\ \A j \in Job : jobs[j].status # "NONE" => jobs'[j].file = jobs[j].file
<1> DEFINE Grows == \A j \in Job : jobs[j].attempts <= jobs'[j].attempts
           SameFile == \A j \in Job : jobs[j].status # "NONE" => jobs'[j].file = jobs[j].file
<1> USE DEF Board!Row, Board!Status, Board!Active, Board!NoJob
<1> SUFFICES Table' /\ Grows /\ SameFile
  OBVIOUS
<1>1. CASE UNCHANGED jobs
  BY <1>1 DEF Table, Blank, Exhausted, OneActiveJob, FileOf
<1>2. ASSUME NEW j \in Job, NEW f \in File, Board!Create(j, f)
      PROVE  Table' /\ Grows /\ SameFile
  <2>1. /\ jobs'[j] = [file |-> f, status |-> "QUEUED", attempts |-> 0]
        /\ \A k \in Job \ {j} : jobs'[k] = jobs[k]
        /\ jobs[j].attempts = 0 /\ jobs[j].status = "NONE"
    BY <1>2 DEF Board!Create
  <2>2. \A k \in Job \ {j} : jobs[k].file = f => jobs[k].status \notin Board!Active
    BY <1>2 DEF Board!Create, Board!Free
  <2>3. OneActiveJob'
    BY <2>1, <2>2 DEF Table, OneActiveJob, FileOf
  <2>4. Blank' /\ Exhausted'
    BY <2>1 DEF Table, Blank, Exhausted
  <2>5. Grows
    <3>1. \A k \in Job : jobs[k].attempts \in Nat
      OBVIOUS
    <3> QED BY <3>1, <2>1
  <2>6. SameFile
    BY <2>1
  <2> QED BY <2>3, <2>4, <2>5, <2>6 DEF Table
<1>3. ASSUME NEW j \in Job, Board!Claim(j)
      PROVE  Table' /\ Grows /\ SameFile
  <2>1. /\ jobs'[j].status = "PROCESSING" /\ jobs'[j].file = jobs[j].file
        /\ jobs'[j].attempts = jobs[j].attempts + 1 /\ jobs[j].status = "QUEUED"
        /\ \A k \in Job \ {j} : jobs'[k] = jobs[k]
    BY <1>3 DEF Board!Claim
  <2>2. OneActiveJob'
    BY <2>1 DEF Table, OneActiveJob, FileOf
  <2>4. Blank' /\ Exhausted'
    BY <2>1 DEF Table, Blank, Exhausted
  <2>5. Grows
    <3>1. \A k \in Job : jobs[k].attempts \in Nat
      OBVIOUS
    <3> QED BY <3>1, <2>1
  <2>6. SameFile
    BY <2>1
  <2> QED BY <2>2, <2>4, <2>5, <2>6 DEF Table
<1>4. ASSUME NEW j \in Job, NEW t \in {"QUEUED", "COMPLETED", "FAILED"}, Board!Move(j, t),
             Board!Exists(j),
             t = "QUEUED" => jobs[j].status \in Board!Active \/ Board!Free(jobs[j].file),
             t = "FAILED" => jobs[j].attempts >= MaxAttempts
      PROVE  Table' /\ Grows /\ SameFile
  <2>1. /\ jobs'[j].status = t /\ jobs'[j].file = jobs[j].file
        /\ jobs'[j].attempts = jobs[j].attempts /\ jobs[j].status # "NONE"
        /\ \A k \in Job \ {j} : jobs'[k] = jobs[k]
    BY <1>4 DEF Board!Move, Board!Exists
  <2>2. ASSUME t = "QUEUED", jobs[j].status \notin Board!Active
        PROVE  \A k \in Job \ {j} : jobs[k].file = jobs[j].file => jobs[k].status \notin Board!Active
    BY <1>4, <2>2 DEF Board!Free
  <2>3. OneActiveJob'
    BY <2>1, <2>2 DEF Table, OneActiveJob, FileOf
  <2>4. Blank' /\ Exhausted'
    BY <1>4, <2>1 DEF Table, Blank, Exhausted
  <2>5. Grows
    <3>1. \A k \in Job : jobs[k].attempts \in Nat
      OBVIOUS
    <3> QED BY <3>1, <2>1
  <2>6. SameFile
    BY <2>1
  <2> QED BY <2>3, <2>4, <2>5, <2>6 DEF Table
<1>5. ASSUME NEW f \in File, Board!Remove(f)
      PROVE  Table' /\ Grows /\ SameFile
  <2>1. \A k \in Job : /\ jobs'[k].attempts = jobs[k].attempts
                       /\ jobs'[k].file = jobs[k].file
                       /\ jobs'[k].status \in {jobs[k].status, "GONE"}
                       /\ jobs'[k].status # "GONE" => jobs'[k] = jobs[k]
    BY <1>5 DEF Board!Remove
  <2>2. OneActiveJob'
    BY <2>1 DEF Table, OneActiveJob, FileOf
  <2>4. Blank' /\ Exhausted'
    BY <2>1 DEF Table, Blank, Exhausted
  <2>5. Grows
    <3>1. \A k \in Job : jobs[k].attempts \in Nat
      OBVIOUS
    <3> QED BY <3>1, <2>1
  <2>6. SameFile
    BY <2>1
  <2> QED BY <2>2, <2>4, <2>5, <2>6 DEF Table
<1>6. ASSUME NEW j \in Job, Board!Requeue(j) \/ Board!Complete(j) \/ Board!Fail(j)
      PROVE  Table' /\ Grows /\ SameFile
  <2>1. CASE Board!Requeue(j)
    BY <2>1, <1>4 DEF Board!Requeue
  <2>2. CASE Board!Complete(j)
    BY <2>2, <1>4 DEF Board!Complete
  <2>3. CASE Board!Fail(j)
    BY <2>3, <1>4 DEF Board!Fail
  <2> QED BY <1>6, <2>1, <2>2, <2>3
<1> QED BY <1>1, <1>2, <1>3, <1>5, <1>6 DEF Board!Next

-----------------------------------------------------------------------------
(* The refinement *)

\* A worker's write of a job that exists is a step of the board.
LEMMA WriteIsMove ==
  ASSUME NEW j \in Job, NEW s, SetJob(j, s), Exists(j),
         \/ s = "COMPLETED"
         \/ s = "FAILED" /\ jobs[j].attempts >= MaxAttempts
         \/ s = "QUEUED" /\ (jobs[j].status \in Board!Active \/ Admits(FileOf(j)))
  PROVE  Board!Next
<1>1. Board!Exists(j) /\ Board!Move(j, s)
  BY DEF SetJob, Exists, Board!Exists, Board!Move
<1>2. CASE s = "COMPLETED"
  BY <1>1, <1>2 DEF Board!Next, Board!Complete
<1>3. CASE s = "FAILED" /\ jobs[j].attempts >= MaxAttempts
  BY <1>1, <1>3 DEF Board!Next, Board!Fail
<1>4. CASE s = "QUEUED" /\ (jobs[j].status \in Board!Active \/ Admits(FileOf(j)))
  BY <1>1, <1>4 DEF Board!Next, Board!Requeue, Board!Free, Admits, FileOf
<1> QED BY <1>2, <1>3, <1>4

\* A worker that may not retry, going by what it remembers, is right.
LEMMA NoRetryIsRight ==
  ASSUME TypeOK, NEW j \in Job, NEW n \in Nat, n <= jobs[j].attempts, ~MayRetry(n)
  PROVE  jobs[j].attempts >= MaxAttempts
BY AttemptsAreNumbers, BoundAssumption DEF MayRetry

LEMMA Implements == IInv /\ [Next]_vars => [Board!Next]_jobs
<1> SUFFICES ASSUME IInv, Next PROVE [Board!Next]_jobs
  BY DEF vars
<1>1. ASSUME NEW w \in Worker, Step(w) PROVE [Board!Next]_jobs
  <2>1. CASE RecoverJob(w)
    <3>1. PICK t \in worker[w].todo :
            IF StillProcessing(t[1])
            THEN SetJob(t[1], IF MayRetry(t[2]) THEN "QUEUED" ELSE "FAILED")
            ELSE UNCHANGED <<jobs, overdue>>
      BY <2>1 DEF RecoverJob
    <3>2. t[1] \in Job /\ t[2] \in Nat /\ t[2] <= jobs[t[1]].attempts
      BY DEF IInv, Memory, TypeOK, Local
    <3>3. CASE StillProcessing(t[1])
      <4>1. Exists(t[1]) /\ jobs[t[1]].status \in Board!Active
        BY <3>3 DEF StillProcessing, Exists, Board!Active
      <4>2. ~MayRetry(t[2]) => jobs[t[1]].attempts >= MaxAttempts
        BY <3>2, NoRetryIsRight DEF IInv
      <4> QED BY <3>1, <3>2, <3>3, <4>1, <4>2, WriteIsMove
    <3> QED BY <3>1, <3>3
  <2>2. CASE ClaimJob(w)
    <3>1. Mine(w) \in Job
      BY <2>2 DEF IInv, Memory, Holding, PC, Mine, ClaimJob, At
    <3>2. CASE Claimable(Mine(w))
      BY <2>2, <3>1, <3>2 DEF ClaimJob, Claimable, Board!Next, Board!Claim
    <3> QED BY <2>2, <3>2 DEF ClaimJob
  <2>3. CASE FinishJob(w)
    <3>1. Mine(w) \in Job
      BY <2>3 DEF IInv, Memory, Holding, PC, Mine, FinishJob, At
    <3> QED BY <2>3, <3>1, WriteIsMove DEF FinishJob
  <2>4. CASE FailJob(w)
    <3> DEFINE j == Mine(w)
               s == IF MayRetry(worker[w].attempts) THEN "QUEUED" ELSE "FAILED"
    <3>1. j \in Job /\ worker[w].attempts <= jobs[j].attempts /\ worker[w].attempts \in Nat
      BY <2>4 DEF IInv, Memory, Holding, Reading, PC, Mine, FailJob, At, TypeOK, Local
    <3>2. ~MayRetry(worker[w].attempts) => jobs[j].attempts >= MaxAttempts
      BY <3>1, NoRetryIsRight DEF IInv
    <3>3. \/ /\ Exists(j)
             /\ s = "FAILED" \/ jobs[j].status \in Board!Active \/ Admits(FileOf(j))
             /\ SetJob(j, s)
          \/ UNCHANGED jobs
      BY <2>4 DEF FailJob
    <3> QED BY <3>1, <3>2, <3>3, WriteIsMove
  <2>5. CASE RecoverRead(w) \/ RecoverFile(w) \/ ClaimRead(w) \/ ClaimReload(w)
             \/ ClaimFile(w) \/ ProcessFails(w) \/ ProcessDone(w) \/ EnqueueFind(w)
             \/ EnqueueCreate(w) \/ EnqueueNote(w) \/ FinishFile(w) \/ FailFile(w)
    BY <2>5 DEF RecoverRead, RecoverFile, ClaimRead, ClaimReload, ClaimFile, ProcessFails,
       ProcessDone, EnqueueFind, EnqueueCreate, EnqueueNote, FinishFile, FailFile, WriteFile
  <2> QED BY <1>1, <2>1, <2>2, <2>3, <2>4, <2>5 DEF Step
<1>2. ASSUME NEW c \in Client, NEW j \in Job, CreateInsert(c, j) PROVE Board!Next
  <2>1. client[c].file \in File
    BY <1>2 DEF IInv, TypeOK, CreateInsert, Call, NoCall
  <2>2. Board!Create(j, client[c].file)
    BY <1>2 DEF IInv, Table, Blank, CreateInsert, Board!Create, Board!Free, Admits, FileOf
  <2> QED BY <2>1, <2>2 DEF Board!Next
<1>3. ASSUME NEW f \in File, DeleteFile(f) PROVE Board!Next
  BY <1>3 DEF DeleteFile, Board!Next, Board!Remove, FileOf
<1>4. ASSUME NEW w \in Worker, Poll(w) \/ Manual(w) \/ Crash(w) PROVE UNCHANGED jobs
  BY <1>4 DEF Poll, Manual, Crash
<1>5. ASSUME NEW c \in Client,
             (\E f \in File : CreateFind(c, f)) \/ CreateCollides(c) \/ CreateAnswers(c)
      PROVE  UNCHANGED jobs
  BY <1>5 DEF CreateFind, CreateCollides, CreateAnswers
<1>6. ASSUME NEW j \in Job, Age(j) PROVE UNCHANGED jobs
  BY <1>6 DEF Age
<1> QED BY <1>1, <1>2, <1>3, <1>4, <1>5, <1>6 DEF Next

-----------------------------------------------------------------------------
(* The types and the memory of the workers are kept *)

LEMMA CallTypes ==
  ASSUME TypeOK, NEW c \in Client,
         \/ \E f \in File : CreateFind(c, f)
         \/ \E j \in Job : CreateInsert(c, j)
         \/ CreateCollides(c) \/ CreateAnswers(c)
  PROVE  TypeOK'
<1>1. CASE \E f \in File : CreateFind(c, f)
  BY <1>1 DEF CreateFind, TypeOK, Call
<1>2. ASSUME NEW j \in Job, CreateInsert(c, j) PROVE TypeOK'
  <2>1. client[c].file \in File
    BY <1>2 DEF TypeOK, CreateInsert, Call, NoCall
  <2>2. jobs' \in [Job -> Board!Row]
    BY <1>2, <2>1 DEF CreateInsert, TypeOK, Board!Row, Board!Status, Board!Active
  <2>3. overdue \subseteq {k \in Job : jobs'[k].status = "PROCESSING"}
    BY <1>2 DEF CreateInsert, TypeOK, Board!Row
  <2>4. client' \in [Client -> Call]
    BY <1>2 DEF CreateInsert, Answer, TypeOK, Call
  <2> QED BY <1>2, <2>2, <2>3, <2>4 DEF CreateInsert, TypeOK
<1>3. CASE CreateCollides(c)
  <2>1. [client[c] EXCEPT !.pc = "collided"] \in Call
    BY <1>3 DEF CreateCollides, TypeOK, Call, NoCall
  <2>2. client' = [client EXCEPT ![c] = [client[c] EXCEPT !.pc = "collided"]]
    BY <1>3 DEF CreateCollides
  <2> QED BY <1>3, <2>1, <2>2 DEF CreateCollides, TypeOK
<1>4. CASE CreateAnswers(c)
  BY <1>4 DEF CreateAnswers, Answer, TypeOK, Call
<1> QED BY <1>1, <1>2, <1>3, <1>4

LEMMA TypeStep == TypeOK /\ Memory /\ [Next]_vars => TypeOK'
<1> SUFFICES ASSUME TypeOK, Memory, [Next]_vars PROVE TypeOK'
  OBVIOUS
<1>1. CASE UNCHANGED vars
  BY <1>1 DEF TypeOK, vars
<1>2. ASSUME NEW w \in Worker, Poll(w) \/ Manual(w) PROVE TypeOK'
  <2>1. \E l \in PC : Goto(w, l)
    BY <1>2 DEF Poll, Manual, PC
  <2>2. worker' \in [Worker -> Local]
    BY <2>1, WorkerType
  <2> QED BY <1>2, <2>2 DEF Poll, Manual, TypeOK
<1>3. ASSUME NEW w \in Worker, Crash(w) PROVE TypeOK'
  <2>1. worker' \in [Worker -> Local]
    BY <1>3, WorkerType DEF Crash
  <2>2. crashes' \in 0..MaxCrashes
    BY <1>3, BoundAssumption DEF Crash, TypeOK
  <2> QED BY <1>3, <2>1, <2>2 DEF Crash, TypeOK
<1>4. ASSUME NEW f \in File, DeleteFile(f) PROVE TypeOK'
  <2>1. files' \in [File -> FileStatus]
    BY <1>4, FilesType DEF DeleteFile, FileStatus
  <2>2. \A j \in Job : /\ jobs'[j] \in Board!Row
                       /\ FileOf(j) # f => jobs'[j] = jobs[j]
    BY <1>4 DEF DeleteFile, TypeOK, Board!Row, Board!Status
  <2>3. jobs' \in [Job -> Board!Row]
    BY <1>4, <2>2 DEF DeleteFile
  <2>4. overdue' \subseteq {k \in Job : jobs'[k].status = "PROCESSING"}
    BY <1>4, <2>2 DEF DeleteFile, TypeOK
  <2> QED BY <1>4, <2>1, <2>3, <2>4 DEF DeleteFile, TypeOK
<1>5. ASSUME NEW j \in Job, Age(j) PROVE TypeOK'
  BY <1>5 DEF Age, TypeOK
<1> QED BY <1>1, <1>2, <1>3, <1>4, <1>5, StepTypes, CallTypes DEF Next

\* What one worker holds.
MemoryOf(w) ==
  /\ worker[w].pc \in Holding => worker[w].job \in Job
  /\ worker[w].pc \in Reading => worker[w].attempts <= jobs[worker[w].job].attempts
  /\ \A t \in worker[w].todo : t[1] \in Job /\ t[2] <= jobs[t[1]].attempts

\* Attempts only grow: the memory of a worker that does nothing stays right.
LEMMA OthersRemember ==
  ASSUME TypeOK, TypeOK', NEW w \in Worker, MemoryOf(w), worker'[w] = worker[w],
         \A j \in Job : jobs[j].attempts <= jobs'[j].attempts
  PROVE  MemoryOf(w)'
<1>1. \A j \in Job : jobs[j].attempts \in Nat /\ jobs'[j].attempts \in Nat
  BY DEF TypeOK, Board!Row
<1>2. worker[w].attempts \in Nat /\ \A t \in worker[w].todo : t[2] \in Nat
  BY DEF TypeOK, Local
<1>3. worker[w].pc \in Reading => worker[w].pc \in Holding
  BY DEF Reading
<1>4. worker'[w].pc \in Reading => worker'[w].attempts <= jobs'[worker'[w].job].attempts
  BY <1>1, <1>2, <1>3 DEF MemoryOf
<1>5. \A t \in worker'[w].todo : t[1] \in Job /\ t[2] <= jobs'[t[1]].attempts
  BY <1>1, <1>2 DEF MemoryOf
<1> QED BY <1>4, <1>5 DEF MemoryOf

LEMMA StepMemory ==
  ASSUME TypeOK, TypeOK', NEW w \in Worker, MemoryOf(w), Step(w),
         \A j \in Job : jobs[j].attempts <= jobs'[j].attempts
  PROVE  MemoryOf(w)'
<1> USE DEF At, PC, Holding, Reading, Mine
<1>1. /\ \A j \in Job : jobs[j].attempts \in Nat /\ jobs'[j].attempts \in Nat
      /\ worker[w].attempts \in Nat /\ \A t \in worker[w].todo : t[2] \in Nat
      /\ worker[w] \in Local /\ worker \in [Worker -> Local]
  BY DEF TypeOK, Board!Row, Local
<1>2. \A t \in worker[w].todo : t[1] \in Job /\ t[2] <= jobs'[t[1]].attempts
  BY <1>1 DEF MemoryOf
\* The worker goes on with the same job in hand.
<1>3. ASSUME NEW l \in PC, Goto(w, l),
             l \in Holding => worker[w].pc \in Holding,
             l \in Reading => worker[w].pc \in Reading
      PROVE  MemoryOf(w)'
  <2>1. /\ worker'[w].pc = l /\ worker'[w].job = worker[w].job
        /\ worker'[w].attempts = worker[w].attempts /\ worker'[w].todo = worker[w].todo
    BY <1>1, <1>3 DEF Goto, Local
  <2>2. worker[w].pc \in Reading => worker[w].attempts <= jobs'[worker[w].job].attempts
    BY <1>1 DEF MemoryOf
  <2> QED BY <1>2, <1>3, <2>1, <2>2 DEF MemoryOf
<1>4. CASE Rest(w)
  <2>1. worker'[w] = Idle
    BY <1>1, <1>4 DEF Rest
  <2> QED BY <2>1 DEF MemoryOf, Idle
<1>5. CASE RecoverRead(w)
  <2>1. worker'[w].pc \in {"claim", "recover"} /\ worker'[w].todo = StaleJobs
    BY <1>1, <1>5 DEF RecoverRead, Local
  <2>2. \A t \in StaleJobs : t[1] \in Job /\ t[2] = jobs[t[1]].attempts
    BY DEF StaleJobs, TypeOK
  <2> QED BY <1>1, <2>1, <2>2 DEF MemoryOf
<1>6. CASE RecoverJob(w)
  <2>1. PICK t \in worker[w].todo :
          \/ worker' = [worker EXCEPT ![w] = [pc |-> "recover.file", job |-> t[1],
                          attempts |-> t[2], todo |-> worker[w].todo \ {t}]]
          \/ worker' = [worker EXCEPT ![w].pc = RecoverNext(worker[w].todo \ {t}),
                                      ![w].todo = worker[w].todo \ {t}]
    BY <1>6 DEF RecoverJob
  <2>2. t[1] \in Job
    BY DEF MemoryOf
  <2>3. /\ worker'[w].pc \in {"recover.file", "claim", "recover"}
        /\ worker'[w].pc = "recover.file" => worker'[w].job = t[1]
        /\ worker'[w].todo = worker[w].todo \ {t}
    BY <1>1, <2>1 DEF RecoverNext, Local
  <2> QED BY <1>2, <2>2, <2>3 DEF MemoryOf
<1>7. CASE RecoverFile(w)
  <2>1. CASE Rest(w)
    BY <1>4, <2>1
  <2>2. CASE worker' = [worker EXCEPT ![w] = [Idle EXCEPT
                          !.pc = RecoverNext(worker[w].todo), !.todo = worker[w].todo]]
    <3>1. worker'[w].pc \in {"claim", "recover"} /\ worker'[w].todo = worker[w].todo
      BY <1>1, <2>2 DEF RecoverNext, Idle
    <3> QED BY <1>2, <3>1 DEF MemoryOf
  <2> QED BY <1>7, <2>1, <2>2 DEF RecoverFile
<1>8. CASE ClaimRead(w)
  <2>1. CASE Rest(w)
    BY <1>4, <2>1
  <2>2. ASSUME NEW j \in Job, worker' = [worker EXCEPT ![w].pc = "claim.job", ![w].job = j]
        PROVE  MemoryOf(w)'
    <3>1. /\ worker'[w].pc = "claim.job" /\ worker'[w].job = j
          /\ worker'[w].todo = worker[w].todo
      BY <1>1, <2>2 DEF Local
    <3> QED BY <1>2, <3>1 DEF MemoryOf
  <2> QED BY <1>8, <2>1, <2>2 DEF ClaimRead, Queued
<1>9. CASE ClaimJob(w)
  BY <1>3, <1>4, <1>9 DEF ClaimJob
<1>10. CASE ClaimReload(w)
  <2>1. CASE Rest(w)
    BY <1>4, <2>1
  <2>2. CASE worker' = [worker EXCEPT ![w].pc = "claim.file",
                                      ![w].attempts = jobs[Mine(w)].attempts]
    <3>1. /\ worker'[w].pc = "claim.file" /\ worker'[w].job = worker[w].job
          /\ worker'[w].todo = worker[w].todo
          /\ worker'[w].attempts = jobs[worker[w].job].attempts
      BY <1>1, <2>2 DEF Local
    <3>2. worker[w].job \in Job
      BY <1>10 DEF MemoryOf, ClaimReload
    <3> QED BY <1>1, <1>2, <3>1, <3>2 DEF MemoryOf
  <2> QED BY <1>10, <2>1, <2>2 DEF ClaimReload
<1>11. CASE ClaimFile(w) \/ FinishFile(w) \/ FailFile(w)
  BY <1>3, <1>4, <1>11 DEF ClaimFile, FinishFile, FailFile, WriteFile
<1>12. CASE ProcessFails(w) \/ ProcessDone(w) \/ EnqueueFind(w) \/ EnqueueCreate(w)
            \/ EnqueueNote(w)
  BY <1>3, <1>12 DEF ProcessFails, ProcessDone, EnqueueFind, EnqueueCreate, EnqueueNote
<1>13. CASE FinishJob(w) \/ FailJob(w)
  BY <1>3, <1>4, <1>13 DEF FinishJob, FailJob
<1> QED BY <1>5, <1>6, <1>7, <1>8, <1>9, <1>10, <1>11, <1>12, <1>13 DEF Step

LEMMA MemoryStep ==
  ASSUME TypeOK, TypeOK', Memory, [Next]_vars,
         \A j \in Job : jobs[j].attempts <= jobs'[j].attempts
  PROVE  Memory'
<1> SUFFICES ASSUME NEW v \in Worker PROVE MemoryOf(v)'
  BY DEF Memory, MemoryOf
<1>1. MemoryOf(v)
  BY DEF Memory, MemoryOf
<1>2. CASE worker'[v] = worker[v]
  BY <1>1, <1>2, OthersRemember
<1>3. ASSUME NEW w \in Worker, Step(w), worker'[v] # worker[v] PROVE MemoryOf(v)'
  <2>1. \A u \in Worker \ {w} : worker'[u] = worker[u]
    BY <1>3 DEF TypeOK, Step, RecoverRead, RecoverJob, RecoverFile, ClaimRead, ClaimJob,
       ClaimReload, ClaimFile, ProcessFails, ProcessDone, EnqueueFind, EnqueueCreate,
       EnqueueNote, FinishFile, FinishJob, FailFile, FailJob, WriteFile, Rest, Goto
  <2> QED BY <1>1, <1>3, <2>1, StepMemory
<1>4. ASSUME NEW w \in Worker, Poll(w) \/ Manual(w) \/ Crash(w), worker'[v] # worker[v]
      PROVE  MemoryOf(v)'
  <2>1. v = w
    BY <1>4 DEF TypeOK, Poll, Manual, Crash, Rest, Goto
  <2>2. /\ worker'[v].pc \in {"stale", "claim", "idle"}
        /\ worker'[v].todo \in {worker[v].todo, {}}
    BY <1>4, <2>1 DEF TypeOK, Poll, Manual, Crash, Rest, Goto, Idle, Local
  <2>3. UNCHANGED jobs
    BY <1>4 DEF Poll, Manual, Crash
  <2> QED BY <1>1, <2>2, <2>3 DEF MemoryOf, Holding, Reading
<1>5. ASSUME UNCHANGED worker PROVE MemoryOf(v)'
  BY <1>2, <1>5
<1>6. ASSUME NEW c \in Client,
             \/ \E f \in File : CreateFind(c, f)
             \/ \E j \in Job : CreateInsert(c, j)
             \/ CreateCollides(c) \/ CreateAnswers(c)
      PROVE UNCHANGED worker
  BY <1>6 DEF CreateFind, CreateInsert, CreateCollides, CreateAnswers
<1>7. ASSUME \/ \E f \in File : DeleteFile(f)
             \/ \E j \in Job : Age(j)
             \/ UNCHANGED vars
      PROVE UNCHANGED worker
  BY <1>7 DEF DeleteFile, Age, vars
<1> QED BY <1>2, <1>3, <1>4, <1>5, <1>6, <1>7 DEF Next

-----------------------------------------------------------------------------
(* The theorems *)

LEMMA InvInit == Init => IInv
<1> SUFFICES ASSUME Init PROVE IInv
  OBVIOUS
<1>1. TypeOK
  BY TypeInit
<1>2. \A j \in Job : jobs[j] = [file |-> NoFile, status |-> "NONE", attempts |-> 0]
  BY DEF Init, Board!Init, Board!NoJob
<1>3. Table
  BY <1>2 DEF Table, Blank, Exhausted, OneActiveJob, Board!NoJob, Board!Active
<1>4. Memory
  BY DEF Memory, Init, Idle, Holding, Reading
<1> QED BY <1>1, <1>3, <1>4 DEF IInv

LEMMA InvStep == IInv /\ [Next]_vars => IInv'
<1> SUFFICES ASSUME IInv, [Next]_vars PROVE IInv'
  OBVIOUS
<1>1. [Board!Next]_jobs
  BY Implements
<1>2. TypeOK'
  BY TypeStep DEF IInv
<1>3. Table' /\ \A j \in Job : jobs[j].attempts <= jobs'[j].attempts
  BY <1>1, BoardStep DEF IInv, TypeOK
<1>4. Memory'
  BY <1>2, <1>3, MemoryStep DEF IInv
<1> QED BY <1>2, <1>3, <1>4 DEF IInv

LEMMA Invariant == Spec => []IInv
BY InvInit, InvStep, PTL DEF Spec

\* Every variable keeps its type; only a job PROCESSING is ever overdue.
THEOREM TypeCorrect == Spec => []TypeOK
BY Invariant, PTL DEF IInv

\* No two jobs of one file are ever active together.
THEOREM OneActivePerFile == Spec => []OneActiveJob
<1>1. IInv => OneActiveJob
  BY DEF IInv, Table
<1> QED BY <1>1, Invariant, PTL

\* The endpoint that retries a failed job never finds one that it may retry.
THEOREM RetryIsDead == Spec => []RetryNeverPasses
<1>1. IInv => RetryNeverPasses
  BY AttemptsAreNumbers, BoundAssumption
     DEF IInv, Table, Exhausted, RetryNeverPasses, RetryPasses
<1> QED BY <1>1, Invariant, PTL

\* The services and the workers implement the board.
THEOREM JobsRefineBoard == Spec => BoardKept
<1>1. Init => Board!Init
  BY DEF Init
<1> QED BY <1>1, Implements, Invariant, PTL DEF Spec, BoardKept, Board!Spec
-----------------------------------------------------------------------------
(* Attempts beyond the limit.  A job goes back to the queue with its        *)
(* attempts used up only through a worker that remembers fewer, and that     *)
(* worker forgets them with this step: from the moment the limit is reached, *)
(* attempts, a place in the queue and such workers add up to no more than    *)
(* they do then.                                                             *)

\* The worker remembers that the job may be tried again.
Low(w, j) ==
  \/ worker[w].pc \in Reading /\ worker[w].job = j /\ worker[w].attempts < MaxAttempts
  \/ \E t \in worker[w].todo : t[1] = j /\ t[2] < MaxAttempts
Holders(j) == {w \in Worker : Low(w, j)}
Waiting(j) == IF jobs[j].status = "QUEUED" THEN 1 ELSE 0
Budget(j) ==
  jobs[j].attempts >= MaxAttempts =>
    jobs[j].attempts + Waiting(j) + Cardinality(Holders(j)) < MaxAttempts + Cardinality(Worker)

\* Stale jobs are kept during the recovery only, each once.
Todos ==
  \A w \in Worker :
    /\ worker[w].todo # {} => worker[w].pc \in {"recover", "recover.file"}
    /\ \A t, u \in worker[w].todo : t[1] = u[1] => t = u

BoundInv == IInv /\ Todos /\ \A j \in Job : Budget(j)

\* A step of one worker leaves the others alone.
LEMMA StepIsLocal ==
  ASSUME TypeOK, NEW w \in Worker, Step(w) \/ Poll(w) \/ Manual(w) \/ Crash(w)
  PROVE  \A u \in Worker \ {w} : worker'[u] = worker[u]
<1>1. CASE Step(w)
  BY <1>1 DEF TypeOK, Step, RecoverRead, RecoverJob, RecoverFile, ClaimRead, ClaimJob,
     ClaimReload, ClaimFile, ProcessFails, ProcessDone, EnqueueFind, EnqueueCreate,
     EnqueueNote, FinishFile, FinishJob, FailFile, FailJob, WriteFile, Rest, Goto
<1>2. CASE Poll(w) \/ Manual(w) \/ Crash(w)
  BY <1>2 DEF TypeOK, Poll, Manual, Crash, Rest, Goto
<1> QED BY <1>1, <1>2

\* Steps that leave the workers alone.
LEMMA WorkersRest ==
  ASSUME [Next]_vars,
         ~ \E w \in Worker : Step(w) \/ Poll(w) \/ Manual(w) \/ Crash(w)
  PROVE  UNCHANGED worker
BY DEF Next, CreateFind, CreateInsert, CreateCollides, CreateAnswers, DeleteFile, Age, vars

\* What a worker's step does to what it remembers.
TodoOf(w) ==
  /\ worker[w].todo # {} => worker[w].pc \in {"recover", "recover.file"}
  /\ \A t, u \in worker[w].todo : t[1] = u[1] => t = u

\* No step adds to the workers that remember too few attempts of a job whose
\* attempts are used up; and the stale jobs stay where they belong.
Forgets(w) ==
  /\ TodoOf(w)'
  /\ \A j \in Job : jobs'[j].attempts >= MaxAttempts /\ Low(w, j)' => Low(w, j)

LEMMA StepForgets ==
  ASSUME TypeOK, TypeOK', NEW w \in Worker, TodoOf(w),
         Step(w) \/ Poll(w) \/ Manual(w) \/ Crash(w)
  PROVE  Forgets(w)
<1> USE DEF At, PC, Reading, Holding, Mine
<1>1. /\ \A j \in Job : jobs[j].attempts \in Nat /\ jobs'[j].attempts \in Nat
      /\ worker[w].attempts \in Nat /\ \A t \in worker[w].todo : t[2] \in Nat
      /\ worker[w] \in Local /\ worker \in [Worker -> Local] /\ MaxAttempts \in Nat
  BY BoundAssumption DEF TypeOK, Board!Row, Local
<1>2. ASSUME NEW l \in PC, Goto(w, l), worker[w].todo = {},
             l \in Reading => worker[w].pc \in Reading
      PROVE  Forgets(w)
  <2>1. /\ worker'[w].pc = l /\ worker'[w].job = worker[w].job
        /\ worker'[w].attempts = worker[w].attempts /\ worker'[w].todo = {}
    BY <1>1, <1>2 DEF Goto, Local
  <2> QED BY <1>2, <2>1 DEF Forgets, TodoOf, Low
<1>3. ASSUME Rest(w) PROVE Forgets(w)
  <2>1. worker'[w] = Idle
    BY <1>1, <1>3 DEF Rest
  <2> QED BY <2>1 DEF Forgets, TodoOf, Low, Idle
<1>4. CASE RecoverRead(w)
  <2>1. /\ worker'[w].pc = (IF StaleJobs = {} THEN "claim" ELSE "recover")
        /\ worker'[w].todo = StaleJobs /\ UNCHANGED jobs
    BY <1>1, <1>4 DEF RecoverRead, Local
  <2>2. \A t \in StaleJobs : t[1] \in Job /\ t = <<t[1], jobs[t[1]].attempts>>
    BY DEF StaleJobs, TypeOK
  <2>3. TodoOf(w)'
    <3>1. \A t, u \in StaleJobs : t[1] = u[1] => t = u
      BY <2>2
    <3> QED BY <2>1, <3>1 DEF TodoOf
  <2>4. \A j \in Job : jobs'[j].attempts >= MaxAttempts => ~Low(w, j)'
    <3>1. \A t \in StaleJobs : t[2] = jobs[t[1]].attempts
      BY <2>2
    <3> QED BY <1>1, <2>1, <3>1 DEF Low
  <2> QED BY <2>3, <2>4 DEF Forgets
<1>5. CASE RecoverJob(w)
  <2>1. PICK t \in worker[w].todo :
          \/ worker' = [worker EXCEPT ![w] = [pc |-> "recover.file", job |-> t[1],
                          attempts |-> t[2], todo |-> worker[w].todo \ {t}]]
          \/ worker' = [worker EXCEPT ![w].pc = RecoverNext(worker[w].todo \ {t}),
                                      ![w].todo = worker[w].todo \ {t}]
    BY <1>5 DEF RecoverJob
  <2>2. /\ \/ worker'[w].pc = "recover.file"
           \/ worker'[w].pc = RecoverNext(worker[w].todo \ {t})
        /\ worker'[w].todo = worker[w].todo \ {t}
    BY <1>1, <2>1 DEF Local
  <2>3. TodoOf(w)'
    BY <2>2 DEF TodoOf, RecoverNext
  <2> QED BY <2>2, <2>3 DEF Forgets, RecoverNext, Low
<1>6. CASE RecoverFile(w)
  <2>1. CASE worker' = [worker EXCEPT ![w] = [Idle EXCEPT
                          !.pc = RecoverNext(worker[w].todo), !.todo = worker[w].todo]]
    <3>1. worker'[w].pc = RecoverNext(worker[w].todo) /\ worker'[w].todo = worker[w].todo
      BY <1>1, <2>1 DEF Idle
    <3> QED BY <3>1 DEF Forgets, TodoOf, RecoverNext, Low
  <2> QED BY <1>3, <1>6, <2>1 DEF RecoverFile
<1>7. CASE ClaimRead(w)
  <2>1. ASSUME NEW j \in Job, worker' = [worker EXCEPT ![w].pc = "claim.job", ![w].job = j]
        PROVE  Forgets(w)
    <3>1. /\ worker'[w].pc = "claim.job" /\ worker'[w].todo = worker[w].todo
          /\ worker[w].todo = {}
      BY <1>1, <1>7, <2>1 DEF ClaimRead, Local, TodoOf
    <3> QED BY <3>1 DEF Forgets, TodoOf, Low
  <2> QED BY <1>3, <1>7, <2>1 DEF ClaimRead, Queued
<1>8. CASE ClaimJob(w)
  <2>1. worker[w].todo = {}
    BY <1>8 DEF ClaimJob, TodoOf
  <2> QED BY <1>2, <1>3, <1>8, <2>1 DEF ClaimJob
<1>9. CASE ClaimReload(w)
  <2>1. worker[w].todo = {} /\ UNCHANGED jobs
    BY <1>9 DEF ClaimReload, TodoOf
  <2>2. CASE worker' = [worker EXCEPT ![w].pc = "claim.file",
                                      ![w].attempts = jobs[Mine(w)].attempts]
    <3>1. /\ worker'[w].job = worker[w].job /\ worker'[w].todo = {}
          /\ worker'[w].attempts = jobs[worker[w].job].attempts
      BY <1>1, <2>1, <2>2 DEF Local
    <3>2. TodoOf(w)'
      BY <3>1 DEF TodoOf
    <3>3. \A j \in Job : jobs'[j].attempts >= MaxAttempts => ~Low(w, j)'
      BY <1>1, <2>1, <3>1 DEF Low
    <3> QED BY <3>2, <3>3 DEF Forgets
  <2> QED BY <1>3, <1>9, <2>2 DEF ClaimReload
<1>10. CASE \/ ClaimFile(w) \/ FinishFile(w) \/ FailFile(w)
            \/ ProcessFails(w) \/ ProcessDone(w) \/ EnqueueFind(w) \/ EnqueueCreate(w)
            \/ EnqueueNote(w) \/ FinishJob(w) \/ FailJob(w) \/ Poll(w) \/ Manual(w)
            \/ Crash(w)
  <2>1. CASE Rest(w)
    BY <1>3, <2>1
  <2>2. ASSUME ~Rest(w) PROVE Forgets(w)
    <3>1. worker[w].todo = {}
      BY <1>10, <2>2 DEF ClaimFile, FinishFile, FailFile, ProcessFails, ProcessDone,
         EnqueueFind, EnqueueCreate, EnqueueNote, FinishJob, FailJob, Poll, Manual, Crash,
         TodoOf
    <3>2. \E l \in PC : Goto(w, l) /\ (l \in Reading => worker[w].pc \in Reading)
      BY <1>10, <2>2 DEF ClaimFile, FinishFile, FailFile, ProcessFails, ProcessDone,
         EnqueueFind, EnqueueCreate, EnqueueNote, FinishJob, FailJob, Poll, Manual, Crash,
         WriteFile
    <3> QED BY <1>2, <3>1, <3>2
  <2> QED BY <2>1, <2>2
<1> QED BY <1>4, <1>5, <1>6, <1>7, <1>8, <1>9, <1>10 DEF Step
LEMMA HoldersShrink ==
  ASSUME IInv, TypeOK', Todos, [Next]_vars
  PROVE  /\ Todos'
         /\ \A j \in Job : jobs'[j].attempts >= MaxAttempts => Holders(j)' \subseteq Holders(j)
<1>1. TypeOK /\ \A w \in Worker : TodoOf(w)
  BY DEF IInv, Todos, TodoOf
<1>2. ASSUME NEW u \in Worker, worker'[u] = worker[u] PROVE Forgets(u)
  BY <1>1, <1>2 DEF Forgets, TodoOf, Low
<1>3. ASSUME NEW w \in Worker, Step(w) \/ Poll(w) \/ Manual(w) \/ Crash(w)
      PROVE  \A u \in Worker : Forgets(u)
  <2>1. Forgets(w)
    BY <1>1, <1>3, StepForgets
  <2>2. \A u \in Worker \ {w} : worker'[u] = worker[u]
    BY <1>1, <1>3, StepIsLocal
  <2> QED BY <1>2, <2>1, <2>2
<1>4. ASSUME ~ \E w \in Worker : Step(w) \/ Poll(w) \/ Manual(w) \/ Crash(w)
      PROVE  \A u \in Worker : Forgets(u)
  <2>1. UNCHANGED worker
    BY <1>4, WorkersRest
  <2> QED BY <1>2, <2>1
<1>5. \A u \in Worker : Forgets(u)
  BY <1>3, <1>4
<1> QED BY <1>5 DEF Forgets, Todos, TodoOf, Holders

\* How a job may change: a new one; to any status but QUEUED; back to the queue
\* through a worker that forgets it; or by a claim.
Stays(j) == /\ jobs'[j].attempts = jobs[j].attempts
            /\ jobs'[j].status = "QUEUED" => jobs[j].status = "QUEUED"
Requeued(j) == /\ jobs'[j].attempts = jobs[j].attempts
               /\ \E w \in Worker : Low(w, j) /\ ~Low(w, j)'
Claimed(j) == /\ jobs[j].status = "QUEUED" /\ jobs'[j].status # "QUEUED"
              /\ jobs'[j].attempts = jobs[j].attempts + 1
              /\ \E w \in Worker : ~Low(w, j)'
Changes(j) == jobs'[j].attempts < MaxAttempts \/ Stays(j) \/ Requeued(j) \/ Claimed(j)

LEMMA SetJobChanges ==
  ASSUME TypeOK, NEW k \in Job, NEW s \in {"QUEUED", "COMPLETED", "FAILED"}, SetJob(k, s),
         s = "QUEUED" => \E w \in Worker : Low(w, k) /\ ~Low(w, k)'
  PROVE  \A j \in Job : Changes(j)
<1>1. /\ jobs'[k].status = s /\ jobs'[k].attempts = jobs[k].attempts
      /\ \A j \in Job \ {k} : jobs'[j] = jobs[j]
  BY DEF TypeOK, SetJob, Board!Row
<1> QED BY <1>1 DEF Changes, Stays, Requeued

LEMMA StepChanges ==
  ASSUME IInv, Todos, NEW w \in Worker, Step(w)
  PROVE  \A j \in Job : Changes(j)
<1> USE DEF At, PC, Reading, Holding, Mine
<1>0. TypeOK /\ worker[w] \in Local /\ worker \in [Worker -> Local]
  BY DEF IInv, TypeOK
<1>1. CASE UNCHANGED jobs
  BY <1>1 DEF Changes, Stays
<1>2. CASE RecoverJob(w)
  <2>1. PICK t \in worker[w].todo :
          IF StillProcessing(t[1])
          THEN /\ SetJob(t[1], IF MayRetry(t[2]) THEN "QUEUED" ELSE "FAILED")
               /\ worker' = [worker EXCEPT ![w] = [pc |-> "recover.file", job |-> t[1],
                               attempts |-> t[2], todo |-> worker[w].todo \ {t}]]
          ELSE UNCHANGED jobs
    BY <1>2 DEF RecoverJob
  <2>2. CASE StillProcessing(t[1])
    <3>1. t[1] \in Job
      BY DEF IInv, Memory
    <3>2. worker'[w].pc = "recover.file" /\ worker'[w].todo = worker[w].todo \ {t}
      BY <1>0, <2>1, <2>2
    <3>3. MayRetry(t[2]) => Low(w, t[1]) /\ ~Low(w, t[1])'
      BY <3>2 DEF Low, MayRetry, Todos
    <3> QED BY <1>0, <2>1, <2>2, <3>1, <3>3, SetJobChanges
  <2> QED BY <1>1, <2>1, <2>2
<1>3. CASE ClaimJob(w)
  <2>1. worker[w].todo = {}
    BY <1>3 DEF Todos, ClaimJob
  <2>2. PICK k \in Job : k = Mine(w)
    BY <1>3 DEF IInv, Memory, ClaimJob
  <2>3. CASE Claimable(k)
    <3>1. worker'[w].pc = "claim.read" /\ worker'[w].todo = {}
      BY <1>0, <1>3, <2>1, <2>2, <2>3 DEF ClaimJob, Goto, Local
    <3>2. ~Low(w, k)'
      BY <3>1 DEF Low
    <3>3. /\ jobs'[k].status = "PROCESSING" /\ jobs[k].status = "QUEUED"
          /\ jobs'[k].attempts = jobs[k].attempts + 1
          /\ \A j \in Job \ {k} : jobs'[j] = jobs[j]
      BY <1>0, <1>3, <2>2, <2>3 DEF ClaimJob, Claimable, TypeOK, Board!Row
    <3>4. Claimed(k)
      BY <3>2, <3>3 DEF Claimed
    <3> QED BY <3>3, <3>4 DEF Changes, Stays
  <2> QED BY <1>1, <1>3, <2>2, <2>3 DEF ClaimJob
<1>4. CASE FinishJob(w)
  <2>1. PICK k \in Job : k = Mine(w)
    BY <1>4 DEF IInv, Memory, FinishJob
  <2>2. CASE SetJob(k, "COMPLETED")
    BY <1>0, <2>2, SetJobChanges
  <2> QED BY <1>1, <1>4, <2>1, <2>2 DEF FinishJob
<1>5. CASE FailJob(w)
  <2> DEFINE s == IF MayRetry(worker[w].attempts) THEN "QUEUED" ELSE "FAILED"
  <2>1. PICK k \in Job : k = Mine(w)
    BY <1>5 DEF IInv, Memory, FailJob
  <2>2. worker'[w] = Idle
    BY <1>0, <1>5 DEF FailJob, Rest
  <2>3. MayRetry(worker[w].attempts) => Low(w, k) /\ ~Low(w, k)'
    BY <1>5, <2>1, <2>2 DEF FailJob, Low, Idle, MayRetry
  <2>4. CASE SetJob(k, "QUEUED") /\ MayRetry(worker[w].attempts)
    BY <1>0, <2>3, <2>4, SetJobChanges
  <2>5. CASE SetJob(k, "FAILED")
    BY <1>0, <2>5, SetJobChanges
  <2>6. SetJob(Mine(w), s) => SetJob(k, s)
    BY <2>1
  <2> QED BY <1>1, <1>5, <2>4, <2>5, <2>6 DEF FailJob
<1>6. CASE RecoverRead(w) \/ RecoverFile(w) \/ ClaimRead(w) \/ ClaimReload(w)
           \/ ClaimFile(w) \/ ProcessFails(w) \/ ProcessDone(w) \/ EnqueueFind(w)
           \/ EnqueueCreate(w) \/ EnqueueNote(w) \/ FinishFile(w) \/ FailFile(w)
  BY <1>1, <1>6 DEF RecoverRead, RecoverFile, ClaimRead, ClaimReload, ClaimFile, ProcessFails,
     ProcessDone, EnqueueFind, EnqueueCreate, EnqueueNote, FinishFile, FailFile, WriteFile
<1> QED BY <1>2, <1>3, <1>4, <1>5, <1>6 DEF Step

LEMMA JobChanges ==
  ASSUME IInv, Todos, [Next]_vars
  PROVE  \A j \in Job : Changes(j)
<1>1. CASE UNCHANGED jobs
  BY <1>1 DEF Changes, Stays
<1>2. ASSUME NEW c \in Client, NEW k \in Job, CreateInsert(c, k)
      PROVE  \A j \in Job : Changes(j)
  <2>1. jobs'[k].attempts = 0 /\ \A j \in Job \ {k} : jobs'[j] = jobs[j]
    BY <1>2 DEF CreateInsert, IInv, TypeOK
  <2> QED BY <2>1, BoundAssumption DEF Changes, Stays
<1>3. ASSUME NEW f \in File, DeleteFile(f) PROVE \A j \in Job : Changes(j)
  <2>1. \A j \in Job : \/ jobs'[j] = jobs[j]
                       \/ /\ jobs'[j].status = "GONE"
                          /\ jobs'[j].attempts = jobs[j].attempts
    BY <1>3 DEF DeleteFile, IInv, TypeOK, Board!Row
  <2> QED BY <2>1 DEF Changes, Stays
<1>4. ASSUME NEW w \in Worker, Poll(w) \/ Manual(w) \/ Crash(w) PROVE UNCHANGED jobs
  BY <1>4 DEF Poll, Manual, Crash
<1>5. ASSUME NEW c \in Client,
             (\E f \in File : CreateFind(c, f)) \/ CreateCollides(c) \/ CreateAnswers(c)
      PROVE  UNCHANGED jobs
  BY <1>5 DEF CreateFind, CreateCollides, CreateAnswers
<1>6. ASSUME (\E j \in Job : Age(j)) \/ UNCHANGED vars PROVE UNCHANGED jobs
  BY <1>6 DEF Age, vars
<1> QED BY <1>1, <1>2, <1>3, <1>4, <1>5, <1>6, StepChanges DEF Next

LEMMA BudgetStep ==
  ASSUME TypeOK, TypeOK', NEW j \in Job, Budget(j), Changes(j),
         jobs'[j].attempts >= MaxAttempts, Holders(j)' \subseteq Holders(j)
  PROVE  Budget(j)'
<1> DEFINE H == Holders(j)
           G == Holders(j)'
           a == jobs[j].attempts
           b == jobs'[j].attempts
<1>1. a \in Nat /\ b \in Nat /\ MaxAttempts \in Nat \ {0}
  BY BoundAssumption DEF TypeOK, Board!Row
<1>2. H \subseteq Worker /\ G \subseteq H
  BY DEF Holders
<1>3. /\ IsFiniteSet(H) /\ IsFiniteSet(G)
      /\ Cardinality(H) \in Nat /\ Cardinality(G) \in Nat /\ Cardinality(Worker) \in Nat
      /\ Cardinality(G) <= Cardinality(H) /\ Cardinality(G) <= Cardinality(Worker)
  <2>1. IsFiniteSet(H) /\ Cardinality(H) <= Cardinality(Worker)
    BY <1>2, WorkerAssumption, FS_Subset
  <2>2. IsFiniteSet(G) /\ Cardinality(G) <= Cardinality(H)
    BY <1>2, <2>1, FS_Subset
  <2>3. Cardinality(H) \in Nat /\ Cardinality(G) \in Nat /\ Cardinality(Worker) \in Nat
    BY <2>1, <2>2, WorkerAssumption, FS_CardinalityType
  <2> QED BY <2>1, <2>2, <2>3
<1>4. Waiting(j) \in {0, 1} /\ Waiting(j)' \in {0, 1}
  BY DEF Waiting
<1>5. a >= MaxAttempts => a + Waiting(j) + Cardinality(H) < MaxAttempts + Cardinality(Worker)
  BY DEF Budget
<1>6. SUFFICES b + Waiting(j)' + Cardinality(G) < MaxAttempts + Cardinality(Worker)
  BY DEF Budget
<1>7. CASE Stays(j)
  <2>1. Waiting(j)' <= Waiting(j) /\ a = b
    BY <1>7 DEF Stays, Waiting
  <2> HIDE DEF H, G, a, b
  <2> QED BY <1>1, <1>3, <1>4, <1>5, <2>1 DEF a, b
<1>8. CASE Requeued(j)
  <2>1. PICK w \in Worker : Low(w, j) /\ ~Low(w, j)'
    BY <1>8 DEF Requeued
  <2>2. w \in H /\ w \notin G /\ a = b
    BY <1>8, <2>1 DEF Holders, Requeued
  <2>3. Cardinality(G) # Cardinality(H)
    BY <1>2, <1>3, <2>2, FS_Subset
  <2> HIDE DEF H, G, a, b
  <2> QED BY <1>1, <1>3, <1>4, <1>5, <2>2, <2>3 DEF a, b
<1>9. CASE Claimed(j)
  <2>1. PICK w \in Worker : ~Low(w, j)'
    BY <1>9 DEF Claimed
  <2>2. w \notin G /\ b = a + 1 /\ Waiting(j) = 1 /\ Waiting(j)' = 0
    BY <1>9, <2>1 DEF Holders, Claimed, Waiting
  <2>3. Cardinality(G) # Cardinality(Worker)
    BY <1>2, <2>1, <2>2, WorkerAssumption, FS_Subset
  <2> HIDE DEF H, G, a, b
  <2> QED BY <1>1, <1>3, <1>4, <1>5, <2>2, <2>3 DEF a, b
<1> QED BY <1>1, <1>7, <1>8, <1>9 DEF Changes

\* No job is tried more often than maxAttempts and once per further worker.
THEOREM AttemptsAreBounded == Spec => []AttemptsBounded
<1>1. Init => BoundInv
  <2> SUFFICES ASSUME Init PROVE BoundInv
    OBVIOUS
  <2>1. \A j \in Job : jobs[j].attempts = 0
    BY DEF Init, Board!Init, Board!NoJob
  <2>2. Todos
    BY DEF Init, Todos, Idle
  <2> QED BY <2>1, <2>2, InvInit, BoundAssumption DEF BoundInv, Budget
<1>2. BoundInv /\ [Next]_vars => BoundInv'
  <2> SUFFICES ASSUME BoundInv, [Next]_vars PROVE BoundInv'
    OBVIOUS
  <2>1. IInv'
    BY InvStep DEF BoundInv
  <2>2. /\ Todos'
        /\ \A j \in Job : jobs'[j].attempts >= MaxAttempts => Holders(j)' \subseteq Holders(j)
    BY <2>1, HoldersShrink DEF BoundInv, IInv
  <2>3. \A j \in Job : Changes(j)
    BY JobChanges DEF BoundInv
  <2>4. ASSUME NEW j \in Job PROVE Budget(j)'
    <3>1. CASE jobs'[j].attempts >= MaxAttempts
      BY <2>1, <2>2, <2>3, <3>1, BudgetStep DEF BoundInv, IInv
    <3> QED BY <3>1 DEF Budget
  <2> QED BY <2>1, <2>2, <2>4 DEF BoundInv
<1>3. BoundInv => AttemptsBounded
  <2> SUFFICES ASSUME BoundInv, NEW j \in Job
               PROVE  jobs[j].attempts < MaxAttempts + Cardinality(Worker)
    BY DEF AttemptsBounded
  <2>1. Cardinality(Worker) \in Nat /\ Cardinality(Holders(j)) \in Nat
    <3>1. Holders(j) \subseteq Worker
      BY DEF Holders
    <3> QED BY <3>1, WorkerAssumption, FS_Subset, FS_CardinalityType
  <2>2. jobs[j].attempts \in Nat /\ Waiting(j) \in {0, 1} /\ MaxAttempts \in Nat
    BY BoundAssumption DEF BoundInv, IInv, TypeOK, Board!Row, Waiting
  <2>3. Budget(j)
    BY DEF BoundInv
  <2> QED BY <2>1, <2>2, <2>3 DEF Budget
<1> QED BY <1>1, <1>2, <1>3, PTL DEF Spec
-----------------------------------------------------------------------------
(* Files in PROCESSING.  Only a claim sets the status, and whoever set it    *)
(* comes to write it again unless it crashes.                                *)

Busy == {"process", "enqueue", "enqueue.create", "enqueue.note", "finish.file", "fail.file"}
Works(w, f) == worker[w].pc \in Busy /\ FileOf(worker[w].job) = f
OnItsWay ==
  crashes = 0 => \A f \in File : files[f] = "PROCESSING" => \E w \in Worker : Works(w, f)

\* The file of a job in hand stays its file.
LEMMA FileStays ==
  ASSUME IInv, [Next]_vars, NEW f \in File, NEW w \in Worker, Works(w, f)
  PROVE  /\ FileOf(worker[w].job)' = f \/ worker'[w].job # worker[w].job
         /\ worker[w].job \in Job /\ jobs'[worker[w].job].file = f
<1>1. worker[w].job \in Job
  BY DEF IInv, Memory, Works, Busy, Holding, PC
<1>2. jobs[worker[w].job].status # "NONE"
  BY <1>1, FileAssumption DEF IInv, Table, Blank, Works, FileOf, Board!NoJob
<1>3. \A j \in Job : jobs[j].status # "NONE" => jobs'[j].file = jobs[j].file
  BY Implements, BoardStep DEF IInv, TypeOK
<1> QED BY <1>1, <1>2, <1>3 DEF Works, FileOf

\* A worker at work on a file in PROCESSING goes on, or writes the file.
LEMMA WorkGoesOn ==
  ASSUME IInv, [Next]_vars, NEW f \in File, NEW w \in Worker, Works(w, f), Step(w),
         files[f] = "PROCESSING", files'[f] = "PROCESSING"
  PROVE  Works(w, f)'
<1> USE DEF At, Busy, Mine
<1>1. /\ worker \in [Worker -> Local] /\ worker[w] \in Local /\ worker[w].pc \in Busy
      /\ FileOf(Mine(w)) = f /\ files \in [File -> FileStatus]
  BY DEF IInv, TypeOK, Works
<1>2. ASSUME NEW l \in Busy, Goto(w, l) PROVE Works(w, f)'
  <2>1. worker'[w].pc = l /\ worker'[w].job = worker[w].job
    BY <1>1, <1>2 DEF Goto, Local
  <2> QED BY <2>1, FileStays DEF Works, FileOf
<1>3. CASE ProcessFails(w) \/ ProcessDone(w) \/ EnqueueFind(w) \/ EnqueueCreate(w)
           \/ EnqueueNote(w)
  BY <1>2, <1>3 DEF ProcessFails, ProcessDone, EnqueueFind, EnqueueCreate, EnqueueNote
<1>4. CASE FinishFile(w) \/ FailFile(w)
  BY <1>1, <1>4 DEF FinishFile, FailFile, WriteFile, SetFile, FileAfter
<1>5. CASE \/ RecoverRead(w) \/ RecoverJob(w) \/ RecoverFile(w) \/ ClaimRead(w)
           \/ ClaimJob(w) \/ ClaimReload(w) \/ ClaimFile(w) \/ FinishJob(w) \/ FailJob(w)
  BY <1>1, <1>5 DEF RecoverRead, RecoverJob, RecoverFile, ClaimRead, ClaimJob, ClaimReload,
     ClaimFile, FinishJob, FailJob
<1> QED BY <1>3, <1>4, <1>5 DEF Step

\* Who sets PROCESSING is at work.
LEMMA OnlyClaimsBegin ==
  ASSUME IInv, [Next]_vars, NEW f \in File, files[f] # "PROCESSING",
         files'[f] = "PROCESSING"
  PROVE  \E w \in Worker : Works(w, f)'
<1> USE DEF At
<1>1. files \in [File -> FileStatus] /\ worker \in [Worker -> Local]
  BY DEF IInv, TypeOK
<1>2. ASSUME NEW w \in Worker, ClaimFile(w) PROVE Works(w, f)'
  <2>1. /\ FileOf(Mine(w)) = f /\ worker' = [worker EXCEPT ![w].pc = "process"]
        /\ UNCHANGED jobs
    BY <1>1, <1>2 DEF ClaimFile, WriteFile, SetFile, Goto
  <2>2. worker'[w].pc = "process" /\ worker'[w].job = worker[w].job
    BY <1>1, <2>1 DEF Local
  <2> QED BY <2>1, <2>2 DEF Works, Busy, FileOf, Mine
<1>3. ASSUME NEW w \in Worker, RecoverFile(w) \/ FinishFile(w) \/ FailFile(w) PROVE FALSE
  BY <1>1, <1>3 DEF RecoverFile, FinishFile, FailFile, WriteFile, SetFile, FileAfter
<1>4. ASSUME NEW w \in Worker, Step(w) PROVE Works(w, f)'
  BY <1>2, <1>3, <1>4 DEF Step, RecoverRead, RecoverJob, ClaimRead, ClaimJob, ClaimReload,
     ProcessFails, ProcessDone, EnqueueFind, EnqueueCreate, EnqueueNote, FinishJob, FailJob
<1>5. ASSUME NEW w \in Worker, Poll(w) \/ Manual(w) \/ Crash(w) PROVE FALSE
  BY <1>5 DEF Poll, Manual, Crash
<1>6. ASSUME NEW g \in File, DeleteFile(g) PROVE FALSE
  BY <1>1, <1>6 DEF DeleteFile, SetFile
<1>7. ASSUME \/ \E c \in Client : \/ \E g \in File : CreateFind(c, g)
                                  \/ \E j \in Job : CreateInsert(c, j)
                                  \/ CreateCollides(c) \/ CreateAnswers(c)
             \/ \E j \in Job : Age(j)
             \/ UNCHANGED vars
      PROVE FALSE
  BY <1>7 DEF CreateFind, CreateInsert, CreateCollides, CreateAnswers, Age, vars
<1> QED BY <1>4, <1>5, <1>6, <1>7 DEF Next

LEMMA OnItsWayStep ==
  ASSUME IInv, OnItsWay, [Next]_vars
  PROVE  OnItsWay'
<1> SUFFICES ASSUME crashes' = 0, NEW f \in File, files'[f] = "PROCESSING"
             PROVE  \E w \in Worker : Works(w, f)'
  BY DEF OnItsWay
<1>1. crashes = 0 /\ ~ \E w \in Worker : Crash(w)
  <2>1. crashes \in Nat
    BY BoundAssumption DEF IInv, TypeOK
  <2>2. ~ \E w \in Worker : Crash(w)
    BY <2>1 DEF Crash
  <2>3. ASSUME NEW w \in Worker, Step(w) PROVE UNCHANGED crashes
    BY <2>3 DEF Step, RecoverRead, RecoverJob, RecoverFile, ClaimRead, ClaimJob,
       ClaimReload, ClaimFile, ProcessFails, ProcessDone, EnqueueFind, EnqueueCreate,
       EnqueueNote, FinishFile, FinishJob, FailFile, FailJob, WriteFile
  <2>4. UNCHANGED crashes
    BY <2>2, <2>3 DEF Next, Poll, Manual, CreateFind, CreateInsert, CreateCollides,
       CreateAnswers, DeleteFile, Age, vars
  <2> QED BY <2>2, <2>4
<1>2. CASE files[f] # "PROCESSING"
  BY <1>2, OnlyClaimsBegin
<1>3. CASE files[f] = "PROCESSING"
  <2>1. PICK w \in Worker : Works(w, f)
    BY <1>1, <1>3 DEF OnItsWay
  <2>2. CASE Step(w)
    BY <1>3, <2>1, <2>2, WorkGoesOn
  <2>3. CASE worker'[w] = worker[w]
    BY <2>1, <2>3, FileStays DEF Works, FileOf
  <2>4. ~Poll(w) /\ ~Manual(w)
    BY <2>1 DEF Works, Busy, Poll, Manual, At
  <2>5. ASSUME ~Step(w), worker'[w] # worker[w] PROVE FALSE
    <3>1. PICK v \in Worker : Step(v) \/ Poll(v) \/ Manual(v) \/ Crash(v)
      BY <2>5, WorkersRest
    <3>2. v # w
      BY <1>1, <2>4, <2>5, <3>1
    <3> QED BY <2>5, <3>1, <3>2, StepIsLocal DEF IInv
  <2> QED BY <2>2, <2>3, <2>5
<1> QED BY <1>2, <1>3

\* As long as nothing crashes, somebody is going to write the status of a file
\* shown as PROCESSING.
THEOREM NoFileIsForgotten == Spec => []NoFileForgotten
<1>1. Init => OnItsWay
  BY DEF Init, OnItsWay
<1>2. IInv /\ OnItsWay /\ [Next]_vars => OnItsWay'
  BY OnItsWayStep
<1>3. OnItsWay => NoFileForgotten
  BY DEF OnItsWay, NoFileForgotten, Works, WillWrite, Busy, PC, Mine
<1> QED BY <1>1, <1>2, <1>3, Invariant, PTL DEF Spec
=============================================================================
