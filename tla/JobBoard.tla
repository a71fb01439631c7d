------------------------------ MODULE JobBoard ------------------------------
(***************************************************************************)
(* What the table ProductFileProcessingJob promises, whoever works on it:  *)
(* a file has one active job at most, the only way to PROCESSING is a      *)
(* claim and every claim is counted, a job is FAILED only when its         *)
(* attempts are used up, and a job that went with its file stays away.     *)
(* Module ProcessingJobs is shown to implement it.                         *)
(***************************************************************************)
EXTENDS Naturals

CONSTANTS
  Job,          \* the ids of the jobs that can be created
  File,         \* product files
  NoFile,       \* the file of a job that is not created yet
  MaxAttempts   \* ProductFileProcessingJob.maxAttempts

VARIABLE board  \* the row of every job

Active == {"QUEUED", "PROCESSING"}
Status == Active \cup {"NONE", "COMPLETED", "FAILED", "GONE"}
Row == [file : File \cup {NoFile}, status : Status, attempts : Nat]
NoJob == [file |-> NoFile, status |-> "NONE", attempts |-> 0]

Exists(j) == board[j].status \notin {"NONE", "GONE"}
\* No job of the file is active.
Free(f) == \A j \in Job : board[j].file = f => board[j].status \notin Active
Move(j, s) == board' = [board EXCEPT ![j].status = s]

Init == board = [j \in Job |-> NoJob]

Create(j, f) ==
  /\ board[j] = NoJob
  /\ Free(f)
  /\ board' = [board EXCEPT ![j] = [file |-> f, status |-> "QUEUED", attempts |-> 0]]

Claim(j) ==
  /\ board[j].status = "QUEUED"
  /\ board' = [board EXCEPT ![j].status = "PROCESSING", ![j].attempts = @ + 1]

\* Also a job that was over, by a worker that comes too late.
Requeue(j) ==
  /\ Exists(j)
  /\ board[j].status \in Active \/ Free(board[j].file)
  /\ Move(j, "QUEUED")

Complete(j) == Exists(j) /\ Move(j, "COMPLETED")

Fail(j) ==
  /\ Exists(j)
  /\ board[j].attempts >= MaxAttempts
  /\ Move(j, "FAILED")

\* The jobs of a file are deleted with it.
Remove(f) ==
  board' = [j \in Job |-> IF board[j].file = f
                          THEN [board[j] EXCEPT !.status = "GONE"] ELSE board[j]]

Next ==
  \/ \E j \in Job : \/ \E f \in File : Create(j, f)
                    \/ Claim(j) \/ Requeue(j) \/ Complete(j) \/ Fail(j)
  \/ \E f \in File : Remove(f)

Spec == Init /\ [][Next]_board
=============================================================================
