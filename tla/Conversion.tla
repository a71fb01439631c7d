----------------------------- MODULE Conversion -----------------------------
(***************************************************************************)
(* One job of the 3D conversion from its upload to the product's model:    *)
(* ConversionUpload together with the worker of ThreeDConversionWorker and *)
(* the administrators' publish, retry and remove.                          *)
(*                                                                         *)
(* The worker reads the job once, when it claims it, and writes its        *)
(* results by id; a job that has run for longer than staleAfterMs is taken *)
(* away from a worker that may still be running.                           *)
(*                                                                         *)
(* An operator whose name starts with Bug is the operator that follows it  *)
(* with a plausible mistake; no specification uses it.                     *)
(***************************************************************************)
EXTENDS ConversionUpload

CONSTANTS
  Worker,       \* jobs that the worker processes run at a time, one each
  Admin,        \* requests of administrators
  MaxAttempts,  \* maxAttempts of the job
  MaxOps        \* bound: operations that administrators start

ASSUME WorkAssumption == MaxAttempts \in Nat \ {0} /\ MaxOps \in Nat
ASSUME ProcessAssumption == Worker \cap Admin = {}

VARIABLES
  overdue,   \* the job runs, and startedAt is older than staleAfterMs
  target,    \* targetProductId is set
  files,     \* the product's files whose storageKey is the model published here
  proc,      \* program counter and locals of workers and administrators
  ops,       \* operations of administrators so far
  trashed    \* history: the objects that administrators, or the owner of a
             \* source that the job only borrows, have begun to delete

workVars == <<overdue, target, files, proc, ops, trashed>>
vars == <<row, origin, store, upload, fits, lapsed, client, call, crashes,
          overdue, target, files, proc, ops, trashed>>

Process == Worker \cup Admin
PC == {"idle", "fetch", "convert", "note", "optimize", "done", "source", "unready",
       "fail", "fail.row", "publish", "publish.read", "copy", "commit", "tidy",
       "tidy.row", "undo", "undo.store", "retry.row", "remove", "remove.row"}
\* keys: the job's objects, as read; reuse: reusableConverted; auto: the job had
\* a target when it was claimed
Local == [pc : PC, keys : SUBSET Object, reuse : BOOLEAN, auto : BOOLEAN,
          attempts : Nat, upload : BOOLEAN]
Idle == [pc |-> "idle", keys |-> {}, reuse |-> FALSE, auto |-> FALSE,
         attempts |-> 0, upload |-> FALSE]

TypeOK ==
  /\ UploadTypeOK
  /\ overdue \in BOOLEAN
  /\ target \in BOOLEAN
  /\ files \in Nat
  /\ proc \in [Process -> Local]
  /\ ops \in 0..MaxOps
  /\ trashed \subseteq Object

Init ==
  /\ UploadInit
  /\ overdue = FALSE
  /\ target \in {t \in BOOLEAN : <<origin, t>> \in Kind}
  /\ files = 0
  /\ proc = [p \in Process |-> Idle]
  /\ ops = 0
  /\ trashed = {}

-----------------------------------------------------------------------------

At(p, l) == proc[p].pc = l
Jump(p, l) == proc' = [proc EXCEPT ![p].pc = l]
Rest(p) == proc' = [proc EXCEPT ![p] = Idle]

Alone == UNCHANGED <<origin, upload, fits, client, call>>
RowKept == UNCHANGED <<row, lapsed, overdue>>
\* startedAt counts while the job runs only.
WriteRow(r) == Write(r) /\ overdue' = (overdue /\ r.status = "PROCESSING")
\* An update by id: it throws when the row is gone.
Update(p, r, next, thrown) ==
  IF Exists THEN WriteRow(r) /\ Jump(p, next) ELSE RowKept /\ Jump(p, thrown)

\* The conversion of a GLB that is not reusableConverted leaves it where it is.
Direct(w) == origin # "upload" /\ ~proc[w].reuse
ConvertedKey(w) == IF Direct(w) THEN "source" ELSE "converted"

-----------------------------------------------------------------------------
(* The worker: claimNextJob and process *)

\* The claim, and the job as it is read after it.
Claim(w) ==
  /\ At(w, "idle") /\ row.status = "QUEUED"
  /\ Write([row EXCEPT !.status = "PROCESSING", !.stage = "CONVERTING", !.attempts = @ + 1])
  /\ overdue' = FALSE
  /\ proc' = [proc EXCEPT ![w] = [Idle EXCEPT !.pc = "fetch", !.auto = target,
                                              !.keys = {row.conv} \ {NoKey}]]
  /\ UNCHANGED <<store, crashes, target, files, ops, trashed>> /\ Alone

\* An earlier attempt's result is used when it is there, the source otherwise.
Fetch(w) ==
  LET reusable == proc[w].keys # {} /\ proc[w].keys \subseteq store IN
  /\ At(w, "fetch")
  /\ reusable \/ "source" \in store
  /\ proc' = [proc EXCEPT ![w].pc = "convert", ![w].reuse = reusable]
  /\ UNCHANGED <<store, crashes, target, files, ops, trashed>> /\ RowKept /\ Alone

Convert(w) ==
  /\ At(w, "convert")
  /\ store' = IF Direct(w) THEN store ELSE store \cup {"converted"}
  /\ Jump(w, "note")
  /\ UNCHANGED <<crashes, target, files, ops, trashed>> /\ RowKept /\ Alone

BugReadyTooSoon(w) ==
  /\ At(w, "note")
  /\ Update(w, [row EXCEPT !.conv = ConvertedKey(w), !.stage = "READY"], "optimize", "fail")
  /\ UNCHANGED <<store, crashes, target, files, ops, trashed>> /\ Alone

NoteConverted(w) ==
  /\ At(w, "note")
  /\ Update(w, [row EXCEPT !.conv = ConvertedKey(w), !.stage = "OPTIMIZING"],
            "optimize", "fail")
  /\ UNCHANGED <<store, crashes, target, files, ops, trashed>> /\ Alone

Optimize(w) ==
  /\ At(w, "optimize")
  /\ store' = store \cup {"output"}
  /\ Jump(w, "done")
  /\ UNCHANGED <<crashes, target, files, ops, trashed>> /\ RowKept /\ Alone

Ready(r) == [r EXCEPT !.status = "COMPLETED", !.stage = "READY", !.out = TRUE]

Done(w) ==
  /\ At(w, "done")
  /\ Update(w, Ready(row), "source", "fail")
  /\ UNCHANGED <<store, crashes, target, files, ops, trashed>> /\ Alone

\* deleteSourceOnSuccess && !reusableConverted && !directGlbSource
SourceSpent(w) == OwnsSource /\ ~proc[w].reuse /\ ~Direct(w)

\* A failure to delete is logged.
DeleteSource(w) ==
  /\ At(w, "source")
  /\ store' \in {store, IF SourceSpent(w) THEN store \ {"source"} ELSE store}
  /\ IF proc[w].auto THEN Jump(w, "publish") ELSE Rest(w)
  /\ UNCHANGED <<crashes, target, files, ops, trashed>> /\ RowKept /\ Alone

\* The automatic publication has thrown: the stage is set back, by id.
Unready(w) ==
  /\ At(w, "unready")
  /\ IF Exists THEN WriteRow([row EXCEPT !.stage = "READY"]) /\ Rest(w)
     ELSE RowKept /\ Jump(w, "fail")
  /\ UNCHANGED <<store, crashes, target, files, ops, trashed>> /\ Alone

Fails(w) ==
  /\ proc[w].pc \in {"fetch", "convert", "optimize"}
  /\ Jump(w, "fail")
  /\ UNCHANGED <<store, crashes, target, files, ops, trashed>> /\ RowKept /\ Alone

FailRead(w) ==
  /\ At(w, "fail")
  /\ IF Exists
     THEN proc' = [proc EXCEPT ![w] = [Idle EXCEPT !.pc = "fail.row", !.attempts = row.attempts]]
     ELSE Rest(w)
  /\ UNCHANGED <<store, crashes, target, files, ops, trashed>> /\ RowKept /\ Alone

Terminal(n) == n >= MaxAttempts
AfterFailure(r, n) ==
  IF Terminal(n) THEN FailedRow(r) ELSE [r EXCEPT !.status = "QUEUED", !.stage = "QUEUED"]

FailRow(w) ==
  /\ At(w, "fail.row")
  /\ IF Exists THEN WriteRow(AfterFailure(row, proc[w].attempts)) ELSE RowKept
  /\ Rest(w)
  /\ UNCHANGED <<store, crashes, target, files, ops, trashed>> /\ Alone

-----------------------------------------------------------------------------
(* recoverStaleJobs: the jobs that run for too long *)

Overdue ==
  /\ row.status = "PROCESSING" /\ row.stage \notin {"UPLOADING", "COMPLETING"} /\ ~overdue
  /\ overdue' = TRUE
  /\ UNCHANGED <<row, lapsed, store, crashes, target, files, proc, ops, trashed>> /\ Alone

BugNothingStale == FALSE
Stale == row.status = "PROCESSING" /\ row.stage # "COMPLETING" /\ overdue

\* The update demands all that was read, so that read and update are one step.
SweepStale ==
  /\ Stale
  /\ WriteRow(AfterFailure(row, row.attempts))
  /\ UNCHANGED <<store, crashes, target, files, proc, ops, trashed>> /\ Alone

-----------------------------------------------------------------------------
(* publish, by an administrator or by the worker *)

\* What the caller of a failed publication does.
PublishThrows(p) == IF p \in Worker THEN Jump(p, "unready") ELSE Rest(p)

PublishClaim(p) ==
  /\ At(p, "publish")
  /\ IF row.status = "COMPLETED" /\ row.stage = "READY"
     THEN WriteRow([row EXCEPT !.stage = "PUBLISHING"]) /\ Jump(p, "publish.read")
     ELSE RowKept /\ PublishThrows(p)
  /\ UNCHANGED <<store, crashes, target, files, ops, trashed>> /\ Alone

KeysOf(r) == ({r.conv} \ {NoKey}) \cup (IF r.out THEN {"output"} ELSE {})

\* It throws, too, when there is no such product; the stage stays PUBLISHING.
PublishRead(p) ==
  /\ At(p, "publish.read")
  /\ \/ /\ row.status = "COMPLETED" /\ row.stage = "PUBLISHING" /\ row.out
        /\ proc' = [proc EXCEPT ![p].pc = "copy", ![p].keys = KeysOf(row)]
     \/ PublishThrows(p)
  /\ UNCHANGED <<store, crashes, target, files, ops, trashed>> /\ RowKept /\ Alone

PublishCopy(p) ==
  /\ At(p, "copy")
  /\ \/ "output" \in store /\ store' = store \cup {"model"} /\ Jump(p, "commit")
     \/ UNCHANGED store /\ PublishThrows(p)
  /\ UNCHANGED <<crashes, target, files, ops, trashed>> /\ RowKept /\ Alone

\* The transaction: the file, the product's media and the job, or nothing.
PublishCommit(p) ==
  /\ At(p, "commit")
  /\ \/ /\ Exists
        /\ WriteRow([row EXCEPT !.status = "COMPLETED", !.stage = "PUBLISHED"])
        /\ files' = files + 1 /\ target' = TRUE
        /\ IF OwnsSource THEN Jump(p, "tidy") ELSE Rest(p)
     \/ Jump(p, "undo") /\ RowKept /\ UNCHANGED <<files, target>>
  /\ UNCHANGED <<store, crashes, ops, trashed>> /\ Alone

PublishUndo(p) ==
  /\ At(p, "undo")
  /\ IF row.stage = "PUBLISHING" THEN WriteRow([row EXCEPT !.stage = "READY"]) ELSE RowKept
  /\ Jump(p, "undo.store")
  /\ UNCHANGED <<store, crashes, target, files, ops, trashed>> /\ Alone

PublishUndoCopy(p) ==
  /\ At(p, "undo.store")
  /\ store' \in {store, store \ {"model"}}
  /\ PublishThrows(p)
  /\ UNCHANGED <<crashes, target, files, ops, trashed>> /\ RowKept /\ Alone

\* discardConversionIntermediates: the copies that belong to the conversion.
Spare(p) == proc[p].keys \cup {"source"}

Tidy(p) ==
  /\ At(p, "tidy")
  /\ \E kept \in SUBSET (Spare(p) \cap store) :
       /\ store' = (store \ Spare(p)) \cup kept
       /\ proc' = [proc EXCEPT ![p].pc = "tidy.row", ![p].keys = Spare(p) \ kept]
  /\ UNCHANGED <<crashes, target, files, ops, trashed>> /\ RowKept /\ Alone

\* The keys of what is gone leave the row; an error is ignored.
TidyRow(p) ==
  /\ At(p, "tidy.row")
  /\ \/ /\ Exists
        /\ WriteRow([row EXCEPT !.conv = IF @ \in proc[p].keys THEN NoKey ELSE @,
                                !.out = @ /\ "output" \notin proc[p].keys])
     \/ RowKept
  /\ Rest(p)
  /\ UNCHANGED <<store, crashes, target, files, ops, trashed>> /\ Alone

-----------------------------------------------------------------------------
(* The administrators *)

Begin(a) ==
  /\ At(a, "idle") /\ ops < MaxOps
  /\ ops' = ops + 1
  /\ UNCHANGED <<crashes, target, files>> /\ RowKept /\ Alone

AskPublish(a) ==
  /\ Begin(a) /\ row.status = "COMPLETED"
  /\ Jump(a, "publish")
  /\ UNCHANGED <<store, trashed>>

\* retry: a failed job with something to convert; its old output is deleted.
AskRetry(a) ==
  /\ Begin(a) /\ row.status = "FAILED" /\ row.stage # "PUBLISHED"
  /\ "source" \in store \/ row.conv \in store
  /\ \/ row.out /\ store' \in {store, store \ {"output"}} /\ trashed' = trashed \cup {"output"}
     \/ ~row.out /\ UNCHANGED <<store, trashed>>
  /\ Jump(a, "retry.row")

RetryRow(a) ==
  /\ At(a, "retry.row")
  /\ IF Exists
     THEN WriteRow([row EXCEPT !.status = "QUEUED", !.stage = "QUEUED",
                               !.attempts = 0, !.out = FALSE])
     ELSE RowKept
  /\ Rest(a)
  /\ UNCHANGED <<store, crashes, target, files, ops, trashed>> /\ Alone

BugOwnedKeys == KeysOf(row) \cup {"source"}
\* The keys that remove may delete: a borrowed source never.
OwnedKeys ==
  IF OwnsSource THEN KeysOf(row) \cup {"source"} ELSE KeysOf(row) \ {"source"}

AskRemove(a) ==
  /\ Begin(a) /\ Exists
  /\ proc' = [proc EXCEPT ![a] = [Idle EXCEPT !.pc = "remove", !.keys = OwnedKeys,
                                              !.upload = row.upload]]
  /\ trashed' = trashed \cup OwnedKeys
  /\ UNCHANGED store

\* The storage is cleaned first; when it fails the job stays.
RemoveObjects(a) ==
  /\ At(a, "remove")
  /\ IF proc[a].upload THEN AbortUpload \/ UNCHANGED upload ELSE UNCHANGED upload
  /\ \/ store' = store \ proc[a].keys /\ Jump(a, "remove.row")
     \/ (\E gone \in SUBSET proc[a].keys : store' = store \ gone) /\ Rest(a)
  /\ UNCHANGED <<origin, fits, client, call, crashes, target, files, ops, trashed>> /\ RowKept

RemoveRow(a) ==
  /\ At(a, "remove.row")
  /\ IF Exists THEN WriteRow(GoneRow) ELSE RowKept
  /\ Rest(a)
  /\ UNCHANGED <<store, crashes, target, files, ops, trashed>> /\ Alone

\* Whoever owns a borrowed source deletes it: the job that a rerun was made from
\* is published, which tidies its converted GLB away, or removed; or the file is
\* taken from its product.  Nothing looks at the jobs that still need it.
OwnerDeletes ==
  /\ ~OwnsSource /\ "source" \in store
  /\ store' = store \ {"source"} /\ trashed' = trashed \cup {"source"}
  /\ UNCHANGED <<crashes, target, files, proc, ops>> /\ RowKept /\ Alone

Crash(p) ==
  /\ ~At(p, "idle") /\ crashes < MaxCrashes
  /\ crashes' = crashes + 1
  /\ Rest(p)
  /\ UNCHANGED <<store, target, files, ops, trashed>> /\ RowKept /\ Alone

-----------------------------------------------------------------------------

Publish(p) ==
  \/ PublishClaim(p) \/ PublishRead(p) \/ PublishCopy(p) \/ PublishCommit(p)
  \/ PublishUndo(p) \/ PublishUndoCopy(p) \/ Tidy(p) \/ TidyRow(p)
Work(w) ==
  \/ Claim(w) \/ Fetch(w) \/ Convert(w) \/ NoteConverted(w) \/ Optimize(w) \/ Done(w)
  \/ DeleteSource(w) \/ Unready(w) \/ Fails(w) \/ FailRead(w) \/ FailRow(w)
Ask(a) == AskPublish(a) \/ AskRetry(a) \/ AskRemove(a)
Finish(a) == RetryRow(a) \/ RemoveObjects(a) \/ RemoveRow(a)

Next ==
  \/ UploadNext /\ UNCHANGED workVars
  \/ \E w \in Worker : Work(w)
  \/ \E a \in Admin : Ask(a) \/ Finish(a)
  \/ \E p \in Process : Publish(p) \/ Crash(p)
  \/ Overdue \/ SweepStale \/ OwnerDeletes

Spec == Init /\ [][Next]_vars

\* The worker's loop runs, a call that has begun goes on, time passes, and the
\* storage does not refuse for ever.  Nobody has to send a request.
Fairness ==
  /\ WF_vars((Start \/ SweepUpload \/ Lapse) /\ UNCHANGED workVars)
  /\ WF_vars((\E c \in Request : call[c] # "idle" /\ Complete(c)) /\ UNCHANGED workVars)
  /\ WF_vars(call[Recovery] # "idle" /\ Complete(Recovery) /\ UNCHANGED workVars)
  /\ SF_vars(CompleteRead(Recovery) /\ UNCHANGED workVars)
  /\ SF_vars((StorageCompletes(Recovery) \/ SizeKnown(Recovery)) /\ UNCHANGED workVars)
  /\ WF_vars(Overdue \/ SweepStale)
  /\ \A w \in Worker : WF_vars(Work(w) \/ Publish(w))
FairSpec == Spec /\ Fairness

-----------------------------------------------------------------------------
(* Properties *)

\* A job gets into the queue, and so to a worker, only with its upload complete
\* in storage, whatever calls, retries, sweeps and crashes came between.
UploadWhole ==
  OwnsSource /\ row.stage \notin {"NONE", "UPLOADING", "COMPLETING", "FAILED", "GONE"}
    => upload = "done"

\* A source that the job only borrows, a GLB of the catalogue or the output of
\* another job, is deleted by its owner or not at all: not by the worker, nor by a
\* publication, a removal or a sweep of this job, whatever they read before.
BorrowedKept ==
  [][~OwnsSource /\ "source" \in store => "source" \in store' \/ OwnerDeletes]_vars

\* As long as a job has not been published, and neither an administrator nor the
\* owner of a borrowed source has begun to delete what it needs, a waiting or
\* running job has something to convert and a finished one its output, although
\* the worker deletes the source, a failed upload is thrown away, and workers that
\* lost the job still write.
NothingLost ==
  fits /\ files = 0 =>
    /\ row.stage \in {"QUEUED", "CONVERTING", "OPTIMIZING"} =>
         store \cap {"source", "converted"} # {} \/ trashed \cap {"source", "converted"} # {}
    /\ row.stage \in {"READY", "PUBLISHING"} => "output" \in store \cup trashed

\* The upload cannot be completed any more: aborted, or deleted.
Unfinishable == upload = "aborted" \/ (upload = "done" /\ "source" \notin store)
\* An upload that its caller left COMPLETING is finished by somebody.
CompletionRecovers ==
  row.stage = "COMPLETING" ~> row.stage # "COMPLETING" \/ Unfinishable

\* A job in the queue or with a worker comes to an end.
WorkSettles == row.status = "QUEUED" ~> row.status \in {"COMPLETED", "FAILED", "GONE"}

\* The model of a published file stays in storage.
PublishedKept == [][files > 0 /\ "model" \in store => "model" \in store']_vars
=============================================================================
