-------------------------- MODULE ConversionUpload --------------------------
(***************************************************************************)
(* The upload of the source of one 3D conversion: the browser's            *)
(* uploadConversionDirect, start, complete and abort of                    *)
(* ThreeDConversionService, and what the worker's recoverStaleJobs does    *)
(* with uploads.  Module Conversion adds what happens to the job then.     *)
(*                                                                         *)
(* A step is one statement of the database or one call of the storage.     *)
(* Calls fail, answers are lost, processes crash, and requests are sent    *)
(* again while the first one is still running.                             *)
(*                                                                         *)
(* An operator whose name starts with Bug is the operator that follows it  *)
(* with a plausible mistake; no specification uses it.                     *)
(***************************************************************************)
EXTENDS Naturals, FiniteSets

CONSTANTS
  Request,     \* the times that the client sends complete or abort: three at most
  Recovery,    \* the call of complete by recoverStaleJobs
  Kind,        \* the jobs there may be: where the source comes from, and whether
               \* a product is named as the target
  MaxCrashes   \* bound: crashes of processes

\* An uploaded file or GLB; or one that the job only borrows, a GLB of the catalogue
\* or the converted GLB of another job.
Origin == {"upload", "glb", "borrowed"}

ASSUME RecoveryAssumption == Recovery \notin Request
ASSUME KindAssumption == Kind \subseteq Origin \X BOOLEAN
ASSUME CrashAssumption == MaxCrashes \in Nat

VARIABLES
  row,      \* the row of ThreeDConversionJob
  origin,   \* where the source of the job comes from
  store,    \* the objects in storage that belong to the job or its product
  upload,   \* the multipart upload in storage
  fits,     \* the parts add up to the size that the client declares
  lapsed,   \* COMPLETING, and updatedAt is older than 30 s
  client,   \* where uploadConversionDirect is, with its call of start
  call,     \* where each call of complete and abort is
  crashes   \* crashes so far

uploadVars == <<origin, upload, fits, lapsed, client, call>>

\* deleteSourceOnSuccess
OwnsSource == origin # "borrowed"
Object == {"source", "converted", "output", "model"}
NoKey == "none"

Stage == {"NONE", "UPLOADING", "COMPLETING", "QUEUED", "CONVERTING", "OPTIMIZING",
          "READY", "PUBLISHING", "PUBLISHED", "FAILED", "GONE"}
Status == {"NONE", "QUEUED", "PROCESSING", "COMPLETED", "FAILED", "GONE"}
\* upload: uploadId is set; conv, out: the objects that convertedStorageKey and
\* outputStorageKey name
Row == [status : Status, stage : Stage, upload : BOOLEAN, attempts : Nat,
        conv : {NoKey, "source", "converted"}, out : BOOLEAN]
NewRow == [status |-> "PROCESSING", stage |-> "UPLOADING", upload |-> FALSE,
           attempts |-> 0, conv |-> NoKey, out |-> FALSE]
GoneRow == [NewRow EXCEPT !.status = "GONE", !.stage = "GONE"]

Caller == Request \cup {Recovery}
CallPC == {"idle", "over", "claim", "takeover", "reread.won", "reread.lost", "finalize",
           "size", "queue", "discard", "discard.row", "abort", "abort.row"}
ClientPC == {"start", "open", "save", "undo", "undo.row", "parts", "complete", "abort", "over"}

UploadTypeOK ==
  /\ row \in Row
  /\ origin \in Origin
  /\ store \subseteq Object
  /\ upload \in {"none", "open", "done", "aborted"}
  /\ fits \in BOOLEAN
  /\ lapsed \in BOOLEAN /\ (lapsed => row.stage = "COMPLETING")
  /\ client \in ClientPC
  /\ call \in [Caller -> CallPC]
  /\ crashes \in 0..MaxCrashes

\* createFromExistingGlb and rerun queue a job whose source is there already.
UploadInit ==
  /\ origin \in {k[1] : k \in Kind}
  /\ IF OwnsSource
     THEN /\ row = [NewRow EXCEPT !.status = "NONE", !.stage = "NONE"]
          /\ store = {} /\ client = "start" /\ fits \in BOOLEAN
     ELSE /\ row = [NewRow EXCEPT !.status = "QUEUED", !.stage = "QUEUED"]
          /\ store = {"source"} /\ client = "over" /\ fits = TRUE
  /\ upload = "none"
  /\ lapsed = FALSE
  /\ call = [c \in Caller |-> "idle"]
  /\ crashes = 0

-----------------------------------------------------------------------------

Exists == row.status \notin {"NONE", "GONE"}
Goto(c, l) == call' = [call EXCEPT ![c] = l]
Return(c) == Goto(c, IF c = Recovery THEN "idle" ELSE "over")

BugKeepsUpdatedAt(r) == row' = r /\ UNCHANGED lapsed
\* A statement that changes the row sets updatedAt.
Write(r) == row' = r /\ lapsed' = FALSE
FailedRow(r) == [r EXCEPT !.status = "FAILED", !.stage = "FAILED"]
FailUpload == Write([FailedRow(row) EXCEPT !.upload = FALSE])

AbortUpload == upload' = IF upload = "open" THEN "aborted" ELSE upload

-----------------------------------------------------------------------------
(* start *)

StartCreate ==
  /\ client = "start"
  /\ Write(NewRow)
  /\ client' = "open"
  /\ UNCHANGED <<origin, store, upload, fits, call, crashes>>

\* createMultipartUpload; with its answer lost the upload stays open.
StartOpen ==
  /\ client = "open"
  /\ \/ upload' = "open" /\ client' = "save"
     \/ upload' \in {"none", "open"} /\ client' = "undo.row"
  /\ UNCHANGED <<row, origin, store, fits, lapsed, call, crashes>>

\* The uploadId is saved and the parts are presigned.
StartSave ==
  /\ client = "save"
  /\ IF Exists
     THEN Write([row EXCEPT !.upload = TRUE]) /\ client' \in {"parts", "undo"}
     ELSE client' = "undo" /\ UNCHANGED <<row, lapsed>>
  /\ UNCHANGED <<origin, store, upload, fits, call, crashes>>

\* The storage is cleaned up as far as it answers.
StartUndo ==
  /\ client = "undo"
  /\ AbortUpload \/ UNCHANGED upload
  /\ client' = "undo.row"
  /\ UNCHANGED <<row, origin, store, fits, lapsed, call, crashes>>

StartFails ==
  /\ client = "undo.row"
  /\ IF Exists THEN FailUpload ELSE UNCHANGED <<row, lapsed>>
  /\ client' = "over"
  /\ UNCHANGED <<origin, store, upload, fits, call, crashes>>

\* The parts go to the storage; after too many failures the client aborts.
PutParts ==
  /\ client = "parts"
  /\ client' \in {"complete", "abort"}
  /\ UNCHANGED <<row, origin, store, upload, fits, lapsed, call, crashes>>

-----------------------------------------------------------------------------
(* complete *)

\* A call that ends with an error.  The worker then touches the row.
Throw(c) ==
  /\ Return(c)
  /\ lapsed' = IF c = Recovery THEN FALSE ELSE lapsed

BugOnlyTheClient(c) == c # Recovery /\ client = "complete"
\* The client's request or a repetition of it, or the worker's call.
MayComplete(c) == IF c = Recovery THEN lapsed /\ row.upload ELSE client = "complete"

\* When the job is not being uploaded the call returns or fails at once.
CompleteRead(c) ==
  /\ call[c] = "idle" /\ MayComplete(c)
  /\ row.status = "PROCESSING" /\ row.upload
  /\ row.stage \in {"UPLOADING", "COMPLETING"}
  /\ Goto(c, IF row.stage = "UPLOADING" THEN "claim" ELSE "takeover")
  /\ UNCHANGED <<row, origin, store, upload, fits, lapsed, client, crashes>>

CompleteClaim(c) ==
  /\ call[c] = "claim"
  /\ IF row.status = "PROCESSING" /\ row.stage = "UPLOADING" /\ row.upload
     THEN Write([row EXCEPT !.stage = "COMPLETING"]) /\ Goto(c, "reread.won")
     ELSE Goto(c, "reread.lost") /\ UNCHANGED <<row, lapsed>>
  /\ UNCHANGED <<origin, store, upload, fits, client, crashes>>

StillCompleting == row.status = "PROCESSING" /\ row.stage = "COMPLETING" /\ row.upload

CompleteTakeover(c) ==
  /\ call[c] = "takeover"
  /\ IF StillCompleting /\ lapsed
     THEN Goto(c, "reread.won") /\ lapsed' = FALSE
     ELSE Throw(c)
  /\ UNCHANGED <<row, origin, store, upload, fits, client, crashes>>

\* The job is read again; who lost the claim goes on all the same when the
\* winner is completing the upload or has done so.
CompleteReread(c) ==
  /\ call[c] \in {"reread.won", "reread.lost"}
  /\ IF Exists /\ (\/ call[c] = "reread.won"
                   \/ row.status = "QUEUED" \/ row.stage = "COMPLETING")
     THEN Goto(c, "finalize") /\ UNCHANGED lapsed
     ELSE Throw(c)
  /\ UNCHANGED <<row, origin, store, upload, fits, client, crashes>>

\* completeMultipartUpload succeeds while the upload is open ...
StorageCompletes(c) ==
  /\ call[c] = "finalize" /\ upload = "open"
  /\ upload' = "done" /\ store' = store \cup {"source"}
  /\ Goto(c, "size")
  /\ UNCHANGED <<row, origin, fits, lapsed, client, crashes>>

\* ... or fails; either way the size of the object is asked for.
StorageRefuses(c) ==
  /\ call[c] = "finalize"
  /\ Goto(c, "size")
  /\ UNCHANGED <<row, origin, store, upload, fits, lapsed, client, crashes>>

BugHeadOfNothing == IF fits THEN "fits" ELSE "differs"
\* What the storage says of the object's size.
Head == IF "source" \notin store THEN "missing" ELSE IF fits THEN "fits" ELSE "differs"

SizeKnown(c) ==
  /\ call[c] = "size" /\ Head # "missing"
  /\ Goto(c, IF Head = "fits" THEN "queue" ELSE "discard")
  /\ UNCHANGED <<row, origin, store, upload, fits, lapsed, client, crashes>>

\* Not there, or no answer: COMPLETING stays for a later attempt.
SizeUnknown(c) ==
  /\ call[c] = "size"
  /\ Throw(c)
  /\ UNCHANGED <<row, origin, store, upload, fits, client, crashes>>

\* The upload is aborted and the object deleted, as far as the storage answers.
DiscardObject(c) ==
  /\ call[c] = "discard"
  /\ AbortUpload \/ UNCHANGED upload
  /\ store' \in {store, store \ {"source"}}
  /\ Goto(c, "discard.row")
  /\ UNCHANGED <<row, origin, fits, lapsed, client, crashes>>

DiscardRow(c) ==
  /\ call[c] = "discard.row"
  /\ IF StillCompleting THEN FailUpload ELSE UNCHANGED <<row, lapsed>>
  /\ Return(c)
  /\ UNCHANGED <<origin, store, upload, fits, client, crashes>>

\* The answer read afterwards changes nothing.
CompleteQueue(c) ==
  /\ call[c] = "queue"
  /\ IF StillCompleting
     THEN Write([row EXCEPT !.status = "QUEUED", !.stage = "QUEUED", !.upload = FALSE])
     ELSE UNCHANGED <<row, lapsed>>
  /\ Return(c)
  /\ UNCHANGED <<origin, store, upload, fits, client, crashes>>

-----------------------------------------------------------------------------
(* abort *)

AbortRead(c) ==
  /\ c # Recovery /\ call[c] = "idle" /\ client = "abort"
  /\ row.status = "PROCESSING" /\ row.stage = "UPLOADING" /\ row.upload
  /\ Goto(c, "abort")
  /\ UNCHANGED <<row, origin, store, upload, fits, lapsed, client, crashes>>

AbortStorage(c) ==
  /\ call[c] = "abort"
  /\ \/ AbortUpload /\ store' \in {store, store \ {"source"}} /\ Goto(c, "abort.row")
     \/ Return(c) /\ UNCHANGED <<upload, store>>
  /\ UNCHANGED <<row, origin, fits, lapsed, client, crashes>>

\* By id, whatever the job is by now.
AbortRow(c) ==
  /\ call[c] = "abort.row"
  /\ IF Exists THEN FailUpload ELSE UNCHANGED <<row, lapsed>>
  /\ Return(c)
  /\ UNCHANGED <<origin, store, upload, fits, client, crashes>>

-----------------------------------------------------------------------------
(* Time, the sweep of old uploads, and crashes *)

\* Two hours have passed.
SweepUpload ==
  /\ row.status = "PROCESSING" /\ row.stage = "UPLOADING"
  /\ Write(FailedRow(row))
  /\ UNCHANGED <<origin, store, upload, fits, client, call, crashes>>

Lapse ==
  /\ row.stage = "COMPLETING" /\ ~lapsed
  /\ lapsed' = TRUE
  /\ UNCHANGED <<row, origin, store, upload, fits, client, call, crashes>>

CrashCall(c) ==
  /\ call[c] \notin {"idle", "over"} /\ crashes < MaxCrashes
  /\ crashes' = crashes + 1
  /\ Return(c)
  /\ UNCHANGED <<row, origin, store, upload, fits, lapsed, client>>

\* The API dies during start, or the browser is closed.
CrashClient ==
  /\ client # "over" /\ crashes < MaxCrashes
  /\ crashes' = crashes + 1
  /\ client' = "over"
  /\ UNCHANGED <<row, origin, store, upload, fits, lapsed, call>>

Start == StartCreate \/ StartOpen \/ StartSave \/ StartUndo \/ StartFails
Complete(c) ==
  \/ CompleteRead(c) \/ CompleteClaim(c) \/ CompleteTakeover(c) \/ CompleteReread(c)
  \/ StorageCompletes(c) \/ StorageRefuses(c) \/ SizeKnown(c) \/ SizeUnknown(c)
  \/ DiscardObject(c) \/ DiscardRow(c) \/ CompleteQueue(c)
Abort(c) == AbortRead(c) \/ AbortStorage(c) \/ AbortRow(c)

UploadNext ==
  \/ Start \/ PutParts \/ SweepUpload \/ Lapse \/ CrashClient
  \/ \E c \in Caller : Complete(c) \/ Abort(c) \/ CrashCall(c)
=============================================================================
