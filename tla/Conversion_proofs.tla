-------------------------- MODULE Conversion_proofs --------------------------
(***************************************************************************)
(* Theorems about Conversion, for any number of calls, workers,            *)
(* administrators, attempts and crashes: its types, the completeness of    *)
(* what enters the queue, the safety of a borrowed source, that no         *)
(* job loses what it needs before somebody throws it away, and who may     *)
(* delete a published model.                                               *)
(***************************************************************************)
EXTENDS Conversion, TLAPS

LEMMA RowTypes ==
  ASSUME NEW r \in Row
  PROVE  /\ NewRow \in Row /\ GoneRow \in Row /\ FailedRow(r) \in Row
         /\ \A n \in Nat : AfterFailure(r, n) \in Row
         /\ [r EXCEPT !.upload = FALSE] \in Row
BY DEF Row, NewRow, GoneRow, FailedRow, AfterFailure, Status, Stage, NoKey

LEMMA UploadTypeStep ==
  ASSUME TypeOK, UploadNext, UNCHANGED workVars
  PROVE  TypeOK'
<1>1. UploadTypeOK /\ Caller # {} /\ row \in Row
  BY DEF TypeOK, UploadTypeOK, Caller
<1>2. TypeOK' <=> UploadTypeOK'
  BY DEF TypeOK, workVars, PC, Local, Process
<1>3. FailedRow(row) \in Row /\ [FailedRow(row) EXCEPT !.upload = FALSE] \in Row
  BY <1>1, RowTypes
<1>4. ASSUME Start PROVE UploadTypeOK'
  <2>1. NewRow \in Row /\ [row EXCEPT !.upload = TRUE] \in Row
    BY <1>1 DEF Row, NewRow, Status, Stage, NoKey
  <2>2. row' \in Row /\ lapsed' \in BOOLEAN /\ (lapsed' => row'.stage = "COMPLETING")
    BY <1>1, <1>3, <1>4, <2>1 DEF Start, StartCreate, StartOpen, StartSave, StartUndo,
       StartFails, Write, FailUpload, UploadTypeOK
  <2>3. client' \in ClientPC /\ upload' \in {"none", "open", "done", "aborted"}
        /\ UNCHANGED <<origin, store, fits, call, crashes>>
    BY <1>1, <1>4 DEF Start, StartCreate, StartOpen, StartSave, StartUndo,
       StartFails, AbortUpload, UploadTypeOK, ClientPC
  <2>4. QED BY <1>1, <2>2, <2>3 DEF UploadTypeOK
<1>5. ASSUME PutParts \/ SweepUpload \/ Lapse \/ CrashClient PROVE UploadTypeOK'
  <2>1. CASE PutParts
    BY <1>1, <2>1 DEF PutParts, UploadTypeOK, ClientPC
  <2>2. CASE SweepUpload
    BY <1>1, <1>3, <2>2 DEF SweepUpload, Write, UploadTypeOK
  <2>3. CASE Lapse
    BY <1>1, <2>3 DEF Lapse, UploadTypeOK
  <2>4. CASE CrashClient
    BY <1>1, <2>4, CrashAssumption DEF CrashClient, UploadTypeOK, ClientPC
  <2>5. QED BY <1>5, <2>1, <2>2, <2>3, <2>4
<1>6. ASSUME NEW c \in Caller, Complete(c) PROVE UploadTypeOK'
  <2>1. call' \in [Caller -> CallPC]
    BY <1>1, <1>6 DEF Complete, CompleteRead, CompleteClaim, CompleteTakeover, CompleteReread,
       StorageCompletes, StorageRefuses, SizeKnown, SizeUnknown, DiscardObject, DiscardRow,
       CompleteQueue, Throw, Goto, Return, CallPC, UploadTypeOK
  <2>2. row' \in Row /\ lapsed' \in BOOLEAN /\ (lapsed' => row'.stage = "COMPLETING")
    BY <1>1, <1>3, <1>6 DEF Complete, CompleteRead, CompleteClaim, CompleteTakeover,
       CompleteReread, StorageCompletes, StorageRefuses, SizeKnown, SizeUnknown,
       DiscardObject, DiscardRow, CompleteQueue, Throw, Write, FailUpload, UploadTypeOK,
       Row, Status, Stage
  <2>3. store' \subseteq Object /\ upload' \in {"none", "open", "done", "aborted"}
        /\ UNCHANGED <<origin, fits, client, crashes>>
    BY <1>1, <1>6 DEF Complete, CompleteRead, CompleteClaim, CompleteTakeover,
       CompleteReread, StorageCompletes, StorageRefuses, SizeKnown, SizeUnknown,
       DiscardObject, DiscardRow, CompleteQueue, AbortUpload, UploadTypeOK, Object
  <2>4. QED BY <1>1, <2>1, <2>2, <2>3 DEF UploadTypeOK
<1>7. ASSUME NEW c \in Caller, Abort(c) PROVE UploadTypeOK'
  BY <1>1, <1>3, <1>7 DEF Abort, AbortRead, AbortStorage, AbortRow, Goto, Return, FailUpload,
     Write, AbortUpload, UploadTypeOK, CallPC, Object
<1>8. ASSUME NEW c \in Caller, CrashCall(c) PROVE UploadTypeOK'
  BY <1>1, <1>8, CrashAssumption DEF CrashCall, Goto, Return, UploadTypeOK, CallPC
<1>9. QED BY <1>2, <1>4, <1>5, <1>6, <1>7, <1>8 DEF UploadNext

LEMMA JumpType ==
  ASSUME proc \in [Process -> Local], NEW p \in Process, NEW l \in PC,
         Jump(p, l) \/ Rest(p)
  PROVE  proc' \in [Process -> Local]
<1>1. Idle \in Local /\ [proc[p] EXCEPT !.pc = l] \in Local
  BY DEF Local, Idle, PC
<1>2. CASE Jump(p, l)
  BY <1>1, <1>2 DEF Jump
<1>3. CASE Rest(p)
  BY <1>1, <1>3 DEF Rest
<1>4. QED BY <1>2, <1>3

LEMMA RowWritten ==
  ASSUME UploadTypeOK, overdue \in BOOLEAN, NEW r \in Row, WriteRow(r) \/ RowKept
  PROVE  /\ row' \in Row /\ overdue' \in BOOLEAN
         /\ lapsed' \in BOOLEAN /\ (lapsed' => row'.stage = "COMPLETING")
<1>1. CASE WriteRow(r)
  <2>1. row' = r /\ lapsed' = FALSE
    BY <1>1 DEF WriteRow, Write
  <2>2. overdue' \in BOOLEAN
    BY <1>1, Zenon DEF WriteRow
  <2>3. QED BY <2>1, <2>2
<1>2. CASE RowKept
  BY <1>2 DEF RowKept, UploadTypeOK
<1>3. QED BY <1>1, <1>2

\* The rows that the worker, publish and retry write.
LEMMA RowForms ==
  ASSUME NEW r \in Row, NEW k \in {"source", "converted"}, NEW b \in BOOLEAN
  PROVE  /\ [r EXCEPT !.status = "PROCESSING", !.stage = "CONVERTING", !.attempts = @ + 1] \in Row
         /\ [r EXCEPT !.conv = k, !.stage = "OPTIMIZING"] \in Row
         /\ Ready(r) \in Row
         /\ [r EXCEPT !.stage = "READY"] \in Row
         /\ [r EXCEPT !.stage = "PUBLISHING"] \in Row
         /\ [r EXCEPT !.status = "COMPLETED", !.stage = "PUBLISHED"] \in Row
         /\ [r EXCEPT !.conv = NoKey, !.out = b] \in Row
         /\ [r EXCEPT !.out = b] \in Row
         /\ [r EXCEPT !.status = "QUEUED", !.stage = "QUEUED", !.attempts = 0, !.out = FALSE]
               \in Row
<1>1. r.attempts + 1 \in Nat
  BY DEF Row
<1>2. [r EXCEPT !.status = "PROCESSING", !.stage = "CONVERTING", !.attempts = @ + 1] \in Row
  BY <1>1 DEF Row, Status, Stage
<1>3. QED BY <1>2 DEF Row, Ready, Status, Stage, NoKey

LEMMA WorkTypeStep ==
  ASSUME TypeOK, NEW w \in Worker, Work(w)
  PROVE  TypeOK'
<1>1. UploadTypeOK /\ row \in Row /\ w \in Process /\ proc \in [Process -> Local]
      /\ overdue \in BOOLEAN /\ target \in BOOLEAN /\ files \in Nat /\ ops \in 0..MaxOps
      /\ trashed \subseteq Object
  BY DEF TypeOK, UploadTypeOK, Process
<1>2. proc' \in [Process -> Local]
  <2>1. CASE Claim(w)
    <3>1. {row.conv} \ {NoKey} \subseteq Object
      BY <1>1 DEF Row, NoKey, Object
    <3>2. [Idle EXCEPT !.pc = "fetch", !.auto = target, !.keys = {row.conv} \ {NoKey}] \in Local
      BY <1>1, <3>1 DEF Local, Idle, PC
    <3>3. QED BY <1>1, <2>1, <3>2 DEF Claim
  <2>2. CASE Fetch(w)
    <3>1. PICK b \in BOOLEAN : proc' = [proc EXCEPT ![w].pc = "convert", ![w].reuse = b]
      BY <2>2, Zenon DEF Fetch
    <3>2. [proc[w] EXCEPT !.pc = "convert", !.reuse = b] \in Local
      BY <1>1 DEF Local, PC
    <3>3. QED BY <1>1, <3>1, <3>2
  <2>3. CASE FailRead(w)
    <3>1. [Idle EXCEPT !.pc = "fail.row", !.attempts = row.attempts] \in Local
      BY <1>1 DEF Local, Idle, PC, Row
    <3>2. QED BY <1>1, <2>3, <3>1, JumpType DEF FailRead, PC
  <2>4. CASE Convert(w) \/ NoteConverted(w) \/ Optimize(w) \/ Done(w) \/ DeleteSource(w)
             \/ Unready(w) \/ Fails(w) \/ FailRow(w)
    BY <1>1, <2>4, JumpType DEF Convert, NoteConverted, Optimize, Done, DeleteSource, Unready,
       Fails, FailRow, Update, PC
  <2>5. QED BY <2>1, <2>2, <2>3, <2>4 DEF Work
<1>3. /\ row' \in Row /\ overdue' \in BOOLEAN
      /\ lapsed' \in BOOLEAN /\ (lapsed' => row'.stage = "COMPLETING")
  <2>1. CASE Claim(w)
    BY <1>1, <2>1, RowForms DEF Claim, Write
  <2>2. CASE NoteConverted(w) \/ Done(w) \/ Unready(w)
    BY <1>1, <2>2, RowForms, RowWritten DEF NoteConverted, Done, Unready, Update, ConvertedKey
  <2>3. CASE FailRow(w)
    <3>1. proc[w].attempts \in Nat
      BY <1>1 DEF Local
    <3>2. QED BY <1>1, <2>3, <3>1, RowTypes, RowWritten DEF FailRow
  <2>4. CASE Fetch(w) \/ Convert(w) \/ Optimize(w) \/ DeleteSource(w) \/ Fails(w) \/ FailRead(w)
    BY <1>1, <2>4, RowWritten DEF Fetch, Convert, Optimize, DeleteSource, Fails, FailRead
  <2>5. QED BY <2>1, <2>2, <2>3, <2>4 DEF Work
<1>4. /\ store' \subseteq Object
      /\ UNCHANGED <<origin, upload, fits, client, call, crashes, target, files, ops, trashed>>
  BY <1>1 DEF Work, Claim, Fetch, Convert, NoteConverted, Optimize, Done, DeleteSource, Unready,
     Fails, FailRead, FailRow, Alone, UploadTypeOK, Object
<1>5. QED BY <1>1, <1>2, <1>3, <1>4 DEF TypeOK, UploadTypeOK

LEMMA PublishTypeStep ==
  ASSUME TypeOK, NEW p \in Process, Publish(p)
  PROVE  TypeOK'
<1>1. UploadTypeOK /\ row \in Row /\ proc \in [Process -> Local] /\ store \subseteq Object
      /\ overdue \in BOOLEAN /\ target \in BOOLEAN /\ files \in Nat /\ ops \in 0..MaxOps
      /\ trashed \subseteq Object
  BY DEF TypeOK, UploadTypeOK
<1>2. proc' \in [Process -> Local]
  <2>1. CASE PublishRead(p)
    BY <1>1, <2>1, JumpType DEF PublishRead, PublishThrows, KeysOf, Local, PC, Row, NoKey, Object
  <2>2. CASE Tidy(p)
    <3>1. PICK k \in SUBSET (Spare(p) \cap store) :
            proc' = [proc EXCEPT ![p].pc = "tidy.row", ![p].keys = Spare(p) \ k]
      BY <2>2 DEF Tidy
    <3>2. proc[p] \in Local /\ Spare(p) \ k \subseteq Object
      BY <1>1 DEF Spare, Local, Object
    <3>3. [proc[p] EXCEPT !.pc = "tidy.row", !.keys = Spare(p) \ k] \in Local
      BY <3>2 DEF Local, PC
    <3>4. QED BY <1>1, <3>1, <3>3
  <2>3. CASE PublishClaim(p) \/ PublishCopy(p) \/ PublishCommit(p) \/ PublishUndo(p)
             \/ PublishUndoCopy(p) \/ TidyRow(p)
    BY <1>1, <2>3, JumpType DEF PublishClaim, PublishCopy, PublishCommit, PublishUndo,
       PublishUndoCopy, TidyRow, PublishThrows, PC
  <2>4. QED BY <2>1, <2>2, <2>3 DEF Publish
<1>3. /\ row' \in Row /\ overdue' \in BOOLEAN
      /\ lapsed' \in BOOLEAN /\ (lapsed' => row'.stage = "COMPLETING")
  <2>1. CASE TidyRow(p)
    <3>1. [row EXCEPT !.conv = IF @ \in proc[p].keys THEN NoKey ELSE @,
                      !.out = @ /\ "output" \notin proc[p].keys] \in Row
      BY <1>1 DEF Row, NoKey
    <3>2. QED BY <1>1, <2>1, <3>1, RowWritten DEF TidyRow
  <2>2. CASE PublishClaim(p) \/ PublishCommit(p) \/ PublishUndo(p)
    BY <1>1, <2>2, RowForms, RowWritten DEF PublishClaim, PublishCommit, PublishUndo
  <2>3. CASE PublishRead(p) \/ PublishCopy(p) \/ PublishUndoCopy(p) \/ Tidy(p)
    BY <1>1, <2>3, RowWritten DEF PublishRead, PublishCopy, PublishUndoCopy, Tidy
  <2>4. QED BY <2>1, <2>2, <2>3 DEF Publish
<1>4. files' \in Nat /\ target' \in BOOLEAN
  <2>1. CASE PublishCommit(p)
    <3>1. files' = files \/ files' = files + 1
      BY <2>1 DEF PublishCommit
    <3>2. target' = target \/ target' = TRUE
      BY <2>1 DEF PublishCommit
    <3>3. target' \in BOOLEAN
      BY <1>1, <3>2, Zenon
    <3>4. QED BY <1>1, <3>1, <3>3
  <2>2. CASE ~PublishCommit(p)
    <3>1. UNCHANGED <<files, target>>
      BY <2>2 DEF Publish, PublishClaim, PublishRead, PublishCopy, PublishUndo,
         PublishUndoCopy, Tidy, TidyRow
    <3>2. QED BY <1>1, <3>1
  <2>3. QED BY <2>1, <2>2
<1>5. store' \subseteq Object
  <2>1. CASE Tidy(p)
    BY <1>1, <2>1 DEF Tidy
  <2>2. CASE PublishCopy(p) \/ PublishUndoCopy(p)
    BY <1>1, <2>2 DEF PublishCopy, PublishUndoCopy, Object
  <2>3. CASE PublishClaim(p) \/ PublishRead(p) \/ PublishCommit(p) \/ PublishUndo(p) \/ TidyRow(p)
    BY <1>1, <2>3 DEF PublishClaim, PublishRead, PublishCommit, PublishUndo, TidyRow
  <2>4. QED BY <2>1, <2>2, <2>3 DEF Publish
<1>6. UNCHANGED <<origin, upload, fits, client, call, crashes, ops, trashed>>
  BY DEF Publish, PublishClaim, PublishRead, PublishCopy, PublishCommit, PublishUndo,
     PublishUndoCopy, Tidy, TidyRow, Alone
<1>7. QED BY <1>1, <1>2, <1>3, <1>4, <1>5, <1>6 DEF TypeOK, UploadTypeOK

LEMMA AdminTypeStep ==
  ASSUME TypeOK, NEW a \in Admin, Ask(a) \/ Finish(a)
  PROVE  TypeOK'
<1>1. UploadTypeOK /\ row \in Row /\ a \in Process /\ proc \in [Process -> Local]
      /\ store \subseteq Object /\ overdue \in BOOLEAN /\ target \in BOOLEAN
      /\ files \in Nat /\ ops \in 0..MaxOps /\ trashed \subseteq Object
  BY DEF TypeOK, UploadTypeOK, Process
<1>2. proc' \in [Process -> Local]
  <2>1. CASE AskRemove(a)
    BY <1>1, <2>1 DEF AskRemove, OwnedKeys, KeysOf, Local, Idle, PC, Row, NoKey, Object
  <2>2. CASE AskPublish(a) \/ AskRetry(a) \/ Finish(a)
    BY <1>1, <2>2, JumpType DEF AskPublish, AskRetry, Finish, RetryRow, RemoveObjects, RemoveRow, PC
  <2>3. QED BY <2>1, <2>2 DEF Ask
<1>3. /\ row' \in Row /\ overdue' \in BOOLEAN
      /\ lapsed' \in BOOLEAN /\ (lapsed' => row'.stage = "COMPLETING")
  BY <1>1, RowForms, RowTypes, RowWritten DEF Ask, Finish, AskPublish, AskRetry, AskRemove, Begin,
     RetryRow, RemoveObjects, RemoveRow
<1>4. store' \subseteq Object /\ trashed' \subseteq Object
  <2>1. OwnedKeys \subseteq Object
    BY <1>1 DEF OwnedKeys, KeysOf, Row, NoKey, Object
  <2>2. QED BY <1>1, <2>1 DEF Ask, Finish, AskPublish, AskRetry, AskRemove, RetryRow,
     RemoveObjects, RemoveRow, Object
<1>5. ops' \in 0..MaxOps
  BY <1>1, WorkAssumption DEF Ask, Finish, AskPublish, AskRetry, AskRemove, Begin, RetryRow,
     RemoveObjects, RemoveRow
<1>6. /\ upload' \in {"none", "open", "done", "aborted"}
      /\ UNCHANGED <<origin, fits, client, call, crashes, files, target>>
  BY <1>1 DEF Ask, Finish, AskPublish, AskRetry, AskRemove, Begin, RetryRow,
     RemoveObjects, RemoveRow, Alone, AbortUpload, UploadTypeOK
<1>7. QED BY <1>1, <1>2, <1>3, <1>4, <1>5, <1>6 DEF TypeOK, UploadTypeOK

LEMMA OtherTypeStep ==
  ASSUME TypeOK, (\E p \in Process : Crash(p)) \/ Overdue \/ SweepStale \/ OwnerDeletes
  PROVE  TypeOK'
<1>1. UploadTypeOK /\ row \in Row /\ overdue \in BOOLEAN /\ row.attempts \in Nat
  BY DEF TypeOK, UploadTypeOK, Row
<1>2. CASE \E p \in Process : Crash(p)
  <2>1. crashes' \in 0..MaxCrashes /\ proc' \in [Process -> Local]
    BY <1>1, <1>2, CrashAssumption DEF Crash, Rest, Local, Idle, PC, TypeOK, UploadTypeOK
  <2>2. QED BY <1>2, <2>1 DEF Crash, RowKept, Alone, TypeOK, UploadTypeOK
<1>3. CASE Overdue
  BY <1>3 DEF Overdue, Alone, TypeOK, UploadTypeOK
<1>4. CASE SweepStale
  <2>1. row' \in Row /\ overdue' \in BOOLEAN
        /\ lapsed' \in BOOLEAN /\ (lapsed' => row'.stage = "COMPLETING")
    BY <1>1, <1>4, RowTypes, RowWritten DEF SweepStale
  <2>2. QED BY <1>4, <2>1 DEF SweepStale, Alone, TypeOK, UploadTypeOK
<1>5. CASE OwnerDeletes
  BY <1>5 DEF OwnerDeletes, RowKept, Alone, TypeOK, UploadTypeOK, Object
<1>6. QED BY <1>2, <1>3, <1>4, <1>5

LEMMA TypeInit == Init => TypeOK
<1>1. SUFFICES ASSUME Init PROVE TypeOK
  OBVIOUS
<1>2. /\ [NewRow EXCEPT !.status = "NONE", !.stage = "NONE"] \in Row
      /\ [NewRow EXCEPT !.status = "QUEUED", !.stage = "QUEUED"] \in Row
  BY DEF NewRow, Row, Status, Stage, NoKey
<1>3. row \in Row /\ store \subseteq Object /\ client \in ClientPC /\ fits \in BOOLEAN
  BY <1>1, <1>2 DEF Init, UploadInit, Object, ClientPC
<1>4. /\ origin \in Origin /\ upload \in {"none", "open", "done", "aborted"}
      /\ lapsed = FALSE /\ call \in [Caller -> CallPC] /\ crashes \in 0..MaxCrashes
  BY <1>1, CrashAssumption, KindAssumption DEF Init, UploadInit, CallPC
<1>5. UploadTypeOK
  BY <1>3, <1>4 DEF UploadTypeOK
<1>6. Idle \in Local
  BY DEF Idle, Local, PC
<1>7. overdue \in BOOLEAN /\ target \in BOOLEAN /\ trashed \subseteq Object
  BY <1>1, Zenon DEF Init
<1>8. files \in Nat /\ ops \in 0..MaxOps /\ proc \in [Process -> Local]
  BY <1>1, <1>6, WorkAssumption DEF Init
<1>9. QED BY <1>5, <1>7, <1>8 DEF TypeOK

LEMMA TypeNext == TypeOK /\ [Next]_vars => TypeOK'
<1>1. SUFFICES ASSUME TypeOK, [Next]_vars PROVE TypeOK'
  OBVIOUS
<1>2. CASE UNCHANGED vars
  <2>1. UploadTypeOK'
    BY <1>1, <1>2 DEF vars, TypeOK, UploadTypeOK
  <2>2. QED BY <1>1, <1>2, <2>1 DEF vars, TypeOK
<1>3. CASE Next
  BY <1>1, <1>3, UploadTypeStep, WorkTypeStep, PublishTypeStep, AdminTypeStep, OtherTypeStep DEF Next
<1>4. QED BY <1>1, <1>2, <1>3

\* Types are kept by every operation, call, sweep and crash of Conversion.
THEOREM TypeCorrect == Spec => []TypeOK
BY TypeInit, TypeNext, PTL DEF Spec

-----------------------------------------------------------------------------
(* What enters the queue, and the sources that jobs borrow *)

\* A multipart upload exists only once start has asked for it.
Fresh == client \in {"start", "open"} => upload = "none"

EarlyRow ==
  \/ row.status = "PROCESSING" /\ row.stage \in {"UPLOADING", "COMPLETING"}
  \/ row.status = row.stage /\ row.stage \in {"NONE", "FAILED", "GONE"}

\* Until the upload is complete there is no object, nobody works on the job and
\* no call is about to queue it.
NotYetWhole ==
  OwnsSource /\ upload # "done" =>
    /\ EarlyRow /\ ~overdue /\ store = {}
    /\ \A c \in Caller : call[c] # "queue"
    /\ \A p \in Process : proc[p].pc \in {"idle", "remove", "remove.row"}

\* A source that the job does not own is there until its owner deletes it.
SourceThere == "source" \in store \cup trashed

\* A job that does not own its source takes no part in the upload, and nobody
\* holds its source for deletion.
SharedSafe ==
  ~OwnsSource =>
    /\ client = "over" /\ ~lapsed /\ row.stage \notin {"UPLOADING", "COMPLETING"}
    /\ \A c \in Caller : call[c] = "idle"
    /\ SourceThere
    /\ \A p \in Process : /\ proc[p].pc # "tidy"
                          /\ proc[p].pc = "remove" => "source" \notin proc[p].keys

IInv == TypeOK /\ Fresh /\ NotYetWhole /\ SharedSafe

\* Only the upload and remove touch the multipart upload.
LEMMA WorkKeepsUpload ==
  ASSUME \/ \E w \in Worker : Work(w)
         \/ \E p \in Process : Publish(p) \/ Crash(p)
         \/ Overdue \/ SweepStale \/ OwnerDeletes
  PROVE  UNCHANGED <<origin, upload, client, call>>
BY DEF Work, Claim, Fetch, Convert, NoteConverted, Optimize, Done,
     DeleteSource, Unready, Fails, FailRead, FailRow, Publish, PublishClaim, PublishRead, PublishCopy,
     PublishCommit, PublishUndo, PublishUndoCopy, Tidy, TidyRow, Crash, Overdue,
     SweepStale, OwnerDeletes, RowKept, Alone

LEMMA AdminKeepsUpload ==
  ASSUME NEW a \in Admin, Ask(a) \/ Finish(a)
  PROVE  /\ UNCHANGED <<origin, client, call>>
         /\ upload' = upload \/ (upload = "open" /\ upload' = "aborted")
BY DEF Ask, Finish, AskPublish, AskRetry, AskRemove, Begin, RetryRow, RemoveObjects, RemoveRow, Alone, AbortUpload

LEMMA FreshStep == Fresh /\ Next => Fresh'
<1>1. SUFFICES ASSUME Fresh, Next PROVE Fresh'
  OBVIOUS
<1>2. CASE UploadNext
  BY <1>1, <1>2 DEF UploadNext, Start, StartCreate, StartOpen, StartSave, StartUndo, StartFails, PutParts, SweepUpload,
     Lapse, CrashClient, Complete, CompleteRead, CompleteClaim, CompleteTakeover, CompleteReread,
     StorageCompletes, StorageRefuses, SizeKnown, SizeUnknown, DiscardObject, DiscardRow,
     CompleteQueue, Abort, AbortRead, AbortStorage, AbortRow, CrashCall,
     Fresh, AbortUpload
<1>3. CASE \E a \in Admin : Ask(a) \/ Finish(a)
  BY <1>1, <1>3, AdminKeepsUpload DEF Fresh
<1>4. CASE ~UploadNext /\ ~\E a \in Admin : Ask(a) \/ Finish(a)
  BY <1>1, <1>4, WorkKeepsUpload DEF Next, Fresh
<1>5. QED BY <1>2, <1>3, <1>4

LEMMA FailedIsEarly ==
  ASSUME NEW r \in Row
  PROVE  /\ FailedRow(r).status = "FAILED" /\ FailedRow(r).stage = "FAILED"
         /\ [FailedRow(r) EXCEPT !.upload = FALSE].status = "FAILED"
         /\ [FailedRow(r) EXCEPT !.upload = FALSE].stage = "FAILED"
BY DEF FailedRow, Row

\* The upload phase: who is early stays early unless the upload completes.
LEMMA UploadWholeStep ==
  ASSUME IInv, UploadNext, UNCHANGED workVars, OwnsSource, upload' # "done"
  PROVE  NotYetWhole'
<1>1. upload # "done"
  BY DEF IInv, Fresh, UploadNext, Start, StartCreate, StartOpen, StartSave, StartUndo, StartFails, PutParts, SweepUpload,
     Lapse, CrashClient, Complete, CompleteRead, CompleteClaim, CompleteTakeover, CompleteReread,
     StorageCompletes, StorageRefuses, SizeKnown, SizeUnknown, DiscardObject, DiscardRow,
     CompleteQueue, Abort, AbortRead, AbortStorage, AbortRow, CrashCall,
     AbortUpload
<1>2. /\ EarlyRow /\ ~overdue /\ store = {} /\ call \in [Caller -> CallPC] /\ row \in Row
      /\ \A c \in Caller : call[c] # "queue"
      /\ \A p \in Process : proc[p].pc \in {"idle", "remove", "remove.row"}
  BY <1>1 DEF IInv, NotYetWhole, TypeOK, UploadTypeOK
<1>3. overdue' = overdue /\ proc' = proc
  BY DEF workVars
<1>4. EarlyRow' /\ store' = {} /\ \A c \in Caller : call'[c] # "queue"
  <2>1. CASE Start \/ PutParts \/ SweepUpload \/ Lapse \/ CrashClient
    <3>1. store' = {} /\ call' = call
      BY <1>2, <2>1 DEF Start, StartCreate, StartOpen, StartSave, StartUndo, StartFails,
         PutParts, SweepUpload, Lapse, CrashClient
    <3>2. \/ row' = row \/ row' = NewRow \/ row' = [row EXCEPT !.upload = TRUE]
          \/ row' = FailedRow(row) \/ row' = [FailedRow(row) EXCEPT !.upload = FALSE]
      BY <2>1 DEF Start, StartCreate, StartOpen, StartSave, StartUndo, StartFails,
         PutParts, SweepUpload, Lapse, CrashClient, Write, FailUpload
    <3>3. EarlyRow'
      <4>1. NewRow.status = "PROCESSING" /\ NewRow.stage = "UPLOADING"
        BY DEF NewRow
      <4>2. /\ [row EXCEPT !.upload = TRUE].status = row.status
            /\ [row EXCEPT !.upload = TRUE].stage = row.stage
        BY <1>2 DEF Row
      <4>3. QED BY <1>2, <3>2, <4>1, <4>2, FailedIsEarly DEF EarlyRow
    <3>4. QED BY <1>2, <3>1, <3>3
  <2>2. ASSUME NEW c \in Caller, Complete(c) PROVE EarlyRow' /\ store' = {} /\ call'[c] # "queue"
                                                  /\ \A d \in Caller \ {c} : call'[d] = call[d]
    <3>1. ~StorageCompletes(c) /\ ~SizeKnown(c) /\ ~CompleteQueue(c)
      BY <1>2 DEF StorageCompletes, SizeKnown, CompleteQueue, Head
    <3>2. store' = {}
      BY <1>2, <2>2, <3>1 DEF Complete, CompleteRead, CompleteClaim, CompleteTakeover, CompleteReread,
     StorageCompletes, StorageRefuses, SizeKnown, SizeUnknown, DiscardObject, DiscardRow,
     CompleteQueue
    <3>3. call'[c] # "queue" /\ \A d \in Caller \ {c} : call'[d] = call[d]
      BY <1>2, <2>2, <3>1 DEF Complete, CompleteRead, CompleteClaim, CompleteTakeover, CompleteReread,
     StorageCompletes, StorageRefuses, SizeKnown, SizeUnknown, DiscardObject, DiscardRow,
     CompleteQueue, Throw, Goto, Return
    <3>4. EarlyRow'
      <4>1. \/ row' = row
            \/ row.status = "PROCESSING" /\ row' = [row EXCEPT !.stage = "COMPLETING"]
            \/ row' = [FailedRow(row) EXCEPT !.upload = FALSE]
        BY <2>2, <3>1 DEF Complete, CompleteRead, CompleteClaim, CompleteTakeover, CompleteReread,
           StorageRefuses, SizeUnknown, DiscardObject, DiscardRow, Write, FailUpload
      <4>2. /\ [row EXCEPT !.stage = "COMPLETING"].status = row.status
            /\ [row EXCEPT !.stage = "COMPLETING"].stage = "COMPLETING"
        BY <1>2 DEF Row
      <4>3. QED BY <1>2, <4>1, <4>2, FailedIsEarly DEF EarlyRow
    <3>5. QED BY <3>2, <3>3, <3>4
  <2>3. ASSUME NEW c \in Caller, Abort(c) \/ CrashCall(c)
        PROVE EarlyRow' /\ store' = {} /\ \A d \in Caller : call'[d] # "queue"
    <3>1. store' = {}
      BY <1>2, <2>3 DEF Abort, AbortRead, AbortStorage, AbortRow, CrashCall
    <3>2. row' = row \/ row' = [FailedRow(row) EXCEPT !.upload = FALSE]
      BY <2>3 DEF Abort, AbortRead, AbortStorage, AbortRow, CrashCall, FailUpload, Write
    <3>3. EarlyRow'
      BY <1>2, <3>2, FailedIsEarly DEF EarlyRow
    <3>4. \A d \in Caller : call'[d] # "queue"
      BY <1>2, <2>3 DEF Abort, AbortRead, AbortStorage, AbortRow, CrashCall, Goto, Return
    <3>5. QED BY <3>1, <3>3, <3>4
  <2>4. QED BY <1>2, <2>1, <2>2, <2>3 DEF UploadNext
<1>5. QED BY <1>2, <1>3, <1>4 DEF NotYetWhole

LEMMA WorkWholeStep ==
  ASSUME IInv, Next, ~(UploadNext /\ UNCHANGED workVars), OwnsSource, upload' # "done"
  PROVE  NotYetWhole'
<1>1. /\ row \in Row /\ call \in [Caller -> CallPC] /\ proc \in [Process -> Local]
      /\ Worker \subseteq Process /\ Admin \subseteq Process
  BY DEF IInv, TypeOK, UploadTypeOK, Process
<1>2. CASE \E a \in Admin : Ask(a) \/ Finish(a)
  <2>1. PICK a \in Admin : Ask(a) \/ Finish(a)
    BY <1>2
  <2>2. call' = call /\ upload # "done"
    BY <2>1, AdminKeepsUpload
  <2>3. /\ EarlyRow /\ ~overdue /\ store = {} /\ \A c \in Caller : call[c] # "queue"
        /\ \A p \in Process : proc[p].pc \in {"idle", "remove", "remove.row"}
    BY <2>2 DEF IInv, NotYetWhole
  <2>4. ~AskPublish(a) /\ ~AskRetry(a) /\ ~RetryRow(a)
    <3>1. row.status # "COMPLETED"
      BY <2>3 DEF EarlyRow
    <3>2. proc[a].pc # "retry.row"
      BY <1>1, <2>3
    <3>3. QED BY <2>3, <3>1, <3>2 DEF AskPublish, AskRetry, RetryRow, At
  <2>5. store' = {}
    BY <2>1, <2>3, <2>4 DEF Ask, Finish, AskPublish, AskRetry, AskRemove, Begin, RetryRow, RemoveObjects, RemoveRow
  <2>6. \A p \in Process : proc'[p].pc \in {"idle", "remove", "remove.row"}
    <3>1. CASE AskRemove(a)
      BY <1>1, <2>3, <3>1 DEF AskRemove, Idle
    <3>2. CASE RemoveObjects(a)
      BY <1>1, <2>3, <3>2 DEF RemoveObjects, Jump, Rest, Idle, Local
    <3>3. CASE RemoveRow(a)
      BY <1>1, <2>3, <3>3 DEF RemoveRow, Rest, Idle
    <3>4. QED BY <2>1, <2>4, <3>1, <3>2, <3>3 DEF Ask, Finish
  <2>7. EarlyRow'
    <3>1. row' = row \/ row' = GoneRow
      BY <2>1, <2>4 DEF Ask, Finish, AskRemove, Begin, RemoveObjects, RemoveRow, RowKept,
         WriteRow, Write
    <3>2. GoneRow.status = "GONE" /\ GoneRow.stage = "GONE"
      BY DEF GoneRow, NewRow
    <3>3. QED BY <2>3, <3>1, <3>2 DEF EarlyRow
  <2>8. ~overdue'
    BY <2>1, <2>3, <2>4 DEF Ask, Finish, AskPublish, AskRetry, AskRemove, Begin, RetryRow, RemoveObjects, RemoveRow, RowKept, WriteRow
  <2>9. QED BY <2>2, <2>3, <2>5, <2>6, <2>7, <2>8 DEF NotYetWhole
<1>3. CASE \/ \E w \in Worker : Work(w)
           \/ \E p \in Process : Publish(p) \/ Crash(p)
           \/ Overdue \/ SweepStale \/ OwnerDeletes
  <2>1. upload # "done" /\ call' = call
    BY <1>3, WorkKeepsUpload
  <2>2. /\ EarlyRow /\ ~overdue /\ store = {} /\ \A c \in Caller : call[c] # "queue"
        /\ \A p \in Process : proc[p].pc \in {"idle", "remove", "remove.row"}
    BY <2>1 DEF IInv, NotYetWhole
  <2>3. ASSUME NEW w \in Worker PROVE ~Work(w)
    <3>1. row.status # "QUEUED"
      BY <2>2 DEF EarlyRow
    <3>2. proc[w].pc \in {"idle", "remove", "remove.row"}
      BY <1>1, <2>2
    <3>3. QED BY <3>1, <3>2 DEF Work, Claim, Fetch, Convert, NoteConverted, Optimize, Done,
     DeleteSource, Unready, Fails, FailRead, FailRow, At
  <2>4. ASSUME NEW p \in Process PROVE ~Publish(p)
    BY <2>2 DEF Publish, PublishClaim, PublishRead, PublishCopy,
     PublishCommit, PublishUndo, PublishUndoCopy, Tidy, TidyRow, At
  <2>5. ~Overdue /\ ~SweepStale /\ ~OwnerDeletes
    BY <2>2 DEF Overdue, SweepStale, OwnerDeletes, Stale, EarlyRow
  <2>6. PICK p \in Process : Crash(p)
    BY <1>3, <2>3, <2>4, <2>5
  <2>7. UNCHANGED <<row, overdue, store>>
    BY <2>6 DEF Crash, RowKept
  <2>8. \A q \in Process : proc'[q].pc \in {"idle", "remove", "remove.row"}
    BY <1>1, <2>2, <2>6 DEF Crash, Rest, Idle
  <2>9. QED BY <2>1, <2>2, <2>7, <2>8 DEF NotYetWhole, EarlyRow
<1>4. QED BY <1>2, <1>3 DEF Next

-----------------------------------------------------------------------------

\* The origin of a job never changes.
LEMMA OriginStays == Next => origin' = origin
BY WorkKeepsUpload, AdminKeepsUpload DEF Next, UploadNext, Start, StartCreate, StartOpen,
   StartSave, StartUndo, StartFails, PutParts, SweepUpload, Lapse, CrashClient, Complete,
   CompleteRead, CompleteClaim, CompleteTakeover, CompleteReread, StorageCompletes,
   StorageRefuses, SizeKnown, SizeUnknown, DiscardObject, DiscardRow, CompleteQueue, Abort,
   AbortRead, AbortStorage, AbortRow, CrashCall

\* A job with a borrowed source has no upload to go on with.
LEMMA UploadIsOver ==
  ASSUME IInv, ~OwnsSource
  PROVE  ~UploadNext
<1>2. /\ client = "over" /\ ~lapsed /\ row.stage \notin {"UPLOADING", "COMPLETING"}
      /\ \A c \in Caller : call[c] = "idle"
  BY DEF IInv, SharedSafe
<1>3. ~Start /\ ~PutParts /\ ~SweepUpload /\ ~Lapse /\ ~CrashClient
  BY <1>2 DEF Start, StartCreate, StartOpen, StartSave, StartUndo, StartFails, PutParts,
     SweepUpload, Lapse, CrashClient
<1>4. ASSUME NEW c \in Caller PROVE ~Complete(c) /\ ~Abort(c) /\ ~CrashCall(c)
  BY <1>2 DEF Complete, CompleteRead, CompleteClaim, CompleteTakeover,
     CompleteReread, StorageCompletes, StorageRefuses, SizeKnown, SizeUnknown, DiscardObject,
     DiscardRow, CompleteQueue, Abort, AbortRead, AbortStorage, AbortRow, CrashCall
<1>5. QED BY <1>3, <1>4 DEF UploadNext

\* The rows written after the upload are in no stage of the upload.
LEMMA StageForms ==
  ASSUME NEW r \in Row
  PROVE  /\ [r EXCEPT !.status = "PROCESSING", !.stage = "CONVERTING", !.attempts = @ + 1].stage
               = "CONVERTING"
         /\ \A k : [r EXCEPT !.conv = k, !.stage = "OPTIMIZING"].stage = "OPTIMIZING"
         /\ Ready(r).stage = "READY"
         /\ [r EXCEPT !.stage = "READY"].stage = "READY"
         /\ [r EXCEPT !.stage = "PUBLISHING"].stage = "PUBLISHING"
         /\ [r EXCEPT !.status = "COMPLETED", !.stage = "PUBLISHED"].stage = "PUBLISHED"
         /\ [r EXCEPT !.status = "QUEUED", !.stage = "QUEUED", !.attempts = 0, !.out = FALSE].stage
               = "QUEUED"
         /\ GoneRow.stage = "GONE"
         /\ \A n : AfterFailure(r, n).stage \in {"FAILED", "QUEUED"}
BY DEF Row, Ready, GoneRow, NewRow, AfterFailure, FailedRow

\* What a step that writes the row, or may write it, leaves there.
LEMMA Writes ==
  /\ \A r : WriteRow(r) => row' = r /\ lapsed' = FALSE
  /\ \A p, r, l, m : Update(p, r, l, m) => \/ row' = r /\ lapsed' = FALSE
                                           \/ row' = row /\ lapsed' = lapsed
BY DEF Update, WriteRow, Write, RowKept

\* No step after the upload takes the job back into it.
Past == ~lapsed /\ row.stage \notin {"UPLOADING", "COMPLETING"}

LEMMA WorkIsPast ==
  ASSUME TypeOK, Past, NEW w \in Worker, Work(w)
  PROVE  Past'
<1>1. row \in Row /\ ConvertedKey(w) \in {"source", "converted"} /\ proc[w].attempts \in Nat
  BY DEF TypeOK, UploadTypeOK, ConvertedKey, Process, Local
<1>2. row.stage \notin {"UPLOADING", "COMPLETING"}
  BY DEF Past
<1>3. CASE Fetch(w) \/ Convert(w) \/ Optimize(w) \/ DeleteSource(w) \/ Fails(w) \/ FailRead(w)
  BY <1>3 DEF Fetch, Convert, Optimize, DeleteSource, Fails, FailRead, RowKept, Past
<1>4. CASE Claim(w)
  BY <1>1, <1>2, <1>4, StageForms DEF Claim, Write, Past
<1>5. CASE NoteConverted(w)
  <2> DEFINE s == [row EXCEPT !.conv = ConvertedKey(w), !.stage = "OPTIMIZING"]
  <2>1. \/ row' = s /\ lapsed' = FALSE
        \/ row' = row /\ lapsed' = lapsed
    BY <1>5, Writes DEF NoteConverted
  <2>2. s.stage = "OPTIMIZING"
    BY <1>1 DEF Row
  <2> HIDE DEF s
  <2>3. QED BY <1>2, <2>1, <2>2 DEF Past
<1>6. CASE Done(w)
  <2>1. \/ row' = Ready(row) /\ lapsed' = FALSE
        \/ row' = row /\ lapsed' = lapsed
    BY <1>6, Writes DEF Done
  <2>2. QED BY <1>1, <1>2, <2>1, StageForms DEF Past
<1>7. CASE Unready(w)
  <2>1. \/ row' = [row EXCEPT !.stage = "READY"] /\ lapsed' = FALSE
        \/ row' = row /\ lapsed' = lapsed
    BY <1>7, Writes DEF Unready, RowKept
  <2>2. QED BY <1>1, <1>2, <2>1 DEF Past, Row
<1>8. CASE FailRow(w)
  <2>1. \/ row' = AfterFailure(row, proc[w].attempts) /\ lapsed' = FALSE
        \/ row' = row /\ lapsed' = lapsed
    BY <1>8, Writes DEF FailRow, RowKept
  <2>2. QED BY <1>1, <1>2, <2>1, StageForms DEF Past
<1>9. QED BY <1>3, <1>4, <1>5, <1>6, <1>7, <1>8 DEF Work

LEMMA PublishIsPast ==
  ASSUME TypeOK, Past, NEW p \in Process, Publish(p)
  PROVE  Past'
<1>1. row \in Row /\ row.stage \notin {"UPLOADING", "COMPLETING"}
  BY DEF TypeOK, UploadTypeOK, Past
<1>2. CASE PublishRead(p) \/ PublishCopy(p) \/ PublishUndoCopy(p) \/ Tidy(p)
  BY <1>2 DEF PublishRead, PublishCopy, PublishUndoCopy, Tidy, RowKept, Past
<1>3. CASE PublishClaim(p)
  <2>1. \/ row' = [row EXCEPT !.stage = "PUBLISHING"] /\ lapsed' = FALSE
        \/ row' = row /\ lapsed' = lapsed
    BY <1>3, Writes DEF PublishClaim, RowKept
  <2>2. QED BY <1>1, <2>1 DEF Past, Row
<1>4. CASE PublishCommit(p)
  <2> DEFINE s == [row EXCEPT !.status = "COMPLETED", !.stage = "PUBLISHED"]
  <2>1. \/ row' = s /\ lapsed' = FALSE
        \/ row' = row /\ lapsed' = lapsed
    BY <1>4, Writes DEF PublishCommit, RowKept
  <2>2. s.stage = "PUBLISHED"
    BY <1>1 DEF Row
  <2> HIDE DEF s
  <2>3. QED BY <1>1, <2>1, <2>2 DEF Past
<1>5. CASE PublishUndo(p)
  <2>1. \/ row' = [row EXCEPT !.stage = "READY"] /\ lapsed' = FALSE
        \/ row' = row /\ lapsed' = lapsed
    BY <1>5, Writes DEF PublishUndo, RowKept
  <2>2. QED BY <1>1, <2>1 DEF Past, Row
<1>6. CASE TidyRow(p)
  <2>1. \/ /\ row' = [row EXCEPT !.conv = IF @ \in proc[p].keys THEN NoKey ELSE @,
                                 !.out = @ /\ "output" \notin proc[p].keys]
           /\ lapsed' = FALSE
        \/ row' = row /\ lapsed' = lapsed
    BY <1>6, Writes DEF TidyRow, RowKept
  <2>2. row'.stage = row.stage
    BY <1>1, <2>1 DEF Row
  <2>3. QED BY <2>1, <2>2 DEF Past
<1>7. QED BY <1>2, <1>3, <1>4, <1>5, <1>6 DEF Publish

LEMMA AdminIsPast ==
  ASSUME TypeOK, Past, NEW a \in Admin, Ask(a) \/ Finish(a)
  PROVE  Past'
<1>1. row \in Row /\ row.stage \notin {"UPLOADING", "COMPLETING"}
  BY DEF TypeOK, UploadTypeOK, Past
<1>2. CASE Ask(a) \/ RemoveObjects(a)
  BY <1>2 DEF Ask, AskPublish, AskRetry, AskRemove, Begin, RemoveObjects, RowKept, Past
<1>3. CASE RetryRow(a)
  <2> DEFINE s == [row EXCEPT !.status = "QUEUED", !.stage = "QUEUED",
                        !.attempts = 0, !.out = FALSE]
  <2>1. \/ row' = s /\ lapsed' = FALSE
        \/ row' = row /\ lapsed' = lapsed
    BY <1>3, Writes DEF RetryRow, RowKept
  <2>2. s.stage = "QUEUED"
    BY <1>1 DEF Row
  <2> HIDE DEF s
  <2>3. QED BY <1>1, <2>1, <2>2 DEF Past
<1>4. CASE RemoveRow(a)
  <2>1. \/ row' = GoneRow /\ lapsed' = FALSE
        \/ row' = row /\ lapsed' = lapsed
    BY <1>4, Writes DEF RemoveRow, RowKept
  <2>2. QED BY <1>1, <2>1, StageForms DEF Past
<1>5. QED BY <1>2, <1>3, <1>4 DEF Finish

LEMMA SweepIsPast ==
  ASSUME TypeOK, Past, (\E p \in Process : Crash(p)) \/ Overdue \/ SweepStale \/ OwnerDeletes
  PROVE  Past'
<1>1. row \in Row /\ row.stage \notin {"UPLOADING", "COMPLETING"} /\ row.attempts \in Nat
  BY DEF TypeOK, UploadTypeOK, Past, Row
<1>2. \/ row' = AfterFailure(row, row.attempts) /\ lapsed' = FALSE
      \/ row' = row /\ lapsed' = lapsed
  BY Writes DEF Crash, Overdue, SweepStale, OwnerDeletes, RowKept
<1>3. QED BY <1>1, <1>2, StageForms DEF Past

LEMMA WorkSafeStep ==
  ASSUME IInv, Next, ~(UploadNext /\ UNCHANGED workVars), ~OwnsSource'
  PROVE  /\ SharedSafe'
         /\ "source" \in store => "source" \in store' \/ OwnerDeletes
<1>1. /\ row \in Row /\ proc \in [Process -> Local]
      /\ Worker \subseteq Process /\ Admin \subseteq Process
  BY DEF IInv, TypeOK, UploadTypeOK, Process
<1>2. UNCHANGED <<origin, client, call>>
  BY WorkKeepsUpload, AdminKeepsUpload DEF Next
<1>4. ~OwnsSource
  BY <1>2 DEF OwnsSource
<1>3. /\ client = "over" /\ ~lapsed /\ row.stage \notin {"UPLOADING", "COMPLETING"}
      /\ \A c \in Caller : call[c] = "idle"
      /\ SourceThere
      /\ \A p \in Process : /\ proc[p].pc # "tidy"
                            /\ proc[p].pc = "remove" => "source" \notin proc[p].keys
  BY <1>4 DEF IInv, SharedSafe
<1>11. trashed \subseteq trashed'
  BY DEF Next, Work, Claim, Fetch, Convert, NoteConverted, Optimize, Done, DeleteSource, Unready,
     Fails, FailRead, FailRow, Publish, PublishClaim, PublishRead, PublishCopy, PublishCommit,
     PublishUndo, PublishUndoCopy, Tidy, TidyRow, Ask, Finish, AskPublish, AskRetry, AskRemove,
     Begin, RetryRow, RemoveObjects, RemoveRow, Crash, Overdue, SweepStale, OwnerDeletes
<1> DEFINE Stays == "source" \in store => "source" \in store' \/ OwnerDeletes
<1>12. ASSUME Stays
       PROVE  SourceThere'
  BY <1>2, <1>3, <1>11, <1>12 DEF SourceThere, OwnerDeletes
<1>10. TypeOK
  BY DEF IInv
<1>5. CASE \E w \in Worker : Work(w)
  <2>1. PICK w \in Worker : Work(w)
    BY <1>5
  <2>2. Stays
    BY <1>4, <2>1 DEF Work, Claim, Fetch, Convert, NoteConverted, Optimize, Done,
       DeleteSource, SourceSpent, Unready, Fails, FailRead, FailRow
  <2>3. \A p \in Process : proc'[p].pc \in {"tidy", "remove"} => proc'[p] = proc[p]
    <3>1. CASE Claim(w) \/ FailRead(w)
      <4>1. \A q \in Process \ {w} : proc'[q] = proc[q]
        BY <1>1, <3>1 DEF Claim, FailRead, Rest
      <4>2. \E l \in Local : l.pc \in {"idle", "fetch", "fail.row"} /\ proc' = [proc EXCEPT ![w] = l]
        <5> DEFINE s == [Idle EXCEPT !.pc = "fetch", !.auto = target, !.keys = {row.conv} \ {NoKey}]
                   u == [Idle EXCEPT !.pc = "fail.row", !.attempts = row.attempts]
        <5>1. s.pc = "fetch" /\ u.pc = "fail.row" /\ Idle.pc = "idle"
          BY DEF Idle
        <5>2. s \in Local /\ u \in Local /\ Idle \in Local
          BY <1>1, <1>10 DEF Idle, Local, PC, Row, NoKey, Object, TypeOK
        <5>3. proc' = [proc EXCEPT ![w] = s] \/ proc' = [proc EXCEPT ![w] = u] \/ proc' = [proc EXCEPT ![w] = Idle]
          BY <3>1 DEF Claim, FailRead, Rest
        <5> HIDE DEF s, u
        <5>4. QED BY <5>1, <5>2, <5>3
      <4>3. proc'[w].pc \in {"idle", "fetch", "fail.row"}
        BY <1>1, <4>2
      <4>4. QED BY <4>1, <4>3
    <3>2. CASE Fetch(w)
      BY <1>1, <3>2 DEF Fetch, Local
    <3>3. CASE ~Claim(w) /\ ~FailRead(w) /\ ~Fetch(w)
      <4>1. Rest(w) \/ \E l \in {"note", "optimize", "fail", "done", "source", "publish"} : Jump(w, l)
        BY <2>1, <3>3 DEF Work, Convert, NoteConverted, Optimize, Done,
           DeleteSource, Unready, Fails, FailRow, Update
      <4>2. QED BY <1>1, <4>1 DEF Jump, Rest, Idle, Local
    <3>4. QED BY <3>1, <3>2, <3>3
  <2>4. Past'
    BY <1>3, <1>10, <2>1, WorkIsPast DEF Past
  <2>5. QED BY <1>2, <1>3, <1>12, <2>2, <2>3, <2>4 DEF SharedSafe, Past
<1>6. CASE \E p \in Process : Publish(p)
  <2>1. PICK p \in Process : Publish(p)
    BY <1>6
  <2>2. ~Tidy(p)
    BY <1>3 DEF Tidy, At
  <2>3. Stays
    BY <2>1, <2>2 DEF Publish, PublishClaim, PublishRead, PublishCopy,
       PublishCommit, PublishUndo, PublishUndoCopy, Tidy, TidyRow
  <2>4. \A q \in Process : proc'[q].pc \in {"tidy", "remove"} => proc'[q] = proc[q]
    BY <1>1, <1>4, <2>1, <2>2 DEF Publish, PublishClaim, PublishRead, PublishCopy,
       PublishCommit, PublishUndo, PublishUndoCopy, Tidy, TidyRow, PublishThrows, Jump, Rest, Idle, Local
  <2>5. Past'
    BY <1>3, <1>10, <2>1, PublishIsPast DEF Past
  <2>6. QED BY <1>2, <1>3, <1>12, <2>3, <2>4, <2>5 DEF SharedSafe, Past
<1>7. CASE \E a \in Admin : Ask(a) \/ Finish(a)
  <2>1. PICK a \in Admin : Ask(a) \/ Finish(a)
    BY <1>7
  <2>2. Stays
    <3>1. CASE RemoveObjects(a)
      <4>1. "source" \notin proc[a].keys
        BY <1>1, <1>3, <3>1 DEF RemoveObjects, At
      <4>2. QED BY <3>1, <4>1 DEF RemoveObjects
    <3>2. CASE ~RemoveObjects(a)
      BY <2>1, <3>2 DEF Ask, Finish, AskPublish, AskRetry, AskRemove, RetryRow, RemoveRow
    <3>3. QED BY <3>1, <3>2
  <2>3. \A q \in Process : /\ proc'[q].pc # "tidy"
                           /\ proc'[q].pc = "remove" => "source" \notin proc'[q].keys
    <3>1. CASE AskRemove(a)
      BY <1>1, <1>3, <1>4, <3>1 DEF AskRemove, OwnedKeys, Idle
    <3>2. CASE AskPublish(a)
      BY <1>1, <1>3, <3>2 DEF AskPublish, Jump, Local
    <3>3. CASE AskRetry(a)
      BY <1>1, <1>3, <3>3 DEF AskRetry, Jump, Local
    <3>4. CASE RetryRow(a) \/ RemoveRow(a)
      BY <1>1, <1>3, <3>4 DEF RetryRow, RemoveRow, Rest, Idle
    <3>5. CASE RemoveObjects(a)
      <4>1. Jump(a, "remove.row") \/ Rest(a)
        BY <3>5 DEF RemoveObjects
      <4>2. QED BY <1>1, <1>3, <4>1 DEF Jump, Rest, Idle, Local
    <3>6. QED BY <2>1, <3>1, <3>2, <3>3, <3>4, <3>5 DEF Ask, Finish
  <2>4. Past'
    BY <1>3, <1>10, <2>1, AdminIsPast DEF Past
  <2>5. QED BY <1>2, <1>3, <1>12, <2>2, <2>3, <2>4 DEF SharedSafe, Past
<1>8. CASE (\E p \in Process : Crash(p)) \/ Overdue \/ SweepStale \/ OwnerDeletes
  <2>1. Stays
    BY <1>8 DEF Crash, Overdue, SweepStale
  <2>2. \A q \in Process : proc'[q].pc \in {"tidy", "remove"} => proc'[q] = proc[q]
    BY <1>1, <1>8 DEF Crash, Rest, Idle, Overdue, SweepStale, OwnerDeletes
  <2>3. Past'
    BY <1>3, <1>10, <1>8, SweepIsPast DEF Past
  <2>4. QED BY <1>2, <1>3, <1>12, <2>1, <2>2, <2>3 DEF SharedSafe, Past
<1>9. QED BY <1>5, <1>6, <1>7, <1>8 DEF Next

-----------------------------------------------------------------------------

LEMMA IInit == Init => IInv
<1>1. SUFFICES ASSUME Init PROVE IInv
  OBVIOUS
<1>2. TypeOK
  BY <1>1, TypeInit
<1>3. Fresh
  BY <1>1 DEF Init, UploadInit, Fresh
<1>4. NotYetWhole
  BY <1>1 DEF Init, UploadInit, NotYetWhole, EarlyRow, NewRow, Idle
<1>5. SharedSafe
  BY <1>1 DEF Init, UploadInit, OwnsSource, SharedSafe, SourceThere, NewRow, Idle
<1>6. QED BY <1>2, <1>3, <1>4, <1>5 DEF IInv

LEMMA INext == IInv /\ [Next]_vars => IInv'
<1>1. SUFFICES ASSUME IInv, [Next]_vars PROVE IInv'
  OBVIOUS
<1>2. TypeOK'
  BY <1>1, TypeNext DEF IInv
<1>3. CASE UNCHANGED vars
  BY <1>1, <1>2, <1>3 DEF vars, IInv, Fresh, NotYetWhole, EarlyRow, SharedSafe, SourceThere, OwnsSource
<1>4. CASE Next
  <2>1. Fresh'
    BY <1>1, <1>4, FreshStep DEF IInv
  <2>2. origin' = origin
    BY <1>4, OriginStays
  <2>3. NotYetWhole'
    <3>1. CASE OwnsSource /\ upload' # "done"
      BY <1>1, <1>4, <3>1, UploadWholeStep, WorkWholeStep
    <3>2. CASE ~(OwnsSource /\ upload' # "done")
      BY <2>2, <3>2 DEF NotYetWhole, OwnsSource
    <3>3. QED BY <3>1, <3>2
  <2>4. SharedSafe'
    <3>1. CASE ~OwnsSource'
      <4>1. ~OwnsSource
        BY <2>2, <3>1 DEF OwnsSource
      <4>2. QED BY <1>1, <1>4, <3>1, <4>1, UploadIsOver, WorkSafeStep
    <3>2. CASE OwnsSource'
      BY <3>2 DEF SharedSafe
    <3>3. QED BY <3>1, <3>2
  <2>5. QED BY <1>2, <2>1, <2>3, <2>4 DEF IInv
<1>5. QED BY <1>1, <1>3, <1>4

LEMMA Invariant == Spec => []IInv
BY IInit, INext, PTL DEF Spec

\* No interleaving of repeated calls, takeovers, sweeps, retries and crashes
\* puts a job into the queue whose upload is not complete in storage.
THEOREM QueuedUploadsAreWhole == Spec => []UploadWhole
<1>1. IInv => UploadWhole
  BY DEF IInv, NotYetWhole, EarlyRow, UploadWhole
<1>2. QED BY <1>1, Invariant, PTL

\* Whatever workers, publications, removals and sweeps do to a job made from a
\* model of the catalogue or from another job's output, only the owner of that
\* object deletes it.
THEOREM BorrowedIsKept == Spec => BorrowedKept
<1> DEFINE Stays == ~OwnsSource /\ "source" \in store => "source" \in store' \/ OwnerDeletes
<1>1. IInv /\ [Next]_vars => [Stays]_vars
  <2>1. SUFFICES ASSUME IInv, Next, ~OwnsSource, "source" \in store
                 PROVE  "source" \in store' \/ OwnerDeletes
    OBVIOUS
  <2>2. ~UploadNext
    BY <2>1, UploadIsOver
  <2>3. ~OwnsSource'
    BY <2>1, OriginStays DEF OwnsSource
  <2>4. QED BY <2>1, <2>2, <2>3, WorkSafeStep
<1>2. QED BY <1>1, Invariant, PTL DEF Spec, BorrowedKept

-----------------------------------------------------------------------------
(* What a job needs is in storage *)

\* In storage, or thrown away by an administrator or the owner of a borrowed source.
Kept(o) == o \in store \cup trashed

CompletePC == CallPC \ {"idle", "over", "abort", "abort.row"}
Aborting(c) == call[c] \in {"abort", "abort.row"}

\* Who aborts the upload does not complete it, and nobody else does.
Settled == upload # "done" /\ row.stage # "COMPLETING" /\ \A c \in Caller : call[c] \notin CompletePC
AbortAlone ==
  /\ \A c \in Caller : Aborting(c) => client \in {"abort", "over"}
  /\ client \notin {"complete", "over"} \/ (\E c \in Caller : Aborting(c)) => Settled

\* An object is discarded only when it is not what the client declared.
DiscardsMisfits == \A c \in Caller : call[c] \in {"discard", "discard.row"} => ~fits

\* What an administrator removes is on record, and objects are tidied up after a
\* publication only.
Recorded(l) == /\ l.pc = "remove" => l.keys \subseteq trashed
               /\ l.pc = "tidy" => files > 0
RemovalsKnown == \A p \in Process : Recorded(proc[p])

HasConverted == {"note", "optimize", "done", "source"}
HasOutput == {"done", "source", "publish", "publish.read", "copy", "commit", "undo",
              "undo.store", "unready"}

\* A worker has stored what its next write will promise.
WorkStored ==
  files = 0 => \A w \in Worker :
    /\ proc[w].pc \in HasConverted /\ ~Direct(w) => Kept("converted")
    /\ proc[w].pc \in HasOutput => Kept("output")

SourceKept == upload = "done" /\ fits /\ files = 0 => Kept("source") \/ Kept("converted")
OutputKept == files = 0 /\ row.stage \in {"READY", "PUBLISHING"} => Kept("output")

\* The objects are where the row and the processes say.
Stored == AbortAlone /\ DiscardsMisfits /\ RemovalsKnown /\ WorkStored /\ SourceKept /\ OutputKept

LEMMA Shapes ==
  ASSUME TypeOK
  PROVE  /\ row \in Row /\ call \in [Caller -> CallPC] /\ proc \in [Process -> Local]
         /\ Worker \subseteq Process /\ Admin \subseteq Process /\ files \in Nat
         /\ client \in ClientPC /\ upload \in {"none", "open", "done", "aborted"}
         /\ lapsed \in BOOLEAN /\ (lapsed => row.stage = "COMPLETING")
BY DEF TypeOK, UploadTypeOK, Process

LEMMA AbortCallStep ==
  ASSUME TypeOK, AbortAlone, NEW c \in Caller, Complete(c) \/ Abort(c) \/ CrashCall(c)
  PROVE  AbortAlone'
<1>1. /\ row \in Row /\ call \in [Caller -> CallPC] /\ (lapsed => row.stage = "COMPLETING")
  BY Shapes
<1>2. client' = client /\ \A d \in Caller \ {c} : call'[d] = call[d]
  BY <1>1 DEF Complete, CompleteRead, CompleteClaim, CompleteTakeover, CompleteReread,
     StorageCompletes, StorageRefuses, SizeKnown, SizeUnknown, DiscardObject, DiscardRow,
     CompleteQueue, Abort, AbortRead, AbortStorage, AbortRow, CrashCall, Throw, Goto, Return
<1>3. CASE Complete(c)
  <2>1. ~Aborting(c)'
    BY <1>1, <1>3 DEF Complete, CompleteRead, CompleteClaim, CompleteTakeover, CompleteReread,
       StorageCompletes, StorageRefuses, SizeKnown, SizeUnknown, DiscardObject, DiscardRow,
       CompleteQueue, Throw, Goto, Return, Aborting
  <2>2. client = "complete" \/ row.stage = "COMPLETING" \/ call[c] \in CompletePC
    BY <1>1, <1>3 DEF Complete, CompleteRead, CompleteClaim, CompleteTakeover, CompleteReread,
       StorageCompletes, StorageRefuses, SizeKnown, SizeUnknown, DiscardObject, DiscardRow,
       CompleteQueue, MayComplete, CompletePC
  <2>3. client \in {"complete", "over"} /\ \A d \in Caller : ~Aborting(d)
    BY <2>2 DEF AbortAlone, Settled
  <2>4. QED BY <1>2, <2>1, <2>3 DEF AbortAlone, Aborting
<1>4. CASE Abort(c)
  <2>1. client \in {"abort", "over"}
    BY <1>4 DEF Abort, AbortRead, AbortStorage, AbortRow, AbortAlone, Aborting
  <2>2. Settled
    BY <1>4 DEF Abort, AbortRead, AbortStorage, AbortRow, AbortAlone, Aborting
  <2>3. call'[c] \notin CompletePC /\ upload' # "done"
    BY <1>1, <1>4, <2>2 DEF Abort, AbortRead, AbortStorage, AbortRow, Goto, Return, CompletePC,
       AbortUpload, Settled
  <2>4. row'.stage # "COMPLETING"
    BY <1>1, <1>4, <2>2, FailedIsEarly DEF Abort, AbortRead, AbortStorage, AbortRow, FailUpload,
       Write, Settled
  <2>5. QED BY <1>2, <2>1, <2>2, <2>3, <2>4 DEF AbortAlone, Settled, Aborting
<1>5. CASE CrashCall(c)
  <2>1. call'[c] \in {"idle", "over"} /\ UNCHANGED <<row, upload>>
    BY <1>1, <1>5 DEF CrashCall, Goto, Return
  <2>2. QED BY <1>2, <2>1 DEF AbortAlone, Settled, Aborting, CompletePC
<1>6. QED BY <1>3, <1>4, <1>5

LEMMA AbortClientStep ==
  ASSUME TypeOK, AbortAlone, Start \/ PutParts \/ SweepUpload \/ Lapse \/ CrashClient
  PROVE  AbortAlone'
<1>1. row \in Row /\ client \in ClientPC
  BY Shapes
<1>2. /\ call' = call
      /\ client' \in {"complete", "over"} \/ client \notin {"complete", "over"}
      /\ client' = client \/ client \notin {"complete", "abort"} \/ client' = "over"
  BY DEF Start, StartCreate, StartOpen, StartSave, StartUndo, StartFails, PutParts,
     SweepUpload, Lapse, CrashClient
<1>3. \A c \in Caller : Aborting(c) => client' \in {"abort", "over"}
  BY <1>1, <1>2 DEF AbortAlone, Start, StartCreate, StartOpen, StartSave, StartUndo, StartFails,
     PutParts, SweepUpload, Lapse, CrashClient
<1>4. ASSUME Settled PROVE Settled'
  <2>1. upload' # "done"
    BY <1>4 DEF Settled, Start, StartCreate, StartOpen, StartSave, StartUndo, StartFails,
       PutParts, SweepUpload, Lapse, CrashClient, AbortUpload
  <2>2. \/ row' = row \/ row' = NewRow \/ row' = [row EXCEPT !.upload = TRUE]
        \/ row' = FailedRow(row) \/ row' = [FailedRow(row) EXCEPT !.upload = FALSE]
    BY DEF Start, StartCreate, StartOpen, StartSave, StartUndo, StartFails,
       PutParts, SweepUpload, Lapse, CrashClient, Write, FailUpload
  <2>3. NewRow.stage = "UPLOADING" /\ [row EXCEPT !.upload = TRUE].stage = row.stage
    BY <1>1 DEF NewRow, Row
  <2>4. row'.stage # "COMPLETING"
    BY <1>1, <1>4, <2>2, <2>3, FailedIsEarly DEF Settled
  <2>5. QED BY <1>2, <1>4, <2>1, <2>4 DEF Settled
<1>5. QED BY <1>2, <1>3, <1>4 DEF AbortAlone, Aborting

\* Only a worker that is done, or gives its publication up, makes a job ready;
\* and nobody but its upload makes it COMPLETING.
Late == {"READY", "PUBLISHING"}
Uploading(s) == s = "COMPLETING"
StageKept ==
  /\ Uploading(row'.stage) => Uploading(row.stage)
  /\ row'.stage \in Late => row.stage \in Late

LEMMA KeptByRow == row' = row => StageKept
BY DEF StageKept

LEMMA WorkStage ==
  ASSUME TypeOK, NEW w \in Worker, Work(w)
  PROVE  /\ Uploading(row'.stage) => Uploading(row.stage)
         /\ row'.stage \in Late => row.stage \in Late \/ Done(w) \/ Unready(w)
<1>1. row \in Row /\ ConvertedKey(w) \in {"source", "converted"} /\ proc[w].attempts \in Nat
  BY DEF TypeOK, UploadTypeOK, ConvertedKey, Process, Local
<1>2. CASE Fetch(w) \/ Convert(w) \/ Optimize(w) \/ DeleteSource(w) \/ Fails(w) \/ FailRead(w)
  BY <1>2 DEF Fetch, Convert, Optimize, DeleteSource, Fails, FailRead, RowKept
<1>3. CASE Claim(w)
  BY <1>1, <1>3, StageForms DEF Claim, Write, Uploading, Late
<1>4. CASE NoteConverted(w)
  <2> DEFINE s == [row EXCEPT !.conv = ConvertedKey(w), !.stage = "OPTIMIZING"]
  <2>1. row' = s \/ row' = row
    BY <1>4, Writes DEF NoteConverted
  <2>2. s.stage = "OPTIMIZING"
    BY <1>1 DEF Row
  <2> HIDE DEF s
  <2>3. QED BY <2>1, <2>2 DEF Uploading, Late
<1>5. CASE Done(w)
  <2>1. row' = Ready(row) \/ row' = row
    BY <1>5, Writes DEF Done
  <2>2. QED BY <1>1, <1>5, <2>1, StageForms DEF Uploading
<1>6. CASE Unready(w)
  <2>1. row' = [row EXCEPT !.stage = "READY"] \/ row' = row
    BY <1>6, Writes DEF Unready, RowKept
  <2>2. QED BY <1>1, <1>6, <2>1, StageForms DEF Uploading
<1>7. CASE FailRow(w)
  <2>1. row' = AfterFailure(row, proc[w].attempts) \/ row' = row
    BY <1>7, Writes DEF FailRow, RowKept
  <2>2. QED BY <1>1, <2>1, StageForms DEF Uploading, Late
<1>8. QED BY <1>2, <1>3, <1>4, <1>5, <1>6, <1>7 DEF Work

LEMMA PublishStage ==
  ASSUME TypeOK, NEW p \in Process, Publish(p)
  PROVE  StageKept
<1>1. row \in Row
  BY Shapes
<1>2. CASE PublishRead(p) \/ PublishCopy(p) \/ PublishUndoCopy(p) \/ Tidy(p)
  BY <1>2, KeptByRow DEF PublishRead, PublishCopy, PublishUndoCopy, Tidy, RowKept
<1>3. CASE PublishClaim(p)
  <2>1. \/ row.stage = "READY" /\ row' = [row EXCEPT !.stage = "PUBLISHING"]
        \/ row' = row
    BY <1>3, Writes DEF PublishClaim, RowKept
  <2>2. QED BY <1>1, <2>1, StageForms DEF StageKept, Uploading, Late
<1>4. CASE PublishCommit(p)
  <2>1. row' = [row EXCEPT !.status = "COMPLETED", !.stage = "PUBLISHED"] \/ row' = row
    BY <1>4, Writes DEF PublishCommit, RowKept
  <2>2. QED BY <1>1, <2>1, StageForms DEF StageKept, Uploading, Late
<1>5. CASE PublishUndo(p)
  <2>1. \/ row.stage = "PUBLISHING" /\ row' = [row EXCEPT !.stage = "READY"]
        \/ row' = row
    BY <1>5, Writes DEF PublishUndo, RowKept
  <2>2. QED BY <1>1, <2>1, StageForms DEF StageKept, Uploading, Late
<1>6. CASE TidyRow(p)
  <2>1. \/ row' = [row EXCEPT !.conv = IF @ \in proc[p].keys THEN NoKey ELSE @,
                              !.out = @ /\ "output" \notin proc[p].keys]
        \/ row' = row
    BY <1>6, Writes DEF TidyRow, RowKept
  <2>2. row'.stage = row.stage
    BY <1>1, <2>1 DEF Row
  <2>3. QED BY <2>2 DEF StageKept
<1>7. QED BY <1>2, <1>3, <1>4, <1>5, <1>6 DEF Publish

LEMMA AdminStage ==
  ASSUME TypeOK, NEW a \in Admin, Ask(a) \/ Finish(a)
  PROVE  StageKept
<1>1. row \in Row
  BY Shapes
<1>2. CASE Ask(a) \/ RemoveObjects(a)
  BY <1>2, KeptByRow DEF Ask, AskPublish, AskRetry, AskRemove, Begin, RemoveObjects, RowKept
<1>3. CASE RetryRow(a)
  <2>1. \/ row' = [row EXCEPT !.status = "QUEUED", !.stage = "QUEUED",
                              !.attempts = 0, !.out = FALSE]
        \/ row' = row
    BY <1>3, Writes DEF RetryRow, RowKept
  <2>2. QED BY <1>1, <2>1, StageForms DEF StageKept, Uploading, Late
<1>4. CASE RemoveRow(a)
  <2>1. row' = GoneRow \/ row' = row
    BY <1>4, Writes DEF RemoveRow, RowKept
  <2>2. QED BY <1>1, <2>1, StageForms DEF StageKept, Uploading, Late
<1>5. QED BY <1>2, <1>3, <1>4 DEF Finish

LEMMA SweepStage ==
  ASSUME TypeOK, (\E p \in Process : Crash(p)) \/ Overdue \/ SweepStale \/ OwnerDeletes
  PROVE  StageKept
<1>1. row \in Row /\ row.attempts \in Nat
  BY Shapes DEF Row
<1>2. row' = AfterFailure(row, row.attempts) \/ row' = row
  BY Writes DEF Crash, Overdue, SweepStale, OwnerDeletes, RowKept
<1>3. QED BY <1>1, <1>2, StageForms DEF StageKept, Uploading, Late

LEMMA UploadStage ==
  ASSUME TypeOK, UploadNext
  PROVE  row'.stage \in Late => row.stage \in Late
<1>1. row \in Row
  BY Shapes
<1>2. CASE Start \/ PutParts \/ SweepUpload \/ Lapse \/ CrashClient
  <2>1. \/ row' = row \/ row' = NewRow \/ row' = [row EXCEPT !.upload = TRUE]
        \/ row' = FailedRow(row) \/ row' = [FailedRow(row) EXCEPT !.upload = FALSE]
    BY <1>2 DEF Start, StartCreate, StartOpen, StartSave, StartUndo, StartFails,
       PutParts, SweepUpload, Lapse, CrashClient, Write, FailUpload
  <2>2. NewRow.stage = "UPLOADING" /\ [row EXCEPT !.upload = TRUE].stage = row.stage
    BY <1>1 DEF NewRow, Row
  <2>3. QED BY <1>1, <2>1, <2>2, FailedIsEarly DEF Late
<1>3. CASE \E c \in Caller : Complete(c) \/ Abort(c) \/ CrashCall(c)
  <2>1. \/ row' = row \/ row' = [row EXCEPT !.stage = "COMPLETING"]
        \/ row' = [FailedRow(row) EXCEPT !.upload = FALSE]
        \/ row' = [row EXCEPT !.status = "QUEUED", !.stage = "QUEUED", !.upload = FALSE]
    BY <1>3 DEF Complete, CompleteRead, CompleteClaim, CompleteTakeover, CompleteReread,
       StorageCompletes, StorageRefuses, SizeKnown, SizeUnknown, DiscardObject, DiscardRow,
       CompleteQueue, Abort, AbortRead, AbortStorage, AbortRow, CrashCall, Write, FailUpload
  <2>2. /\ [row EXCEPT !.stage = "COMPLETING"].stage = "COMPLETING"
        /\ [row EXCEPT !.status = "QUEUED", !.stage = "QUEUED", !.upload = FALSE].stage = "QUEUED"
    BY <1>1 DEF Row
  <2>3. QED BY <1>1, <2>1, <2>2, FailedIsEarly DEF Late
<1>4. QED BY <1>2, <1>3 DEF UploadNext

LEMMA AbortStep ==
  ASSUME TypeOK, AbortAlone, Next
  PROVE  AbortAlone'
<1>1. CASE UploadNext
  BY <1>1, AbortCallStep, AbortClientStep DEF UploadNext
<1>2. CASE \E a \in Admin : Ask(a) \/ Finish(a)
  <2>1. client' = client /\ call' = call /\ (upload # "done" => upload' # "done")
    BY <1>2, AdminKeepsUpload
  <2>2. Uploading(row'.stage) => Uploading(row.stage)
    BY <1>2, AdminStage DEF StageKept
  <2>3. QED BY <2>1, <2>2 DEF AbortAlone, Settled, Aborting, Uploading
<1>3. CASE \/ \E w \in Worker : Work(w)
           \/ \E p \in Process : Publish(p) \/ Crash(p)
           \/ Overdue \/ SweepStale \/ OwnerDeletes
  <2>1. UNCHANGED <<upload, client, call>>
    BY <1>3, WorkKeepsUpload
  <2>2. Uploading(row'.stage) => Uploading(row.stage)
    BY <1>3, WorkStage, PublishStage, SweepStage DEF StageKept
  <2>3. QED BY <2>1, <2>2 DEF AbortAlone, Settled, Aborting, Uploading
<1>4. QED BY <1>1, <1>2, <1>3 DEF Next

LEMMA UploadObjects ==
  ASSUME UploadNext
  PROVE  /\ UNCHANGED <<origin, fits>>
         /\ store \ {"source"} \subseteq store'
         /\ (\A c \in Caller : ~DiscardObject(c) /\ ~AbortStorage(c)) => store \subseteq store'
         /\ upload' = "done" => upload = "done" \/ "source" \in store'
<1>1. CASE Start \/ PutParts \/ SweepUpload \/ Lapse \/ CrashClient
  BY <1>1 DEF Start, StartCreate, StartOpen, StartSave, StartUndo, StartFails,
     PutParts, SweepUpload, Lapse, CrashClient, AbortUpload
<1>2. ASSUME NEW c \in Caller, Complete(c) \/ Abort(c) \/ CrashCall(c)
      PROVE  /\ UNCHANGED <<origin, fits>>
             /\ store \ {"source"} \subseteq store'
             /\ ~DiscardObject(c) /\ ~AbortStorage(c) => store \subseteq store'
             /\ upload' = "done" => upload = "done" \/ "source" \in store'
  BY <1>2 DEF Complete, CompleteRead, CompleteClaim, CompleteTakeover, CompleteReread,
     StorageCompletes, StorageRefuses, SizeKnown, SizeUnknown, DiscardObject, DiscardRow,
     CompleteQueue, Abort, AbortRead, AbortStorage, AbortRow, CrashCall, AbortUpload
<1>3. QED BY <1>1, <1>2 DEF UploadNext

LEMMA WorkObjects ==
  ASSUME NEW w \in Worker, Work(w)
  PROVE  /\ UNCHANGED <<origin, fits, upload, files, trashed>>
         /\ store \ {"source"} \subseteq store'
         /\ ~(DeleteSource(w) /\ SourceSpent(w)) => store \subseteq store'
BY DEF Work, Claim, Fetch, Convert, NoteConverted, Optimize, Done, DeleteSource, Unready, Fails,
   FailRead, FailRow, Alone

LEMMA PublishObjects ==
  ASSUME RemovalsKnown, files \in Nat, NEW p \in Process, Publish(p)
  PROVE  /\ UNCHANGED <<origin, fits, upload, trashed>>
         /\ files' = files \/ files' = files + 1
         /\ files = 0 => store \ {"model"} \subseteq store'
<1>1. files = 0 => ~Tidy(p)
  BY DEF RemovalsKnown, Recorded, Tidy, At
<1>2. QED
  BY <1>1 DEF Publish, PublishClaim, PublishRead, PublishCopy, PublishCommit, PublishUndo,
     PublishUndoCopy, Tidy, TidyRow, Alone

LEMMA AdminObjects ==
  ASSUME RemovalsKnown, NEW a \in Admin, Ask(a) \/ Finish(a)
  PROVE  /\ UNCHANGED <<origin, fits, files>>
         /\ upload' = upload \/ upload' = "aborted"
         /\ trashed \subseteq trashed'
         /\ store \ trashed' \subseteq store'
<1>1. CASE RemoveObjects(a)
  <2>1. proc[a].keys \subseteq trashed
    BY <1>1 DEF RemoveObjects, At, RemovalsKnown, Recorded, Process
  <2>2. QED BY <1>1, <2>1 DEF RemoveObjects, AbortUpload
<1>2. CASE ~RemoveObjects(a)
  BY <1>2 DEF Ask, Finish, AskPublish, AskRetry, AskRemove, Begin, RetryRow, RemoveRow, Alone
<1>3. QED BY <1>1, <1>2

LEMMA SweepObjects ==
  ASSUME (\E p \in Process : Crash(p)) \/ Overdue \/ SweepStale \/ OwnerDeletes
  PROVE  /\ UNCHANGED <<origin, fits, upload, files>>
         /\ trashed \subseteq trashed' /\ store \subseteq store' \cup trashed'
BY DEF Crash, Overdue, SweepStale, OwnerDeletes, Alone

\* As long as nothing is published, an object leaves the storage only by an
\* administrator or the owner of a borrowed source, except for the source.
LEMMA KeptOn ==
  ASSUME TypeOK, RemovalsKnown, Next, files' = 0
  PROVE  /\ files = 0 /\ UNCHANGED <<origin, fits>>
         /\ trashed \subseteq trashed'
         /\ Kept("converted") => Kept("converted")'
         /\ Kept("output") => Kept("output")'
         /\ Kept("source") => \/ Kept("source")'
                              \/ \E c \in Caller : DiscardObject(c) \/ AbortStorage(c)
                              \/ \E w \in Worker : DeleteSource(w) /\ SourceSpent(w)
         /\ upload' = "done" => upload = "done" \/ Kept("source")'
<1>1. files \in Nat
  BY Shapes
<1>2. CASE UploadNext /\ UNCHANGED workVars
  BY <1>2, UploadObjects DEF workVars, Kept
<1>3. CASE \E w \in Worker : Work(w)
  BY <1>3, WorkObjects DEF Kept
<1>4. CASE \E p \in Process : Publish(p)
  <2>1. files = 0
    BY <1>1, <1>4, PublishObjects
  <2>2. QED BY <1>1, <1>4, <2>1, PublishObjects DEF Kept
<1>5. CASE \E a \in Admin : Ask(a) \/ Finish(a)
  BY <1>5, AdminObjects DEF Kept
<1>6. CASE (\E p \in Process : Crash(p)) \/ Overdue \/ SweepStale \/ OwnerDeletes
  BY <1>6, SweepObjects DEF Kept
<1>7. QED BY <1>2, <1>3, <1>4, <1>5, <1>6 DEF Next

LEMMA DiscardStep ==
  ASSUME TypeOK, DiscardsMisfits, Next
  PROVE  DiscardsMisfits'
<1>1. call \in [Caller -> CallPC]
  BY Shapes
<1>2. CASE Start \/ PutParts \/ SweepUpload \/ Lapse \/ CrashClient
  BY <1>2 DEF Start, StartCreate, StartOpen, StartSave, StartUndo, StartFails,
     PutParts, SweepUpload, Lapse, CrashClient, DiscardsMisfits
<1>3. ASSUME NEW c \in Caller, Complete(c) \/ Abort(c) \/ CrashCall(c)
      PROVE  DiscardsMisfits'
  <2>1. fits' = fits /\ \A d \in Caller \ {c} : call'[d] = call[d]
    BY <1>1, <1>3 DEF Complete, CompleteRead, CompleteClaim, CompleteTakeover, CompleteReread,
       StorageCompletes, StorageRefuses, SizeKnown, SizeUnknown, DiscardObject, DiscardRow,
       CompleteQueue, Abort, AbortRead, AbortStorage, AbortRow, CrashCall, Throw, Goto, Return
  <2>2. call'[c] \in {"discard", "discard.row"} => ~fits
    BY <1>1, <1>3 DEF Complete, CompleteRead, CompleteClaim, CompleteTakeover, CompleteReread,
       StorageCompletes, StorageRefuses, SizeKnown, SizeUnknown, Head, DiscardObject, DiscardRow,
       CompleteQueue, Abort, AbortRead, AbortStorage, AbortRow, CrashCall, Throw, Goto, Return,
       DiscardsMisfits
  <2>3. QED BY <2>1, <2>2 DEF DiscardsMisfits
<1>4. CASE \E a \in Admin : Ask(a) \/ Finish(a)
  BY <1>4, AdminKeepsUpload DEF Ask, Finish, AskPublish, AskRetry, AskRemove, Begin, RetryRow,
     RemoveObjects, RemoveRow, Alone, DiscardsMisfits
<1>5. CASE \/ \E w \in Worker : Work(w)
           \/ \E p \in Process : Publish(p) \/ Crash(p)
           \/ Overdue \/ SweepStale \/ OwnerDeletes
  <2>1. call' = call
    BY <1>5, WorkKeepsUpload
  <2>2. fits' = fits
    BY <1>5, WorkObjects, SweepObjects DEF Publish, PublishClaim, PublishRead, PublishCopy,
       PublishCommit, PublishUndo, PublishUndoCopy, Tidy, TidyRow, Alone
  <2>3. QED BY <2>1, <2>2 DEF DiscardsMisfits
<1>6. QED BY <1>2, <1>3, <1>4, <1>5 DEF Next, UploadNext

LEMMA RemovalStep ==
  ASSUME TypeOK, RemovalsKnown, Next
  PROVE  RemovalsKnown'
<1>1. /\ proc \in [Process -> Local] /\ files \in Nat
      /\ Worker \subseteq Process /\ Admin \subseteq Process
  BY Shapes
<1>2. CASE UploadNext /\ UNCHANGED workVars
  BY <1>2 DEF workVars, RemovalsKnown, Recorded
<1>3. ASSUME NEW w \in Worker, Work(w) PROVE RemovalsKnown'
  <2>1. UNCHANGED <<files, trashed>>
    BY <1>3, WorkObjects
  <2>2. \A p \in Process \ {w} : proc'[p] = proc[p]
    BY <1>1, <1>3 DEF Work, Claim, Fetch, Convert, NoteConverted, Optimize, Done, DeleteSource,
       Unready, Fails, FailRead, FailRow, Update, Jump, Rest
  <2>3. proc'[w].pc \notin {"remove", "tidy"}
    <3>1. CASE Claim(w)
      BY <1>1, <3>1 DEF Claim, Idle
    <3>2. CASE FailRead(w)
      <4> DEFINE u == [Idle EXCEPT !.pc = "fail.row", !.attempts = row.attempts]
      <4>1. u.pc = "fail.row" /\ Idle.pc = "idle"
        BY DEF Idle
      <4>2. proc' = [proc EXCEPT ![w] = u] \/ proc' = [proc EXCEPT ![w] = Idle]
        BY <3>2 DEF FailRead, Rest
      <4> HIDE DEF u
      <4>3. QED BY <1>1, <4>1, <4>2
    <3>3. CASE Fetch(w)
      BY <1>1, <3>3 DEF Fetch, Local
    <3>4. CASE ~Claim(w) /\ ~FailRead(w) /\ ~Fetch(w)
      <4>1. Rest(w) \/ \E l \in {"note", "optimize", "fail", "done", "source", "publish"} : Jump(w, l)
        BY <1>3, <3>4 DEF Work, Convert, NoteConverted, Optimize, Done,
           DeleteSource, Unready, Fails, FailRow, Update
      <4>2. QED BY <1>1, <4>1 DEF Jump, Rest, Idle, Local
    <3>5. QED BY <3>1, <3>2, <3>3, <3>4
  <2>4. QED BY <2>1, <2>2, <2>3 DEF RemovalsKnown, Recorded
<1>4. ASSUME NEW p \in Process, Publish(p) PROVE RemovalsKnown'
  <2>1. trashed' = trashed /\ (files' = files \/ files' = files + 1)
    BY <1>1, <1>4, PublishObjects
  <2>2. \A q \in Process \ {p} : proc'[q] = proc[q]
    BY <1>1, <1>4 DEF Publish, PublishClaim, PublishRead, PublishCopy, PublishCommit, PublishUndo,
       PublishUndoCopy, Tidy, TidyRow, PublishThrows, Jump, Rest
  <2>3. proc'[p].pc # "remove" /\ (proc'[p].pc = "tidy" => files' = files + 1)
    <3>1. CASE PublishRead(p)
      BY <1>1, <3>1 DEF PublishRead, PublishThrows, Jump, Rest, Idle, Local
    <3>2. CASE Tidy(p)
      BY <1>1, <3>2 DEF Tidy, Local
    <3>3. CASE PublishCommit(p)
      BY <1>1, <3>3 DEF PublishCommit, Jump, Rest, Idle, Local
    <3>4. CASE PublishClaim(p) \/ PublishCopy(p) \/ PublishUndo(p) \/ PublishUndoCopy(p) \/ TidyRow(p)
      BY <1>1, <3>4 DEF PublishClaim, PublishCopy, PublishUndo, PublishUndoCopy, TidyRow,
         PublishThrows, Jump, Rest, Idle, Local
    <3>5. QED BY <1>4, <3>1, <3>2, <3>3, <3>4 DEF Publish
  <2>4. QED BY <1>1, <2>1, <2>2, <2>3 DEF RemovalsKnown, Recorded
<1>5. ASSUME NEW a \in Admin, Ask(a) \/ Finish(a) PROVE RemovalsKnown'
  <2>1. files' = files /\ trashed \subseteq trashed'
    BY <1>5, AdminObjects
  <2>2. \A q \in Process \ {a} : proc'[q] = proc[q]
    BY <1>1, <1>5 DEF Ask, Finish, AskPublish, AskRetry, AskRemove, RetryRow, RemoveObjects,
       RemoveRow, Jump, Rest
  <2>3. proc'[a].pc # "tidy" /\ (proc'[a].pc = "remove" => proc'[a].keys \subseteq trashed')
    <3>1. CASE AskRemove(a)
      BY <1>1, <3>1 DEF AskRemove, Idle
    <3>2. CASE AskPublish(a) \/ AskRetry(a) \/ Finish(a)
      <4>1. Rest(a) \/ \E l \in {"publish", "retry.row", "remove.row"} : Jump(a, l)
        BY <3>2 DEF AskPublish, AskRetry, Finish, RetryRow, RemoveObjects, RemoveRow
      <4>2. QED BY <1>1, <4>1 DEF Jump, Rest, Idle, Local
    <3>3. QED BY <1>5, <3>1, <3>2 DEF Ask
  <2>4. QED BY <2>1, <2>2, <2>3 DEF RemovalsKnown, Recorded
<1>6. CASE (\E p \in Process : Crash(p)) \/ Overdue \/ SweepStale \/ OwnerDeletes
  BY <1>1, <1>6, SweepObjects DEF Crash, Rest, Idle, Overdue, SweepStale, OwnerDeletes, RemovalsKnown, Recorded
<1>7. QED BY <1>2, <1>3, <1>4, <1>5, <1>6 DEF Next

\* What a worker with these locals must have stored.
StoredFor(w) ==
  /\ proc[w].pc \in HasConverted /\ ~Direct(w) => Kept("converted")
  /\ proc[w].pc \in HasOutput => Kept("output")

LEMMA StoredElsewhere ==
  ASSUME NEW w \in Worker, StoredFor(w), proc'[w] = proc[w] \/ proc'[w].pc = "idle",
         origin' = origin,
         Kept("converted") => Kept("converted")', Kept("output") => Kept("output")'
  PROVE  StoredFor(w)'
BY DEF StoredFor, Direct, HasConverted, HasOutput

LEMMA WorkerStores ==
  ASSUME TypeOK, RemovalsKnown, Next, files' = 0, NEW w \in Worker, Work(w), StoredFor(w)
  PROVE  StoredFor(w)'
<1>1. proc \in [Process -> Local] /\ w \in Process /\ proc[w] \in Local
  BY Shapes
<1>2. /\ origin' = origin
      /\ Kept("converted") => Kept("converted")'
      /\ Kept("output") => Kept("output")'
  BY KeptOn
<1>3. CASE Claim(w)
  <2>1. proc'[w].pc = "fetch"
    BY <1>1, <1>3 DEF Claim, Idle
  <2>2. QED BY <2>1 DEF StoredFor, HasConverted, HasOutput
<1>4. CASE Fetch(w)
  <2>1. proc'[w].pc = "convert"
    BY <1>1, <1>4 DEF Fetch, Local
  <2>2. QED BY <2>1 DEF StoredFor, HasConverted, HasOutput
<1>5. CASE FailRead(w)
  <2> DEFINE u == [Idle EXCEPT !.pc = "fail.row", !.attempts = row.attempts]
  <2>1. u.pc = "fail.row" /\ Idle.pc = "idle"
    BY DEF Idle
  <2>2. proc' = [proc EXCEPT ![w] = u] \/ proc' = [proc EXCEPT ![w] = Idle]
    BY <1>5 DEF FailRead, Rest
  <2> HIDE DEF u
  <2>3. proc'[w].pc \in {"fail.row", "idle"}
    BY <1>1, <2>1, <2>2
  <2>4. QED BY <2>3 DEF StoredFor, HasConverted, HasOutput
<1>6. CASE Convert(w)
  <2>1. proc'[w] = [proc[w] EXCEPT !.pc = "note"]
    BY <1>1, <1>6 DEF Convert, Jump
  <2>2. proc'[w].pc = "note" /\ proc'[w].reuse = proc[w].reuse
    BY <1>1, <2>1 DEF Local
  <2>3. ~Direct(w)' => Kept("converted")'
    BY <1>2, <1>6, <2>2 DEF Convert, Direct, Kept
  <2>4. QED BY <2>2, <2>3 DEF StoredFor, HasOutput
<1>7. CASE NoteConverted(w) \/ Optimize(w) \/ Done(w)
  <2>1. PICK l \in {"optimize", "done", "source", "fail"} : Jump(w, l)
    BY <1>7 DEF NoteConverted, Optimize, Done, Update
  <2>2. proc'[w].pc = l /\ proc'[w].reuse = proc[w].reuse
    BY <1>1, <2>1 DEF Jump, Local
  <2>3. proc[w].pc \in {"note", "optimize", "done"}
    BY <1>7 DEF NoteConverted, Optimize, Done, At
  <2>4. ~Direct(w)' => Kept("converted")'
    BY <1>2, <2>2, <2>3 DEF StoredFor, HasConverted, Direct
  <2>5. l \in HasOutput => Kept("output")'
    <3>1. CASE Optimize(w)
      BY <3>1 DEF Optimize, Kept
    <3>2. CASE NoteConverted(w)
      <4>1. Jump(w, "optimize") \/ Jump(w, "fail")
        BY <3>2 DEF NoteConverted, Update
      <4>2. proc'[w].pc \in {"optimize", "fail"}
        BY <1>1, <4>1 DEF Jump, Local
      <4>3. QED BY <2>2, <4>2 DEF HasOutput
    <3>3. CASE Done(w)
      BY <1>2, <3>3 DEF Done, At, StoredFor, HasOutput
    <3>4. QED BY <1>7, <3>1, <3>2, <3>3
  <2>6. QED BY <2>2, <2>4, <2>5 DEF StoredFor
<1>8. CASE DeleteSource(w)
  <2>1. Kept("output")'
    BY <1>2, <1>8 DEF DeleteSource, At, StoredFor, HasOutput
  <2>2. proc'[w].pc \in {"publish", "idle"}
    BY <1>1, <1>8 DEF DeleteSource, Jump, Rest, Idle, Local
  <2>3. QED BY <2>1, <2>2 DEF StoredFor, HasConverted
<1>9. CASE Unready(w) \/ Fails(w) \/ FailRow(w)
  <2>1. Rest(w) \/ Jump(w, "fail")
    BY <1>9 DEF Unready, Fails, FailRow
  <2>2. proc'[w].pc \in {"idle", "fail"}
    BY <1>1, <2>1 DEF Jump, Rest, Idle, Local
  <2>3. QED BY <2>2 DEF StoredFor, HasConverted, HasOutput
<1>10. QED BY <1>3, <1>4, <1>5, <1>6, <1>7, <1>8, <1>9 DEF Work

LEMMA PublisherStores ==
  ASSUME TypeOK, RemovalsKnown, Next, files' = 0, NEW w \in Worker, Publish(w), StoredFor(w)
  PROVE  StoredFor(w)'
<1>1. proc \in [Process -> Local] /\ w \in Process /\ proc[w] \in Local
  BY Shapes
<1>2. /\ origin' = origin
      /\ Kept("converted") => Kept("converted")'
      /\ Kept("output") => Kept("output")'
      /\ files = 0
  BY KeptOn
<1>3. ~Tidy(w)
  BY <1>1, <1>2 DEF Tidy, At, RemovalsKnown, Recorded
<1>4. CASE TidyRow(w)
  <2>1. proc'[w].pc = "idle"
    BY <1>1, <1>4 DEF TidyRow, Rest, Idle
  <2>2. QED BY <2>1 DEF StoredFor, HasConverted, HasOutput
<1>5. CASE ~TidyRow(w)
  <2>1. proc[w].pc \in HasOutput
    BY <1>3, <1>5 DEF Publish, PublishClaim, PublishRead, PublishCopy, PublishCommit, PublishUndo,
       PublishUndoCopy, At, HasOutput
  <2>2. Kept("output")'
    BY <1>2, <2>1 DEF StoredFor
  <2>3. proc'[w].pc \notin HasConverted
    <3>1. CASE PublishRead(w)
      <4>1. proc'[w].pc \in {"copy", "unready", "idle"}
        BY <1>1, <3>1 DEF PublishRead, PublishThrows, Jump, Rest, Idle, Local
      <4>2. QED BY <4>1 DEF HasConverted
    <3>2. CASE ~PublishRead(w)
      <4>1. Rest(w) \/ \E l \in {"publish.read", "commit", "tidy", "undo", "undo.store", "unready"} :
                         Jump(w, l)
        BY <1>3, <1>5, <3>2 DEF Publish, PublishClaim, PublishCopy, PublishCommit, PublishUndo,
           PublishUndoCopy, PublishThrows
      <4>2. QED BY <1>1, <4>1 DEF Jump, Rest, Idle, Local, HasConverted
    <3>3. QED BY <3>1, <3>2
  <2>4. QED BY <2>2, <2>3 DEF StoredFor
<1>6. QED BY <1>4, <1>5

LEMMA OthersUntouched ==
  ASSUME TypeOK, NEW p \in Process
  PROVE  /\ p \in Worker /\ Work(p) => \A q \in Process \ {p} : proc'[q] = proc[q]
         /\ Publish(p) => \A q \in Process \ {p} : proc'[q] = proc[q]
         /\ p \in Admin /\ (Ask(p) \/ Finish(p)) => \A q \in Process \ {p} : proc'[q] = proc[q]
<1>1. proc \in [Process -> Local]
  BY Shapes
<1>2. ASSUME Work(p) PROVE \A q \in Process \ {p} : proc'[q] = proc[q]
  BY <1>1, <1>2 DEF Work, Claim, Fetch, Convert, NoteConverted, Optimize, Done, DeleteSource,
     Unready, Fails, FailRead, FailRow, Update, Jump, Rest
<1>3. ASSUME Publish(p) PROVE \A q \in Process \ {p} : proc'[q] = proc[q]
  BY <1>1, <1>3 DEF Publish, PublishClaim, PublishRead, PublishCopy, PublishCommit, PublishUndo,
     PublishUndoCopy, Tidy, TidyRow, PublishThrows, Jump, Rest
<1>4. ASSUME Ask(p) \/ Finish(p) PROVE \A q \in Process \ {p} : proc'[q] = proc[q]
  BY <1>1, <1>4 DEF Ask, Finish, AskPublish, AskRetry, AskRemove, RetryRow, RemoveObjects,
     RemoveRow, Jump, Rest
<1>5. QED BY <1>2, <1>3, <1>4

LEMMA WorkStoredStep ==
  ASSUME TypeOK, RemovalsKnown, WorkStored, Next
  PROVE  WorkStored'
<1>1. SUFFICES ASSUME files' = 0, NEW w \in Worker PROVE StoredFor(w)'
  BY DEF WorkStored, StoredFor
<1>2. /\ files = 0 /\ origin' = origin
      /\ Kept("converted") => Kept("converted")'
      /\ Kept("output") => Kept("output")'
  BY <1>1, KeptOn
<1>3. StoredFor(w) /\ w \in Process /\ proc \in [Process -> Local]
  BY <1>2, Shapes DEF WorkStored, StoredFor
<1>4. CASE Work(w) \/ Publish(w)
  BY <1>1, <1>3, <1>4, WorkerStores, PublisherStores
<1>5. CASE proc'[w] = proc[w] \/ proc'[w].pc = "idle"
  BY <1>2, <1>3, <1>5, StoredElsewhere
<1>6. CASE UploadNext /\ UNCHANGED workVars
  BY <1>5, <1>6 DEF workVars
<1>7. CASE \E v \in Worker : Work(v)
  BY <1>3, <1>4, <1>5, <1>7, OthersUntouched DEF Process
<1>8. CASE \E p \in Process : Publish(p)
  BY <1>3, <1>4, <1>5, <1>8, OthersUntouched
<1>9. CASE \E a \in Admin : Ask(a) \/ Finish(a)
  <2>1. PICK a \in Admin : Ask(a) \/ Finish(a)
    BY <1>9
  <2>2. a # w /\ a \in Process
    BY ProcessAssumption DEF Process
  <2>3. QED BY <1>3, <1>5, <2>1, <2>2, OthersUntouched
<1>10. CASE (\E p \in Process : Crash(p)) \/ Overdue \/ SweepStale \/ OwnerDeletes
  BY <1>3, <1>5, <1>10 DEF Crash, Rest, Idle, Overdue, SweepStale, OwnerDeletes
<1>11. QED BY <1>6, <1>7, <1>8, <1>9, <1>10 DEF Next

LEMMA SourceStep ==
  ASSUME IInv, AbortAlone, DiscardsMisfits, RemovalsKnown, WorkStored, SourceKept, Next
  PROVE  SourceKept'
<1>1. SUFFICES ASSUME upload' = "done", fits', files' = 0
               PROVE  Kept("source")' \/ Kept("converted")'
  BY DEF SourceKept
<1>2. TypeOK
  BY DEF IInv
<1>3. /\ files = 0 /\ UNCHANGED <<origin, fits>>
      /\ Kept("converted") => Kept("converted")'
      /\ Kept("source") => \/ Kept("source")'
                           \/ \E c \in Caller : DiscardObject(c) \/ AbortStorage(c)
                           \/ \E w \in Worker : DeleteSource(w) /\ SourceSpent(w)
      /\ upload = "done" \/ Kept("source")'
  BY <1>1, <1>2, KeptOn
<1>4. CASE upload = "done" /\ ~Kept("source")'
  <2>1. Kept("source") \/ Kept("converted")
    BY <1>1, <1>3, <1>4 DEF SourceKept
  <2>2. ASSUME NEW c \in Caller PROVE ~DiscardObject(c) /\ ~AbortStorage(c)
    <3>1. ~DiscardObject(c)
      BY <1>1, <1>3 DEF DiscardObject, DiscardsMisfits
    <3>2. ~AbortStorage(c)
      BY <1>4 DEF AbortStorage, AbortAlone, Settled, Aborting
    <3>3. QED BY <3>1, <3>2
  <2>3. ASSUME NEW w \in Worker, DeleteSource(w), SourceSpent(w) PROVE Kept("converted")
    BY <1>3, <2>3 DEF DeleteSource, At, SourceSpent, WorkStored, HasConverted
  <2>4. QED BY <1>3, <1>4, <2>1, <2>2, <2>3
<1>5. QED BY <1>3, <1>4

LEMMA OutputStep ==
  ASSUME TypeOK, RemovalsKnown, WorkStored, OutputKept, Next
  PROVE  OutputKept'
<1>1. SUFFICES ASSUME files' = 0, row'.stage \in Late PROVE Kept("output")'
  BY DEF OutputKept, Late
<1>2. files = 0 /\ (Kept("output") => Kept("output")')
  BY <1>1, KeptOn
<1>3. row.stage \in Late \/ \E w \in Worker : Done(w) \/ Unready(w)
  BY <1>1, UploadStage, WorkStage, PublishStage, AdminStage, SweepStage DEF Next, StageKept
<1>4. CASE row.stage \in Late
  BY <1>2, <1>4 DEF OutputKept, Late
<1>5. CASE \E w \in Worker : Done(w) \/ Unready(w)
  BY <1>2, <1>5 DEF Done, Unready, At, WorkStored, HasOutput
<1>6. QED BY <1>3, <1>4, <1>5

LEMMA StoredInit == Init => Stored
<1>1. SUFFICES ASSUME Init PROVE Stored
  OBVIOUS
<1>2. AbortAlone /\ DiscardsMisfits
  BY <1>1 DEF Init, UploadInit, AbortAlone, Aborting, Settled, CompletePC, DiscardsMisfits, NewRow
<1>3. RemovalsKnown /\ WorkStored
  BY <1>1 DEF Init, RemovalsKnown, Recorded, WorkStored, Idle, Process, HasConverted, HasOutput
<1>4. SourceKept /\ OutputKept
  BY <1>1 DEF Init, UploadInit, SourceKept, OutputKept, NewRow
<1>5. QED BY <1>2, <1>3, <1>4 DEF Stored

LEMMA StoredNext == IInv /\ Stored /\ [Next]_vars => Stored'
<1>1. SUFFICES ASSUME IInv, Stored, [Next]_vars PROVE Stored'
  OBVIOUS
<1>2. CASE UNCHANGED vars
  BY <1>1, <1>2 DEF vars, Stored, AbortAlone, Aborting, Settled, DiscardsMisfits, RemovalsKnown,
     Recorded, WorkStored, Direct, SourceKept, OutputKept, Kept
<1>3. CASE Next
  BY <1>1, <1>3, AbortStep, DiscardStep, RemovalStep, WorkStoredStep, SourceStep, OutputStep
     DEF Stored, IInv
<1>4. QED BY <1>1, <1>2, <1>3

\* A waiting or running job has something to convert and a finished one its
\* output, whichever workers, administrators and crashes are at work, until the
\* model is published or an administrator, or the owner of a borrowed source,
\* throws it away.
THEOREM NothingIsLost == Spec => []NothingLost
<1>1. IInv /\ Stored => NothingLost
  <2>1. SUFFICES ASSUME IInv, Stored, fits, files = 0 PROVE
          /\ row.stage \in {"QUEUED", "CONVERTING", "OPTIMIZING"} =>
               Kept("source") \/ Kept("converted")
          /\ row.stage \in Late => Kept("output")
    BY DEF NothingLost, Kept, Late
  <2>2. ~OwnsSource => Kept("source")
    BY <2>1 DEF IInv, SharedSafe, SourceThere, Kept
  <2>3. OwnsSource /\ row.stage \in {"QUEUED", "CONVERTING", "OPTIMIZING"} => upload = "done"
    BY <2>1 DEF IInv, NotYetWhole, EarlyRow
  <2>4. QED BY <2>1, <2>2, <2>3 DEF Stored, SourceKept, OutputKept, Late
<1>2. QED BY <1>1, Invariant, StoredInit, StoredNext, PTL DEF Spec

-----------------------------------------------------------------------------
(* The model at its published address.  Nobody has its key among those of    *)
(* the job's objects, which is what the worker, the tidying after a           *)
(* publication and a removal delete by.                                       *)

Harmless == \A p \in Process : "model" \notin proc[p].keys

\* A step moves one process, which keeps its keys or gets keys of the job.
LEMMA KeysOfJob ==
  ASSUME TypeOK
  PROVE  "model" \notin KeysOf(row) \cup OwnedKeys \cup ({row.conv} \ {NoKey})
  BY DEF TypeOK, UploadTypeOK, Row, KeysOf, OwnedKeys, NoKey

LEMMA JumpKeys ==
  ASSUME TypeOK, NEW p \in Process, NEW l, Jump(p, l) \/ Rest(p)
  PROVE  \A q \in Process : proc'[q].keys \in {proc[q].keys, {}}
<1>1. CASE Jump(p, l)
  <2>1. proc[p] \in Local
    BY DEF TypeOK
  <2>2. proc' = [proc EXCEPT ![p] = [proc[p] EXCEPT !.pc = l]]
    BY <1>1 DEF Jump
  <2> QED BY <2>1, <2>2 DEF TypeOK, Local
<1>2. CASE Rest(p)
  BY <1>2 DEF Rest, Idle, TypeOK
<1> QED BY <1>1, <1>2

LEMMA HarmlessStep == TypeOK /\ Harmless /\ [Next]_vars => Harmless'
<1> SUFFICES ASSUME TypeOK, Harmless, [Next]_vars
             PROVE  Harmless'
  OBVIOUS
<1>1. CASE proc' = proc
  BY <1>1 DEF Harmless
<1>2. ASSUME NEW p \in Process, NEW l, Jump(p, l) \/ Rest(p)
      PROVE  Harmless'
  BY <1>2, JumpKeys DEF Harmless
<1>3. ASSUME NEW w \in Worker, Work(w)
      PROVE  Harmless'
  <2>1. w \in Process
    BY DEF Process
  <2>2. CASE Claim(w)
    BY <2>1, <2>2, KeysOfJob DEF Claim, Idle, Harmless, TypeOK
  <2>3. CASE Fetch(w)
    <3>1. PICK b \in BOOLEAN :
            proc' = [proc EXCEPT ![w] = [proc[w] EXCEPT !.pc = "convert", !.reuse = b]]
      BY <2>3, Zenon DEF Fetch
    <3>2. proc[w] \in Local
      BY <2>1 DEF TypeOK
    <3> QED BY <2>1, <3>1, <3>2 DEF Harmless, TypeOK, Local
  <2>4. CASE FailRead(w)
    BY <1>2, <2>1, <2>4 DEF FailRead, Idle, Harmless, TypeOK
  <2>5. CASE Convert(w) \/ NoteConverted(w) \/ Optimize(w) \/ Done(w) \/ DeleteSource(w)
             \/ Unready(w) \/ Fails(w) \/ FailRow(w)
    BY <1>2, <2>1, <2>5 DEF Convert, NoteConverted, Optimize, Done, DeleteSource, Unready,
       Fails, FailRow, Update
  <2> QED BY <1>3, <2>2, <2>3, <2>4, <2>5 DEF Work
<1>4. ASSUME NEW p \in Process, Publish(p)
      PROVE  Harmless'
  <2>1. CASE PublishRead(p)
    <3>1. CASE proc' = [proc EXCEPT ![p].pc = "copy", ![p].keys = KeysOf(row)]
      <4>1. proc[p] \in Local /\ proc' = [proc EXCEPT ![p] = [proc[p] EXCEPT !.pc = "copy", !.keys = KeysOf(row)]]
        BY <3>1 DEF TypeOK
      <4> QED BY <4>1, KeysOfJob DEF Harmless, TypeOK, Local
    <3> QED BY <1>2, <2>1, <3>1 DEF PublishRead, PublishThrows
  <2>2. CASE Tidy(p)
    <3>1. PICK kept : proc' = [proc EXCEPT ![p].pc = "tidy.row", ![p].keys = Spare(p) \ kept]
      BY <2>2 DEF Tidy
    <3>2. /\ proc[p] \in Local /\ "model" \notin Spare(p)
          /\ proc' = [proc EXCEPT ![p] = [proc[p] EXCEPT !.pc = "tidy.row", !.keys = Spare(p) \ kept]]
      BY <3>1 DEF TypeOK, Spare, Harmless
    <3> QED BY <3>2 DEF Harmless, TypeOK, Local
  <2>3. CASE PublishClaim(p) \/ PublishCopy(p) \/ PublishCommit(p) \/ PublishUndo(p)
             \/ PublishUndoCopy(p) \/ TidyRow(p)
    BY <1>2, <2>3 DEF PublishClaim, PublishCopy, PublishCommit, PublishUndo, PublishUndoCopy,
       TidyRow, PublishThrows
  <2> QED BY <1>4, <2>1, <2>2, <2>3 DEF Publish
<1>5. ASSUME NEW a \in Admin, Ask(a) \/ Finish(a)
      PROVE  Harmless'
  <2>1. a \in Process
    BY DEF Process
  <2>2. CASE AskRemove(a)
    BY <2>1, <2>2, KeysOfJob DEF AskRemove, Idle, Harmless, TypeOK
  <2>3. CASE AskPublish(a) \/ AskRetry(a) \/ Finish(a)
    BY <1>2, <2>1, <2>3 DEF AskPublish, AskRetry, Finish, RetryRow, RemoveObjects, RemoveRow
  <2> QED BY <1>5, <2>2, <2>3 DEF Ask
<1>6. ASSUME NEW p \in Process, Crash(p)
      PROVE  Harmless'
  BY <1>2, <1>6 DEF Crash
<1>7. CASE (UploadNext /\ UNCHANGED workVars) \/ Overdue \/ SweepStale \/ OwnerDeletes
           \/ UNCHANGED vars
  BY <1>1, <1>7 DEF workVars, Overdue, SweepStale, OwnerDeletes, vars
<1> QED BY <1>3, <1>4, <1>5, <1>6, <1>7 DEF Next

\* What is at the published address leaves the storage in one way only.
ModelWithdrawn ==
  "model" \in store /\ "model" \notin store' =>
    \E p \in Process : PublishUndoCopy(p)

LEMMA WhoWithdraws == Harmless /\ [Next]_vars => [ModelWithdrawn]_vars
<1> SUFFICES ASSUME Harmless, Next, "model" \in store, "model" \notin store'
             PROVE  \E p \in Process : PublishUndoCopy(p)
  BY DEF ModelWithdrawn
<1>1. ~(UploadNext /\ UNCHANGED workVars)
  BY DEF UploadNext, Start, StartCreate, StartOpen, StartSave, StartUndo, StartFails, PutParts,
     SweepUpload, Lapse, CrashClient, Complete, CompleteRead, CompleteClaim, CompleteTakeover,
     CompleteReread, StorageCompletes, StorageRefuses, SizeKnown, SizeUnknown, DiscardObject,
     DiscardRow, CompleteQueue, Abort, AbortRead, AbortStorage, AbortRow, CrashCall
<1>2. ASSUME NEW w \in Worker PROVE ~Work(w)
  BY DEF Work, Claim, Fetch, Convert, NoteConverted, Optimize, Done, DeleteSource, Unready,
     Fails, FailRead, FailRow
<1>3. ASSUME NEW a \in Admin PROVE ~(Ask(a) \/ Finish(a))
  <2>1. "model" \notin proc[a].keys
    BY DEF Harmless, Process
  <2> QED BY <2>1 DEF Ask, Finish, AskPublish, AskRetry, AskRemove, RetryRow, RemoveObjects,
     RemoveRow
<1>4. ASSUME NEW p \in Process, Publish(p) PROVE PublishUndoCopy(p)
  <2>1. ~Tidy(p)
    BY DEF Tidy, Spare, Harmless
  <2> QED BY <1>4, <2>1 DEF Publish, PublishClaim, PublishRead, PublishCopy, PublishCommit,
     PublishUndo, TidyRow
<1>5. ~(Overdue \/ SweepStale \/ OwnerDeletes) /\ \A p \in Process : ~Crash(p)
  BY DEF Overdue, SweepStale, OwnerDeletes, Crash
<1> QED BY <1>1, <1>2, <1>3, <1>4, <1>5 DEF Next

\* Neither workers that run on after they lost the job, nor the tidying of
\* intermediates, nor a removal of the job deletes the model of a published file:
\* only the failure path of publish does, which is where PublishedKept fails.
THEOREM OnlyFailedPublishWithdraws == Spec => [][ModelWithdrawn]_vars
<1>1. Init => Harmless
  BY DEF Init, Idle, Harmless
<1>2. TypeOK /\ Harmless /\ [Next]_vars => Harmless' /\ [ModelWithdrawn]_vars
  BY HarmlessStep, WhoWithdraws
<1> QED
  BY <1>1, <1>2, TypeCorrect, PTL DEF Spec
=============================================================================
