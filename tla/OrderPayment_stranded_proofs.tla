------------------- MODULE OrderPayment_stranded_proofs --------------------
(* No captured money is left lying about, whatever customers, Razorpay, the  *)
(* crons and administrators do, cancel and retry included, as long as no     *)
(* process dies and no administrator cancels: a crash between the capture of *)
(* a late payment and the claim of its refund strands it, and an             *)
(* administrator's cancellation trusts a payment row read before its         *)
(* transaction.                                                              *)
EXTENDS OrderPayment_proofs

WithoutCrashOrAdminCancel == "crash" \notin Ops /\ "CANCELLED" \notin AdminTargets

Saving(r) == req[r].pc \in {"create.saveRead", "create.saveWrite"}

(* What a handler knows of the rows it is about to write.                    *)

SavesNew(r) ==
  Saving(r) => rzp[req[r].o] = "created" /\ attempt[req[r].o] = "NONE"
HandlesPaid(r) ==
  req[r].pc \in {"capture", "capture.commit", "admin.refund"} =>
    rzp[req[r].o] \in {"captured", "refunded"}
LateForGood(r) ==
  req[r].pc = "capture.commit" /\ req[r].saw # "PENDING_PAYMENT" => order # "PENDING_PAYMENT"
FailsUncaptured(r) ==
  req[r].pc = "fail.commit" /\ req[r].saw = "PENDING" =>
    payLock = r /\ ~Captured(req[r].o) /\ attempt[req[r].o] # "NONE"
HoldsOrder(r) ==
  /\ req[r].pc \in {"expire.commit", "admin.refund", "admin.commit"} => ordLock = r
  /\ req[r].pc = "expire.commit" => order = "PENDING_PAYMENT"
NeverCancels(r) == req[r].pc = "admin.tx" => req[r].to # "CANCELLED"
Knows(r) ==
  /\ SavesNew(r) /\ HandlesPaid(r) /\ LateForGood(r)
  /\ FailsUncaptured(r) /\ HoldsOrder(r) /\ NeverCancels(r)

\* Two handlers never save the same Razorpay order.
SavesApart ==
  \A r, s \in Req : r # s /\ Saving(r) /\ Saving(s) => req[r].o # req[s].o

AboutToClaim(o) == \E r \in Req : req[r].pc = "refund.claim" /\ req[r].o = o
Consistent(o) ==
  /\ rzp[o] = "captured" => attempt[o] # "NONE"
  /\ rzp[o] = "none" => attempt[o] = "NONE"
  /\ Captured(o) => /\ rzp[o] \in {"captured", "refunded"}
                    /\ attempt[o] \in {"CAPTURED", "REFUND_PENDING", "REFUNDED"}
                    /\ order # "PENDING_PAYMENT"
\* The payment row names a capture that backs no order only while the handler
\* that recorded it has not yet claimed its refund.
LateIsClaimed(o) ==
  Captured(o) /\ rzp[o] = "captured" /\ order \notin PaidStatuses =>
    attempt[o] = "REFUND_PENDING" \/ AboutToClaim(o)

StrandInv ==
  /\ \A r \in Req : Knows(r)
  /\ SavesApart
  /\ \A o \in RzpOrder : Consistent(o) /\ LateIsClaimed(o)

LEMMA StrandInit == Init => StrandInv
<1> SUFFICES ASSUME Init PROVE StrandInv
  OBVIOUS
<1>1. \A r \in Req : req[r].pc = "idle"
  BY DEF Init, Idle
<1>2. (\A r \in Req : Knows(r)) /\ SavesApart
  BY <1>1 DEF Knows, SavesNew, HandlesPaid, LateForGood, FailsUncaptured, HoldsOrder,
     NeverCancels, SavesApart, Saving
<1>3. \A o \in RzpOrder : Consistent(o) /\ LateIsClaimed(o)
  BY DEF Init, Consistent, LateIsClaimed, Captured
<1> QED BY <1>2, <1>3 DEF StrandInv

-----------------------------------------------------------------------------
(* Steps that record no capture.                                             *)

\* A capture in the payment row loses its attempt only to a refund, and the
\* handler that is to claim the refund claims it.
Tidy(r, o) ==
  /\ \/ rzp'[o] = rzp[o]
     \/ rzp[o] \in {"captured", "refunded"} /\ rzp'[o] = "refunded"
     \/ rzp[o] = "none" /\ rzp'[o] = "created"
  /\ \/ attempt'[o] = attempt[o]
     \/ /\ attempt'[o] # "NONE"
        /\ attempt[o] # "NONE" \/ (Saving(r) /\ req[r].o = o)
        /\ Captured(o) => \/ attempt'[o] = "REFUND_PENDING"
                          \/ attempt'[o] = "REFUNDED" /\ rzp[o] = "refunded"
  /\ req[r].pc = "refund.claim" /\ req[r].o = o /\ Captured(o) =>
       attempt'[o] = "REFUND_PENDING" \/ rzp[o] # "captured"

Orderly(r) ==
  /\ Others(r)
  /\ payment'.status = "CAPTURED" => payment' = payment /\ (order' = order \/ order' \in PaidStatuses)
  /\ order' = order \/ (ordLock \in {Nobody, r} /\ order' # "PENDING_PAYMENT")
  /\ Saving(r)' => (Saving(r) /\ req'[r].o = req[r].o) \/ rzp[req'[r].o] # "created"
  /\ \A o \in RzpOrder : Tidy(r, o)

LEMMA OrderlyKeeps ==
  ASSUME TypeInv, ConfirmInv, StrandInv, NEW r \in Req, Orderly(r), Knows(r)'
  PROVE  StrandInv'
<1>1. ASSUME NEW s \in Req, s # r
      PROVE  Knows(s)'
  <2>1. /\ Knows(s) /\ req'[s] = req[s]
        /\ (payLock = s => payLock' = s) /\ (ordLock = s => ordLock' = s)
    BY <1>1 DEF StrandInv, Orderly, Others
  <2>2. SavesNew(s)'
    <3> SUFFICES ASSUME Saving(s) PROVE rzp'[req[s].o] = "created" /\ attempt'[req[s].o] = "NONE"
      BY <2>1 DEF SavesNew, Saving
    <3>1. req[s].o \in RzpOrder /\ rzp[req[s].o] = "created" /\ attempt[req[s].o] = "NONE"
      BY <2>1, LocalsType DEF Saving, OrderPC, Knows, SavesNew
    <3>2. Tidy(r, req[s].o)
      BY <3>1 DEF Orderly
    <3>3. ~(Saving(r) /\ req[r].o = req[s].o)
      BY <1>1 DEF StrandInv, SavesApart
    <3> QED BY <3>1, <3>2, <3>3 DEF Tidy
  <2>3. HandlesPaid(s)'
    <3> SUFFICES ASSUME req[s].pc \in {"capture", "capture.commit", "admin.refund"}
                 PROVE  rzp'[req[s].o] \in {"captured", "refunded"}
      BY <2>1 DEF HandlesPaid
    <3>1. req[s].o \in RzpOrder /\ rzp[req[s].o] \in {"captured", "refunded"}
      BY <2>1, LocalsType DEF OrderPC, Knows, HandlesPaid
    <3>2. Tidy(r, req[s].o)
      BY <3>1 DEF Orderly
    <3> QED BY <3>1, <3>2 DEF Tidy
  <2>4. LateForGood(s)' /\ NeverCancels(s)'
    BY <2>1 DEF Knows, LateForGood, NeverCancels, Orderly
  <2>5. FailsUncaptured(s)'
    <3>1. ASSUME req[s].pc = "fail.commit"
          PROVE  attempt[req[s].o] # "NONE" => attempt'[req[s].o] # "NONE"
      BY <2>1, <3>1, LocalsType DEF OrderPC, Orderly, Tidy
    <3> QED BY <2>1, <3>1 DEF Knows, FailsUncaptured, Captured, Orderly
  <2>6. HoldsOrder(s)'
    BY <1>1, <2>1, ReqAssumption DEF Knows, HoldsOrder, Orderly
  <2> QED BY <2>2, <2>3, <2>4, <2>5, <2>6 DEF Knows
<1>2. SavesApart'
  <2> SUFFICES ASSUME NEW s \in Req, s # r, Saving(r)', Saving(s)' PROVE req'[r].o # req'[s].o
    BY DEF SavesApart, StrandInv, Orderly, Others, Saving
  <2>1. req'[s] = req[s] /\ Saving(s)
    BY DEF Orderly, Others, Saving
  <2>2. rzp[req[s].o] = "created"
    BY <2>1 DEF StrandInv, Knows, SavesNew
  <2>3. CASE Saving(r) /\ req'[r].o = req[r].o
    BY <2>1, <2>3 DEF StrandInv, SavesApart
  <2>4. CASE rzp[req'[r].o] # "created"
    BY <2>1, <2>2, <2>4
  <2> QED BY <2>3, <2>4 DEF Orderly
<1>3. ASSUME NEW o \in RzpOrder
      PROVE  Consistent(o)' /\ LateIsClaimed(o)'
  <2>1. Tidy(r, o) /\ Consistent(o) /\ LateIsClaimed(o)
    BY <1>3 DEF Orderly, StrandInv
  <2>2. Captured(o)' => Captured(o) /\ (order' = order \/ order' \in PaidStatuses)
    BY DEF Orderly, Captured
  <2>3. Consistent(o)'
    <3>1. Saving(r) /\ req[r].o = o => rzp[o] = "created"
      BY DEF StrandInv, Knows, SavesNew
    <3> QED BY <2>1, <2>2, <3>1 DEF Tidy, Consistent, PaidStatuses
  <2>4. LateIsClaimed(o)'
    <3> SUFFICES ASSUME Captured(o)', rzp'[o] = "captured", order' \notin PaidStatuses
                 PROVE  attempt'[o] = "REFUND_PENDING" \/ AboutToClaim(o)'
      BY DEF LateIsClaimed
    <3>1. Captured(o) /\ order' = order /\ rzp[o] = "captured"
      BY <2>1, <2>2 DEF Tidy
    <3>2. CASE attempt[o] = "REFUND_PENDING"
      BY <2>1, <3>1, <3>2 DEF Tidy
    <3>3. CASE AboutToClaim(o)
      <4>1. PICK s \in Req : req[s].pc = "refund.claim" /\ req[s].o = o
        BY <3>3 DEF AboutToClaim
      <4>2. CASE s = r
        BY <2>1, <3>1, <4>1, <4>2 DEF Tidy
      <4>3. CASE s # r
        BY <4>1, <4>3 DEF AboutToClaim, Orderly, Others
      <4> QED BY <4>2, <4>3
    <3> QED BY <2>1, <3>1, <3>2, <3>3 DEF LateIsClaimed
  <2> QED BY <2>3, <2>4
<1> QED BY <1>1, <1>2, <1>3 DEF StrandInv

\* Most steps write neither an attempt nor at Razorpay, and their handler then
\* relies on nothing.
Relying == {"create.saveRead", "create.saveWrite", "capture", "capture.commit",
            "fail.commit", "expire.commit", "admin.tx", "admin.refund", "admin.commit"}
Plain(r) ==
  /\ Others(r) /\ UNCHANGED <<attempt, rzp>>
  /\ payment' = payment \/ payment'.status # "CAPTURED"
  /\ \/ order' = order
     \/ /\ ordLock \in {Nobody, r} /\ order' # "PENDING_PAYMENT"
        /\ payment'.status # "CAPTURED"
  /\ req[r].pc # "refund.claim" /\ req'[r].pc \notin Relying

LEMMA PlainKeeps ==
  ASSUME TypeInv, ConfirmInv, StrandInv, NEW r \in Req, Plain(r)
  PROVE  StrandInv'
<1>1. Orderly(r)
  BY DEF Plain, Orderly, Tidy, Relying, Saving
<1>2. Knows(r)'
  BY DEF Plain, Relying, Saving, Knows, SavesNew, HandlesPaid, LateForGood, FailsUncaptured,
     HoldsOrder, NeverCancels
<1> QED BY <1>1, <1>2, OrderlyKeeps

\* The payment row of an order that waits for payment holds no capture.
LEMMA PendingIsUncaptured ==
  ASSUME TypeInv, StrandInv, order = "PENDING_PAYMENT"
  PROVE  payment.status # "CAPTURED"
BY DEF TypeInv, StrandInv, Consistent, Captured
-----------------------------------------------------------------------------
(* Order creation, verify and the webhooks                                   *)

LEMMA CreateStrand ==
  ASSUME TypeInv, ConfirmInv, StrandInv, NEW r \in Req, Create(r)
  PROVE  StrandInv'
<1> USE DoneFrame, GotoFrame, StartFrame, TakeFrame
    DEF Others, Idle, GotoOrDone, db, locks, external, At
<1>0. /\ payment \in [status : PaymentStatus, oid : RzpOrder \cup {NoId}, pid : PayId]
      /\ attempt \in [RzpOrder -> AttemptStatus] /\ rzp \in [RzpOrder -> RzpStatus]
      /\ Saving(r) => req[r].o \in RzpOrder
      /\ Knows(r)
  BY LocalsType DEF TypeInv, TypeOK, StrandInv, Saving, OrderPC
<1>1. CASE \/ CreateStart(r) \/ CreateRead(r) \/ CreateClaim(r)
           \/ CreateCallFails(r) \/ CreateRelease(r)
  <2>1. Plain(r)
    BY <1>0, <1>1 DEF CreateStart, CreateRead, CreateClaim, CreateCallFails, CreateRelease,
       EndCreating, Plain, Relying, Invoke
  <2> QED BY <2>1, PlainKeeps
<1>2. CASE CreateCall(r)
  <2>1. PICK o \in RzpOrder : /\ rzp[o] = "none" /\ rzp' = [rzp EXCEPT ![o] = "created"]
                              /\ Take(r, "create.saveRead", o)
    BY <1>2 DEF CreateCall
  <2>2. /\ req'[r].pc = "create.saveRead" /\ req'[r].o = o /\ req[r].pc = "create.call"
        /\ \A s \in Req \ {r} : req'[s] = req[s]
        /\ UNCHANGED <<order, payment, attempt, payLock, ordLock>>
    BY <1>2, <2>1 DEF CreateCall
  <2>3. attempt[o] = "NONE"
    BY <2>1 DEF StrandInv, Consistent
  <2>4. Orderly(r)
    BY <1>0, <2>1, <2>2 DEF Orderly, Tidy, Saving
  <2>5. Knows(r)'
    BY <1>0, <2>1, <2>2, <2>3 DEF Saving, Knows, SavesNew, HandlesPaid, LateForGood,
       FailsUncaptured, HoldsOrder, NeverCancels
  <2> QED BY <2>4, <2>5, OrderlyKeeps
<1>3. CASE CreateSaveRead(r)
  <2>1. /\ req'[r].pc \in {"create.saveWrite", "create.release"} /\ req'[r].o = req[r].o
        /\ Saving(r) /\ Others(r)
        /\ UNCHANGED <<order, payment, attempt, rzp>>
    BY <1>3 DEF CreateSaveRead, Saving
  <2>2. Orderly(r)
    BY <2>1 DEF Orderly, Tidy, Saving
  <2>3. Knows(r)'
    BY <1>0, <2>1 DEF Saving, Knows, SavesNew, HandlesPaid, LateForGood,
       FailsUncaptured, HoldsOrder, NeverCancels
  <2> QED BY <2>2, <2>3, OrderlyKeeps
<1>4. CASE CreateSaveWrite(r)
  <2>1. /\ req'[r].pc \notin Relying /\ Others(r) /\ Saving(r) /\ req[r].pc # "refund.claim"
        /\ UNCHANGED <<order, rzp>>
        /\ payment' = payment \/ payment'.status = "PENDING"
        /\ attempt' = attempt \/ attempt' = [attempt EXCEPT ![req[r].o] = "PENDING"]
    BY <1>4 DEF CreateSaveWrite, Attempt, Saving, Relying
  <2>2. \A o \in RzpOrder : Tidy(r, o)
    BY <1>0, <2>1 DEF Tidy, StrandInv, Consistent, Knows, SavesNew
  <2>3. Orderly(r)
    BY <2>1, <2>2 DEF Orderly, Relying, Saving
  <2>4. Knows(r)'
    BY <2>1 DEF Relying, Saving, Knows, SavesNew, HandlesPaid, LateForGood,
       FailsUncaptured, HoldsOrder, NeverCancels
  <2> QED BY <2>3, <2>4, OrderlyKeeps
<1> QED BY <1>1, <1>2, <1>3, <1>4 DEF Create
LEMMA NotifyStrand ==
  ASSUME TypeInv, ConfirmInv, StrandInv, NEW r \in Req, Notify(r)
  PROVE  StrandInv'
<1> USE ReqAssumption, DoneFrame, GotoFrame, StartFrame
    DEF Others, Idle, GotoOrDone, db, locks, external, At, Writable, ReleaseAll, Release
<1>0. /\ payment \in [status : PaymentStatus, oid : RzpOrder \cup {NoId}, pid : PayId]
      /\ attempt \in [RzpOrder -> AttemptStatus]
      /\ req[r] \in Local /\ req \in [Req -> Local]
      /\ Knows(r)
  BY DEF TypeInv, TypeOK, StrandInv
<1>1. CASE VerifyStart(r) \/ FailStart(r)
  <2>1. Plain(r)
    BY <1>1 DEF VerifyStart, FailStart, Plain, Relying, Invoke
  <2> QED BY <2>1, PlainKeeps
<1>2. CASE VerifyFetch(r)
  <2>1. /\ req'[r].pc \in {"capture", "idle"} /\ req'[r].o \in {req[r].o, NoId} /\ Others(r)
        /\ req'[r].pc = "capture" => rzp[req'[r].o] = "captured"
        /\ req[r].pc = "verify.fetch"
        /\ UNCHANGED <<order, payment, attempt, rzp>>
    BY <1>2 DEF VerifyFetch
  <2>2. Orderly(r)
    BY <2>1 DEF Orderly, Tidy, Saving
  <2>3. Knows(r)'
    BY <2>1 DEF Saving, Knows, SavesNew, HandlesPaid, LateForGood, FailsUncaptured,
       HoldsOrder, NeverCancels
  <2> QED BY <2>2, <2>3, OrderlyKeeps
<1>3. CASE HookStart(r)
  <2>1. /\ req'[r].pc = "capture" /\ rzp[req'[r].o] \in {"captured", "refunded"} /\ Others(r)
        /\ req[r].pc = "idle"
        /\ UNCHANGED <<order, payment, attempt, rzp>>
    BY <1>3 DEF HookStart, Invoke
  <2>2. Orderly(r)
    BY <2>1 DEF Orderly, Tidy, Saving
  <2>3. Knows(r)'
    BY <2>1 DEF Saving, Knows, SavesNew, HandlesPaid, LateForGood, FailsUncaptured,
       HoldsOrder, NeverCancels
  <2> QED BY <2>2, <2>3, OrderlyKeeps
<1>4. CASE FailLock(r)
  <2>1. /\ req'[r].pc = "fail.commit" /\ req'[r].saw = attempt[req[r].o]
        /\ req'[r].o = req[r].o /\ Others(r) /\ payLock' = r /\ req[r].pc = "fail.lock"
        /\ UNCHANGED <<order, payment, attempt, rzp>>
    BY <1>4, RememberFrame DEF FailLock
  <2>2. req[r].o \in RzpOrder
    BY <2>1, LocalsType DEF OrderPC
  <2>3. attempt[req[r].o] = "PENDING" => ~Captured(req[r].o)
    BY <2>2 DEF StrandInv, Consistent
  <2>4. Orderly(r)
    BY <2>1 DEF Orderly, Tidy, Saving
  <2>5. Knows(r)'
    BY <2>1, <2>3 DEF Saving, Knows, SavesNew, HandlesPaid, LateForGood, FailsUncaptured,
       HoldsOrder, NeverCancels, Captured
  <2> QED BY <2>4, <2>5, OrderlyKeeps
<1>5. CASE FailCommit(r)
  <2>1. /\ req'[r] = Idle /\ Others(r) /\ req[r].pc = "fail.commit"
        /\ UNCHANGED <<order, rzp>>
        /\ payment' = payment \/ payment'.status = "FAILED"
        /\ attempt' = IF req[r].saw = "PENDING"
                      THEN [attempt EXCEPT ![req[r].o] = "FAILED"] ELSE attempt
    BY <1>0, <1>5 DEF FailCommit
  <2>2. /\ req[r].saw = "PENDING" => ~Captured(req[r].o)
        /\ req[r].o \in RzpOrder
        /\ req[r].saw = "PENDING" => attempt[req[r].o] # "NONE"
    BY <1>0, <2>1, LocalsType DEF Knows, FailsUncaptured, OrderPC
  <2>3. \A o \in RzpOrder : Tidy(r, o)
    BY <1>0, <2>1, <2>2 DEF Tidy
  <2>4. Orderly(r)
    BY <2>1, <2>3 DEF Orderly, Saving
  <2>5. Knows(r)'
    BY <2>1 DEF Saving, Knows, SavesNew, HandlesPaid, LateForGood, FailsUncaptured,
       HoldsOrder, NeverCancels
  <2> QED BY <2>4, <2>5, OrderlyKeeps
<1> QED BY <1>1, <1>2, <1>3, <1>4, <1>5 DEF Notify
-----------------------------------------------------------------------------
(* Cancel and retry                                                          *)

\* A look at Razorpay leads to applyCapturedPayment only with a capture.
Looks(r) ==
  /\ Others(r) /\ UNCHANGED <<order, payment, attempt, rzp>>
  /\ req[r].pc # "refund.claim"
  /\ \/ req'[r].pc = "capture" /\ rzp[req'[r].o] = "captured"
     \/ req'[r].pc \notin Relying

LEMMA LooksKeeps ==
  ASSUME TypeInv, ConfirmInv, StrandInv, NEW r \in Req, Looks(r)
  PROVE  StrandInv'
<1>1. Orderly(r)
  BY DEF Looks, Orderly, Tidy, Relying, Saving
<1>2. Knows(r)'
  BY DEF Looks, Relying, Saving, Knows, SavesNew, HandlesPaid, LateForGood, FailsUncaptured,
     HoldsOrder, NeverCancels
<1> QED BY <1>1, <1>2, OrderlyKeeps

LEMMA CustomerStrand ==
  ASSUME TypeInv, ConfirmInv, StrandInv, NEW r \in Req, Cancel(r) \/ Retry(r)
  PROVE  StrandInv'
<1> USE DoneFrame, GotoFrame, StartFrame
    DEF Others, Idle, GotoOrDone, db, locks, external, At, Writable, Invoke
<1>0. /\ payment \in [status : PaymentStatus, oid : RzpOrder \cup {NoId}, pid : PayId]
      /\ attempt \in [RzpOrder -> AttemptStatus]
  BY DEF TypeInv, TypeOK
<1>1. CASE CancelStart(r) \/ CancelRead(r) \/ RetryStart(r)
  <2>1. Plain(r)
    BY <1>1 DEF CancelStart, CancelRead, RetryStart, Plain, Relying
  <2> QED BY <2>1, PlainKeeps
<1>2. CASE CancelFetch(r)
  <2>1. Looks(r)
    BY <1>2 DEF CancelFetch, Fetched, Looks, Relying
  <2> QED BY <2>1, LooksKeeps
<1>3. CASE CancelWrite(r)
  <2>1. Plain(r)
    BY <1>0, <1>3 DEF CancelWrite, Plain, Relying
  <2> QED BY <2>1, PlainKeeps
<1>4. CASE CancelFinal(r)
  <2>1. Plain(r)
    BY <1>4, PendingIsUncaptured DEF CancelFinal, Plain, Relying
  <2> QED BY <2>1, PlainKeeps
<1>5. CASE RetryWrite(r)
  <2>1. /\ req'[r].pc \notin Relying /\ Others(r) /\ req[r].pc = "retry.write"
        /\ UNCHANGED <<order, rzp>> /\ payment'.status = "PENDING"
        /\ \A o \in RzpOrder : attempt'[o] = IF attempt[o] = "PENDING" THEN "FAILED" ELSE attempt[o]
    BY <1>5 DEF RetryWrite, Relying
  <2>2. \A o \in RzpOrder : Tidy(r, o)
    BY <2>1 DEF StrandInv, Consistent, Tidy
  <2>3. Orderly(r)
    BY <2>1, <2>2 DEF Orderly, Saving, Relying
  <2>4. Knows(r)'
    BY <2>1 DEF Relying, Saving, Knows, SavesNew, HandlesPaid, LateForGood,
       FailsUncaptured, HoldsOrder, NeverCancels
  <2> QED BY <2>3, <2>4, OrderlyKeeps
<1> QED BY <1>1, <1>2, <1>3, <1>4, <1>5 DEF Cancel, Retry

-----------------------------------------------------------------------------
(* Captures.  Only these two steps write CAPTURED, under the Payment lock.   *)

Records(r) ==
  /\ Others(r) /\ UNCHANGED rzp
  /\ req[r].pc = "capture.commit" /\ req'[r].pc \notin Relying
  /\ payment' = [status |-> "CAPTURED", oid |-> req[r].o, pid |-> req[r].o]
  /\ attempt' = [attempt EXCEPT ![req[r].o] = "CAPTURED"]
  /\ order' # "PENDING_PAYMENT"
  /\ \/ order' = order /\ req'[r].pc = "refund.claim" /\ req'[r].o = req[r].o
     \/ order' \in PaidStatuses /\ ordLock \in {Nobody, r}

LEMMA RecordsKeeps ==
  ASSUME TypeInv, ConfirmInv, StrandInv, NEW r \in Req, Records(r)
  PROVE  StrandInv'
<1>0. /\ payLock = r /\ req[r].o \in RzpOrder /\ attempt \in [RzpOrder -> AttemptStatus]
      /\ rzp[req[r].o] \in {"captured", "refunded"}
  BY LocalsType DEF Records, ConfirmInv, OrderPC, StrandInv, Knows, HandlesPaid, TypeInv, TypeOK
<1>1. ASSUME NEW s \in Req, s # r
      PROVE  Knows(s)'
  <2>1. Knows(s) /\ req'[s] = req[s] /\ (ordLock = s => ordLock' = s)
    BY <1>1 DEF StrandInv, Records, Others
  <2>2. SavesNew(s)' /\ HandlesPaid(s)'
    BY <1>0, <2>1, LocalsType DEF Knows, SavesNew, HandlesPaid, Saving, Records, OrderPC
  <2>3. LateForGood(s)' /\ NeverCancels(s)'
    BY <2>1 DEF Knows, LateForGood, NeverCancels, Records
  <2>4. FailsUncaptured(s)'
    BY <1>0, <1>1, <2>1 DEF Knows, FailsUncaptured
  <2>5. HoldsOrder(s)'
    BY <1>1, <2>1, ReqAssumption DEF Knows, HoldsOrder, Records
  <2> QED BY <2>2, <2>3, <2>4, <2>5 DEF Knows
<1>2. Knows(r)'
  BY DEF Records, Relying, Saving, Knows, SavesNew, HandlesPaid, LateForGood,
     FailsUncaptured, HoldsOrder, NeverCancels
<1>3. SavesApart'
  BY DEF StrandInv, SavesApart, Records, Others, Saving, Relying
<1>4. ASSUME NEW o \in RzpOrder
      PROVE  Consistent(o)' /\ LateIsClaimed(o)'
  <2>1. Captured(o)' => o = req[r].o
    BY DEF Records, Captured
  <2>2. attempt'[o] = IF o = req[r].o THEN "CAPTURED" ELSE attempt[o]
    BY <1>0 DEF Records
  <2>3. Consistent(o)'
    BY <1>0, <2>1, <2>2 DEF StrandInv, Consistent, Records
  <2>4. LateIsClaimed(o)'
    <3>1. CASE order' = order /\ req'[r].pc = "refund.claim" /\ req'[r].o = req[r].o
      BY <2>1, <3>1 DEF LateIsClaimed, AboutToClaim
    <3>2. CASE order' \in PaidStatuses
      BY <3>2 DEF LateIsClaimed
    <3> QED BY <3>1, <3>2 DEF Records
  <2> QED BY <2>3, <2>4
<1> QED BY <1>1, <1>2, <1>3, <1>4 DEF StrandInv

LEMMA CaptureStrand ==
  ASSUME TypeInv, ConfirmInv, StrandInv, NEW r \in Req, Capture(r)
  PROVE  StrandInv'
<1> USE ReqAssumption, DoneFrame, GotoFrame, RememberFrame
    DEF Others, Idle, db, locks, external, At, Writable, ReleaseAll, Release
<1>0. Knows(r) /\ req[r] \in Local /\ req \in [Req -> Local]
  BY DEF StrandInv, TypeInv, TypeOK
<1>1. CASE CaptureNothing(r)
  <2>1. Plain(r)
    BY <1>1 DEF CaptureNothing, Plain, Relying
  <2> QED BY <2>1, PlainKeeps
<1>2. CASE CaptureDuplicate(r)
  <2>1. Plain(r)
    BY <1>0, <1>2 DEF CaptureDuplicate, Plain, Relying, Local
  <2> QED BY <2>1, PlainKeeps
<1>3. CASE CaptureBegin(r)
  <2>1. /\ req'[r].pc = "capture.commit" /\ req'[r].saw = order /\ req'[r].o = req[r].o
        /\ Others(r) /\ UNCHANGED <<order, payment, attempt, rzp>> /\ req[r].pc = "capture"
    BY <1>3 DEF CaptureBegin
  <2>2. Orderly(r)
    BY <2>1 DEF Orderly, Tidy, Saving
  <2>3. Knows(r)'
    BY <1>0, <2>1 DEF Saving, Knows, SavesNew, HandlesPaid, LateForGood, FailsUncaptured,
       HoldsOrder, NeverCancels
  <2> QED BY <2>2, <2>3, OrderlyKeeps
<1>4. CASE CaptureLate(r)
  <2>1. Records(r)
    BY <1>0, <1>4 DEF CaptureLate, RecordCapture, Attempt, Records, Relying, Knows, LateForGood
  <2> QED BY <2>1, RecordsKeeps
<1>5. CASE CaptureConfirm(r)
  <2>1. Records(r)
    BY <1>5 DEF CaptureConfirm, RecordCapture, Attempt, Records, Relying, PaidStatuses
  <2> QED BY <2>1, RecordsKeeps
<1> QED BY <1>1, <1>2, <1>3, <1>4, <1>5 DEF Capture
-----------------------------------------------------------------------------
(* Refunds                                                                   *)

LEMMA RefundStrand ==
  ASSUME TypeInv, ConfirmInv, RefundInv, StrandInv, NEW r \in Req, Refund(r)
  PROVE  StrandInv'
<1> USE DoneFrame, GotoFrame DEF Others, Idle, db, locks, external, At, Writable, GotoOrDone
<1>0. /\ payment \in [status : PaymentStatus, oid : RzpOrder \cup {NoId}, pid : PayId]
      /\ attempt \in [RzpOrder -> AttemptStatus] /\ rzp \in [RzpOrder -> RzpStatus]
  BY DEF TypeInv, TypeOK
<1>1. CASE RefundClaim(r)
  <2>1. /\ req'[r].pc \notin Relying /\ Others(r) /\ req[r].pc = "refund.claim"
        /\ UNCHANGED <<order, payment, rzp>> /\ req[r].o \in RzpOrder
        /\ attempt' = IF attempt[req[r].o] \in Claimable
                      THEN [attempt EXCEPT ![req[r].o] = "REFUND_PENDING"] ELSE attempt
    BY <1>1, LocalsType DEF RefundClaim, Relying, OrderPC
  <2>2. \A o \in RzpOrder : Tidy(r, o)
    <3> SUFFICES ASSUME NEW o \in RzpOrder PROVE Tidy(r, o)
      OBVIOUS
    <3>1. Captured(o) => attempt[o] \in {"CAPTURED", "REFUND_PENDING", "REFUNDED"}
      BY DEF StrandInv, Consistent
    <3>2. attempt[o] = "REFUNDED" => rzp[o] = "refunded"
      BY DEF RefundInv, RefundsAreReal
    <3> QED BY <1>0, <2>1, <3>1, <3>2 DEF Tidy, Claimable
  <2>3. Orderly(r)
    BY <2>1, <2>2 DEF Orderly, Saving, Relying
  <2>4. Knows(r)'
    BY <2>1 DEF Relying, Saving, Knows, SavesNew, HandlesPaid, LateForGood,
       FailsUncaptured, HoldsOrder, NeverCancels
  <2> QED BY <2>3, <2>4, OrderlyKeeps
<1>2. CASE RefundCall(r)
  <2>1. /\ req'[r].pc \notin Relying /\ Others(r) /\ req[r].pc = "refund.call"
        /\ UNCHANGED <<order, payment, attempt>>
        /\ \A o \in RzpOrder : Tidy(r, o)
    BY <1>0, <1>2 DEF RefundCall, Relying, Tidy
  <2>2. Orderly(r)
    BY <2>1 DEF Orderly, Saving, Relying
  <2>3. Knows(r)'
    BY <2>1 DEF Relying, Saving, Knows, SavesNew, HandlesPaid, LateForGood,
       FailsUncaptured, HoldsOrder, NeverCancels
  <2> QED BY <2>2, <2>3, OrderlyKeeps
<1>3. CASE RefundCallFails(r)
  <2>1. Plain(r)
    BY <1>3 DEF RefundCallFails, Plain, Relying
  <2> QED BY <2>1, PlainKeeps
<1>4. CASE RefundMark(r)
  <2>1. /\ req'[r].pc \notin Relying /\ Others(r) /\ req[r].pc = "refund.mark"
        /\ UNCHANGED <<order, payment, rzp>> /\ rzp[req[r].o] = "refunded"
        /\ attempt' = IF attempt[req[r].o] = "REFUND_PENDING"
                      THEN [attempt EXCEPT ![req[r].o] = "REFUNDED"] ELSE attempt
    BY <1>4 DEF RefundMark, Relying, RefundInv
  <2>2. \A o \in RzpOrder : Tidy(r, o)
    BY <1>0, <2>1 DEF Tidy
  <2>3. Orderly(r)
    BY <2>1, <2>2 DEF Orderly, Saving, Relying
  <2>4. Knows(r)'
    BY <2>1 DEF Relying, Saving, Knows, SavesNew, HandlesPaid, LateForGood,
       FailsUncaptured, HoldsOrder, NeverCancels
  <2> QED BY <2>3, <2>4, OrderlyKeeps
<1>5. CASE RefundPay(r)
  <2>1. Plain(r)
    BY <1>0, <1>5 DEF RefundPay, Plain, Relying
  <2> QED BY <2>1, PlainKeeps
<1> QED BY <1>1, <1>2, <1>3, <1>4, <1>5 DEF Refund

-----------------------------------------------------------------------------
(* The cron and the administrator                                            *)

LEMMA CronStrand ==
  ASSUME TypeInv, ConfirmInv, StrandInv, NEW r \in Req, Cron(r)
  PROVE  StrandInv'
<1> USE ReqAssumption, DoneFrame, GotoFrame, StartFrame
    DEF Others, Idle, db, locks, external, At, Writable, GotoOrDone, Invoke
<1>0. /\ payment \in [status : PaymentStatus, oid : RzpOrder \cup {NoId}, pid : PayId]
      /\ attempt \in [RzpOrder -> AttemptStatus] /\ rzp \in [RzpOrder -> RzpStatus]
      /\ Knows(r) /\ req \in [Req -> Local]
  BY DEF TypeInv, TypeOK, StrandInv
<1>1. CASE ExpireStart(r)
  <2>1. Plain(r)
    BY <1>1 DEF ExpireStart, Plain, Relying
  <2> QED BY <2>1, PlainKeeps
<1>2. CASE ExpireFetch(r)
  <2>1. Looks(r)
    BY <1>2 DEF ExpireFetch, Fetched, Looks, Relying
  <2> QED BY <2>1, LooksKeeps
<1>3. CASE ExpireLock(r)
  <2>1. /\ Others(r) /\ req[r].pc = "expire.lock"
        /\ UNCHANGED <<order, payment, attempt, rzp>>
        /\ \/ req'[r].pc \notin Relying
           \/ req'[r].pc = "expire.commit" /\ ordLock' = r /\ order = "PENDING_PAYMENT"
    BY <1>3, RememberFrame DEF ExpireLock, StillPending, Relying
  <2>2. Orderly(r)
    BY <2>1 DEF Orderly, Tidy, Saving, Relying
  <2>3. Knows(r)'
    BY <2>1 DEF Relying, Saving, Knows, SavesNew, HandlesPaid, LateForGood,
       FailsUncaptured, HoldsOrder, NeverCancels
  <2> QED BY <2>2, <2>3, OrderlyKeeps
<1>4. CASE ExpireCommit(r)
  <2>1. ordLock = r /\ payment.status # "CAPTURED"
    BY <1>0, <1>4, PendingIsUncaptured DEF ExpireCommit, Knows, HoldsOrder
  <2>2. Plain(r)
    BY <1>0, <1>4, <2>1 DEF ExpireCommit, ReleaseAll, Release, Plain, Relying
  <2> QED BY <2>2, PlainKeeps
<1>5. CASE RecoverStart(r)
  <2>1. PICK o \in RzpOrder :
          req' = [req EXCEPT ![r] = [Idle EXCEPT !.pc = "recover.fetch",
                    !.op = "recover", !.o = o, !.dup = payment.pid # o]]
    BY <1>5 DEF RecoverStart
  <2>2. req'[r].pc = "recover.fetch" /\ \A s \in Req \ {r} : req'[s] = req[s]
    BY <1>0, <2>1
  <2>3. Plain(r)
    BY <1>5, <2>2 DEF RecoverStart, Plain, Relying
  <2> QED BY <2>3, PlainKeeps
<1>6. CASE RecoverFetch(r)
  <2>1. /\ req'[r].pc \notin Relying /\ Others(r) /\ req[r].pc = "recover.fetch"
        /\ UNCHANGED <<order, payment, rzp>>
        /\ attempt' = IF Settled(req[r].o) THEN [attempt EXCEPT ![req[r].o] = "REFUNDED"]
                      ELSE attempt
    BY <1>6 DEF RecoverFetch, Relying
  <2>2. \A o \in RzpOrder : Tidy(r, o)
    BY <1>0, <2>1 DEF Tidy, Settled
  <2>3. Orderly(r)
    BY <2>1, <2>2 DEF Orderly, Saving, Relying
  <2>4. Knows(r)'
    BY <2>1 DEF Relying, Saving, Knows, SavesNew, HandlesPaid, LateForGood,
       FailsUncaptured, HoldsOrder, NeverCancels
  <2> QED BY <2>3, <2>4, OrderlyKeeps
<1>7. CASE RecoverPay(r)
  <2>1. Plain(r)
    BY <1>0, <1>7 DEF RecoverPay, Plain, Relying
  <2> QED BY <2>1, PlainKeeps
<1> QED BY <1>1, <1>2, <1>3, <1>4, <1>5, <1>6, <1>7 DEF Cron

LEMMA AdminStrand ==
  ASSUME WithoutCrashOrAdminCancel,
         TypeInv, ConfirmInv, StrandInv, NEW r \in Req, Admin(r)
  PROVE  StrandInv'
<1> USE ReqAssumption, DoneFrame, GotoFrame
    DEF Others, Idle, db, locks, external, At, Writable, Invoke, ReleaseAll, Release
<1>0. /\ payment \in [status : PaymentStatus, oid : RzpOrder \cup {NoId}, pid : PayId]
      /\ attempt \in [RzpOrder -> AttemptStatus] /\ rzp \in [RzpOrder -> RzpStatus]
      /\ Knows(r) /\ req \in [Req -> Local]
  BY DEF TypeInv, TypeOK, StrandInv
<1>1. CASE AdminStart(r)
  <2>1. PICK to \in AdminTargets :
          req' = [req EXCEPT ![r] = [Idle EXCEPT !.pc = "admin.tx", !.op = "admin",
                                        !.saw = order, !.to = to]]
    BY <1>1 DEF AdminStart
  <2>2. /\ req'[r].pc = "admin.tx" /\ req'[r].to = to /\ to # "CANCELLED"
        /\ \A s \in Req \ {r} : req'[s] = req[s]
    BY <1>0, <2>1 DEF WithoutCrashOrAdminCancel
  <2>3. /\ Others(r) /\ req[r].pc = "idle" /\ UNCHANGED <<order, payment, attempt, rzp>>
    BY <1>1, <2>2 DEF AdminStart
  <2>4. Orderly(r)
    BY <2>2, <2>3 DEF Orderly, Tidy, Saving
  <2>5. Knows(r)'
    BY <2>2 DEF Saving, Knows, SavesNew, HandlesPaid, LateForGood,
       FailsUncaptured, HoldsOrder, NeverCancels
  <2> QED BY <2>4, <2>5, OrderlyKeeps
<1>2. CASE AdminMove(r)
  <2>1. /\ Others(r) /\ req[r].pc = "admin.tx" /\ req'[r].pc \notin Relying
        /\ UNCHANGED <<payment, attempt, rzp>>
        /\ order' = order \/ (order' = req[r].to /\ ordLock \in {Nobody, r})
        /\ req[r].to \notin {"REFUNDED", "CANCELLED", "PENDING_PAYMENT"}
    BY <1>0, <1>2 DEF AdminMove, Relying, Knows, NeverCancels, ConfirmInv
  <2>2. req[r].to \in PaidStatuses
    BY <2>1, LocalsType DEF OrderStatus, PaidStatuses
  <2>3. Orderly(r)
    BY <2>1, <2>2 DEF Orderly, Tidy, Saving, Relying, PaidStatuses
  <2>4. Knows(r)'
    BY <2>1 DEF Relying, Saving, Knows, SavesNew, HandlesPaid, LateForGood,
       FailsUncaptured, HoldsOrder, NeverCancels
  <2> QED BY <2>3, <2>4, OrderlyKeeps
<1>3. CASE AdminLockPayment(r)
  <2>1. Plain(r)
    BY <1>3 DEF AdminLockPayment, Plain, Relying
  <2> QED BY <2>1, PlainKeeps
<1>4. CASE AdminLockOrder(r)
  <2>1. /\ Others(r) /\ req[r].pc = "admin.locked"
        /\ UNCHANGED <<order, payment, attempt, rzp>>
        /\ \/ req'[r].pc \notin Relying
           \/ req'[r].pc = "admin.refund" /\ req'[r].o = payment.pid /\ ordLock' = r
              /\ payment.status = "CAPTURED"
    BY <1>4, TakeFrame DEF AdminLockOrder, Refundable, Relying
  <2>2. payment.status = "CAPTURED" => rzp[payment.pid] \in {"captured", "refunded"}
    BY DEF TypeInv, StrandInv, Consistent, Captured
  <2>3. Orderly(r)
    BY <2>1 DEF Orderly, Tidy, Saving, Relying
  <2>4. Knows(r)'
    BY <2>1, <2>2 DEF Relying, Saving, Knows, SavesNew, HandlesPaid, LateForGood,
       FailsUncaptured, HoldsOrder, NeverCancels
  <2> QED BY <2>3, <2>4, OrderlyKeeps
<1>5. CASE AdminRefund(r) \/ AdminRefundFails(r)
  <2>1. rzp[req[r].o] \in {"captured", "refunded"} /\ ordLock = r /\ req[r].pc = "admin.refund"
    BY <1>0, <1>5 DEF AdminRefund, AdminRefundFails, Knows, HandlesPaid, HoldsOrder
  <2>2. /\ Others(r) /\ UNCHANGED <<order, payment, attempt>>
        /\ rzp' = rzp \/ rzp' = [rzp EXCEPT ![req[r].o] = "refunded"]
        /\ req'[r].pc \notin Relying \/ (req'[r].pc = "admin.commit" /\ ordLock' = r)
    BY <1>5, <2>1 DEF AdminRefund, AdminRefundFails, Relying
  <2>3. Orderly(r)
    BY <1>0, <2>1, <2>2 DEF Orderly, Tidy, Saving, Relying
  <2>4. Knows(r)'
    BY <2>2 DEF Relying, Saving, Knows, SavesNew, HandlesPaid, LateForGood,
       FailsUncaptured, HoldsOrder, NeverCancels
  <2> QED BY <2>3, <2>4, OrderlyKeeps
<1>6. CASE AdminCommit(r)
  <2>1. Plain(r)
    BY <1>0, <1>6 DEF AdminCommit, Plain, Relying, Knows, HoldsOrder
  <2> QED BY <2>1, PlainKeeps
<1> QED BY <1>1, <1>2, <1>3, <1>4, <1>5, <1>6 DEF Admin
-----------------------------------------------------------------------------
(* Razorpay, time, deadlocks, and the theorem                                *)

LEMMA OutsideStrand ==
  ASSUME TypeInv, ConfirmInv, StrandInv,
         \/ \E o \in RzpOrder : RzpAuthorize(o) \/ RzpCapture(o) \/ RzpFail(o)
         \/ CloseWindow \/ RecoverStaleCreation \/ UNCHANGED vars
  PROVE  StrandInv'
<1>1. /\ UNCHANGED <<order, attempt, req, payLock, ordLock>>
      /\ payment' = payment \/ payment'.status # "CAPTURED"
      /\ \A o \in RzpOrder :
           \/ rzp'[o] = rzp[o]
           \/ attempt[o] # "NONE" /\ rzp[o] \in {"created", "authorized"} /\ rzp'[o] # "none"
  BY DEF RzpAuthorize, RzpCapture, RzpFail, CloseWindow, RecoverStaleCreation, Payable,
     EndCreating, db, locks, external, vars, TypeInv, TypeOK
<1>2. ASSUME NEW s \in Req
      PROVE  Knows(s)'
  <2>1. Knows(s) /\ req'[s] = req[s]
    BY <1>1, <1>2 DEF StrandInv
  <2>2. SavesNew(s)' /\ HandlesPaid(s)'
    BY <1>1, <2>1, LocalsType DEF Knows, SavesNew, HandlesPaid, Saving, OrderPC
  <2>3. LateForGood(s)' /\ FailsUncaptured(s)' /\ HoldsOrder(s)' /\ NeverCancels(s)'
    BY <1>1, <2>1 DEF Knows, LateForGood, FailsUncaptured, HoldsOrder, NeverCancels, Captured
  <2> QED BY <2>2, <2>3 DEF Knows
<1>3. SavesApart'
  BY <1>1 DEF StrandInv, SavesApart, Saving
<1>4. ASSUME NEW o \in RzpOrder
      PROVE  Consistent(o)' /\ LateIsClaimed(o)'
  <2>1. Captured(o)' => Captured(o)
    BY <1>1 DEF Captured
  <2>2. Captured(o) => rzp[o] \in {"captured", "refunded"} /\ rzp'[o] = rzp[o]
    BY <1>1 DEF StrandInv, Consistent
  <2>3. Consistent(o)'
    BY <1>1, <2>1, <2>2 DEF StrandInv, Consistent
  <2>4. LateIsClaimed(o)'
    BY <1>1, <2>1, <2>2 DEF StrandInv, LateIsClaimed, AboutToClaim
  <2> QED BY <2>3, <2>4
<1> QED BY <1>2, <1>3, <1>4 DEF StrandInv

LEMMA VictimStrand ==
  ASSUME WithoutCrashOrAdminCancel,
         TypeInv, ConfirmInv, StrandInv, NEW r \in Req, Crash(r) \/ DeadlockVictim(r)
  PROVE  StrandInv'
<1>1. ~Crash(r)
  BY DEF WithoutCrashOrAdminCancel, Crash
<1>2. Plain(r)
  BY <1>1, DoneFrame, ReqAssumption
  DEF DeadlockVictim, Deadlocked, WaitsForOrder, WaitsForPayment, At, db, external, Plain,
      Others, Relying, Idle
<1> QED BY <1>2, PlainKeeps

LEMMA StrandNext ==
  ASSUME WithoutCrashOrAdminCancel
  PROVE  TypeInv /\ ConfirmInv /\ RefundInv /\ StrandInv /\ [Next]_vars => StrandInv'
<1> SUFFICES ASSUME TypeInv, ConfirmInv, RefundInv, StrandInv, [Next]_vars
             PROVE  StrandInv'
  OBVIOUS
<1>1. CASE \/ \E o \in RzpOrder : RzpAuthorize(o) \/ RzpCapture(o) \/ RzpFail(o)
           \/ CloseWindow \/ RecoverStaleCreation \/ UNCHANGED vars
  BY <1>1, OutsideStrand
<1>2. CASE AtRest
  BY <1>2, OutsideStrand DEF AtRest
<1>3. CASE \E r \in Req : Create(r) \/ Notify(r) \/ Cancel(r) \/ Retry(r)
  BY <1>3, CreateStrand, NotifyStrand, CustomerStrand
<1>4. CASE \E r \in Req : Capture(r) \/ Refund(r) \/ Cron(r)
  BY <1>4, CaptureStrand, RefundStrand, CronStrand
<1>5. CASE \E r \in Req : Admin(r) \/ Crash(r) \/ DeadlockVictim(r)
  BY <1>5, AdminStrand, VictimStrand
<1> QED BY <1>1, <1>2, <1>3, <1>4, <1>5 DEF Next

\* With every operation of the customer, Razorpay, the crons and administrators
\* who do not cancel, and with lost answers: when nothing is in flight, captured
\* money backs an order being fulfilled, is claimed for a refund, or will be acted
\* on when Razorpay delivers its webhook again.
THEOREM NoMoneyIsStranded ==
  ASSUME WithoutCrashOrAdminCancel
  PROVE  Spec => []NoStrandedMoney
<1>1. TypeInv /\ ConfirmInv /\ RefundInv /\ StrandInv /\ [Next]_vars
        => (TypeInv /\ ConfirmInv /\ RefundInv /\ StrandInv)'
  BY NextType, NextConfirm, NextRefund, StrandNext
<1>2. TypeInv /\ RefundInv /\ StrandInv => NoStrandedMoney
  <2> SUFFICES ASSUME TypeInv, RefundInv, StrandInv, InFlight = {},
                      NEW o \in RzpOrder, rzp[o] = "captured"
               PROVE  \/ Captured(o) /\ order \in PaidStatuses
                      \/ attempt[o] = "REFUND_PENDING"
                      \/ ~Captured(o) /\ attempt[o] \notin {"NONE", "REFUNDED"}
    BY DEF NoStrandedMoney
  <2>1. ~AboutToClaim(o)
    BY DEF InFlight, At, AboutToClaim
  <2>2. attempt[o] \notin {"NONE", "REFUNDED"}
    BY DEF StrandInv, Consistent, RefundInv, RefundsAreReal
  <2> QED BY <2>1, <2>2 DEF StrandInv, LateIsClaimed
<1> QED
  BY <1>1, <1>2, InitType, InitConfirm, InitRefund, StrandInit, PTL DEF Spec
=============================================================================
