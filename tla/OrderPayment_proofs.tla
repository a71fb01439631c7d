------------------------ MODULE OrderPayment_proofs -------------------------
(* Type correctness of OrderPayment and the safety properties that hold of   *)
(* every combination of operations, for any number of handlers and Razorpay  *)
(* orders.                                                                   *)
EXTENDS OrderPayment, TLAPS

-----------------------------------------------------------------------------
(* Type correctness.  TypeOK is not inductive: an update at req[r].o needs    *)
(* to know that the handler has a Razorpay order in hand, and the refund of   *)
(* an administrator takes it from the payment row.                            *)

\* Where a handler has a Razorpay order in hand.
OrderPC == {"create.saveRead", "create.saveWrite", "cancel.fetch", "verify.fetch",
            "capture", "capture.commit", "refund.claim", "refund.call",
            "refund.mark", "refund.pay", "fail.lock", "fail.commit",
            "expire.fetch", "recover.fetch", "recover.pay", "admin.refund"}

WellFormed == {l \in Local : l.pc \in OrderPC => l.o \in RzpOrder}

TypeInv ==
  /\ TypeOK
  /\ req \in [Req -> WellFormed]
  /\ payment.status = "CAPTURED" => payment.pid \in RzpOrder

LEMMA IdleType == Idle \in WellFormed
  BY DEF Idle, WellFormed, Local, OrderPC, PC, OpName, OrderStatus, AttemptStatus

LEMMA DoneType ==
  ASSUME TypeInv, NEW r \in Req, Done(r)
  PROVE  req' \in [Req -> WellFormed]
  BY IdleType DEF TypeInv, Done

LEMMA GotoType ==
  ASSUME TypeInv, NEW r \in Req, NEW l \in PC, Goto(r, l),
         l \in OrderPC => req[r].o \in RzpOrder
  PROVE  req' \in [Req -> WellFormed]
<1>1. [req[r] EXCEPT !.pc = l] \in WellFormed
  BY DEF TypeInv, WellFormed, Local
<1> QED
  BY <1>1 DEF TypeInv, Goto

LEMMA StartType ==
  ASSUME TypeInv, NEW r \in Req, NEW name \in OpName, NEW l \in PC,
         NEW o \in RzpOrder \cup {NoId}, l \in OrderPC => o \in RzpOrder,
         Start(r, name, l, o)
  PROVE  req' \in [Req -> WellFormed]
<1>1. [Idle EXCEPT !.pc = l, !.op = name, !.o = o] \in WellFormed
  BY IdleType DEF Idle, WellFormed, Local
<1> QED
  BY <1>1 DEF TypeInv, Start

LEMMA LocalsType ==
  ASSUME TypeInv, NEW r \in Req
  PROVE  /\ req[r].o \in RzpOrder \cup {NoId}
         /\ req[r].saw \in OrderStatus \cup AttemptStatus
         /\ req[r].to \in OrderStatus
         /\ req[r].dup \in BOOLEAN
         /\ req[r].pc \in OrderPC => req[r].o \in RzpOrder
  BY DEF TypeInv, WellFormed, Local

\* The steps that write two of the locals.
LEMMA SetOrder ==
  ASSUME NEW l \in Local, NEW p \in PC, NEW o \in RzpOrder
  PROVE  [l EXCEPT !.pc = p, !.o = o] \in WellFormed
  BY DEF Local, WellFormed

LEMMA SetSaw ==
  ASSUME NEW l \in Local, NEW p \in PC, NEW s \in OrderStatus \cup AttemptStatus,
         p \in OrderPC => l.o \in RzpOrder
  PROVE  [l EXCEPT !.pc = p, !.saw = s] \in WellFormed
  BY DEF Local, WellFormed

LEMMA SetDup ==
  ASSUME NEW l \in Local, NEW p \in PC, NEW d \in BOOLEAN,
         p \in OrderPC => l.o \in RzpOrder
  PROVE  [l EXCEPT !.pc = p, !.dup = d] \in WellFormed
  BY DEF Local, WellFormed

LEMMA TakeType ==
  ASSUME TypeInv, NEW r \in Req, NEW l \in PC, NEW o \in RzpOrder, Take(r, l, o)
  PROVE  req' \in [Req -> WellFormed]
<1>1. req[r] \in Local
  BY DEF TypeInv, TypeOK
<1>2. [req[r] EXCEPT !.pc = l, !.o = o] \in WellFormed
  BY <1>1, SetOrder
<1> QED
  BY <1>2 DEF TypeInv, Take

LEMMA RememberType ==
  ASSUME TypeInv, NEW r \in Req, NEW l \in PC,
         NEW s \in OrderStatus \cup AttemptStatus, Remember(r, l, s),
         l \in OrderPC => req[r].o \in RzpOrder
  PROVE  req' \in [Req -> WellFormed]
<1>1. req[r] \in Local
  BY DEF TypeInv, TypeOK
<1>2. [req[r] EXCEPT !.pc = l, !.saw = s] \in WellFormed
  BY <1>1, SetSaw
<1> QED
  BY <1>2 DEF TypeInv, Remember

\* TypeOK and its strengthening agree on everything but the locals.
LEMMA TypeFromParts ==
  ASSUME TypeInv, 
         order' \in OrderStatus,
         payment' \in [status : PaymentStatus, oid : RzpOrder \cup {NoId}, pid : PayId],
         payment'.status = "CAPTURED" => payment'.pid \in RzpOrder,
         attempt' \in [RzpOrder -> AttemptStatus],
         coupon' \in Nat, confirmed' \in [RzpOrder -> Nat],
         payLock' \in Req \cup {Nobody}, ordLock' \in Req \cup {Nobody},
         rzp' \in [RzpOrder -> RzpStatus],
         failedEvent' \in [RzpOrder -> BOOLEAN], windowOpen' \in BOOLEAN,
         req' \in [Req -> WellFormed]
  PROVE  TypeInv'
  BY DEF TypeInv, TypeOK, WellFormed

LEMMA CreateType ==
  ASSUME TypeInv, NEW r \in Req, Create(r)
  PROVE  TypeInv'
<1> USE DEF TypeInv, TypeOK, PaymentStatus, AttemptStatus, PayId, db, locks, external,
            At, Invoke
<1>1. CASE CreateStart(r)
  <2>1. req' \in [Req -> WellFormed]
    BY <1>1, StartType DEF CreateStart, OpName, PC, OrderPC
  <2> QED BY <1>1, <2>1, TypeFromParts DEF CreateStart
<1>2. CASE CreateRead(r)
  <2>1. req' \in [Req -> WellFormed]
    BY <1>2, GotoType, DoneType DEF CreateRead, GotoOrDone, PC, OrderPC
  <2> QED BY <1>2, <2>1, TypeFromParts DEF CreateRead
<1>3. CASE CreateClaim(r)
  <2>1. req' \in [Req -> WellFormed]
    BY <1>3, GotoType, DoneType DEF CreateClaim, GotoOrDone, PC, OrderPC
  <2> QED BY <1>3, <2>1, TypeFromParts DEF CreateClaim
<1>4. CASE CreateCall(r)
  <2>1. PICK o \in RzpOrder :
          rzp' = [rzp EXCEPT ![o] = "created"] /\ Take(r, "create.saveRead", o)
    BY <1>4 DEF CreateCall
  <2>2. req' \in [Req -> WellFormed]
    BY <2>1, TakeType DEF PC
  <2> QED BY <1>4, <2>1, <2>2, TypeFromParts DEF CreateCall, RzpStatus
<1>5. CASE CreateCallFails(r)
  <2>1. req' \in [Req -> WellFormed]
    BY <1>5, DoneType DEF CreateCallFails
  <2> QED BY <1>5, <2>1, TypeFromParts DEF CreateCallFails, EndCreating
<1>6. CASE CreateSaveRead(r)
  <2>1. req' \in [Req -> WellFormed]
    BY <1>6, GotoType, LocalsType DEF CreateSaveRead, PC, OrderPC
  <2> QED BY <1>6, <2>1, TypeFromParts DEF CreateSaveRead
<1>7. CASE CreateSaveWrite(r)
  <2>1. req' \in [Req -> WellFormed]
    BY <1>7, GotoType, DoneType DEF CreateSaveWrite, PC, OrderPC
  <2> QED BY <1>7, <2>1, TypeFromParts, LocalsType DEF CreateSaveWrite, Attempt
<1>8. CASE CreateRelease(r)
  <2>1. req' \in [Req -> WellFormed]
    BY <1>8, DoneType DEF CreateRelease
  <2> QED BY <1>8, <2>1, TypeFromParts DEF CreateRelease, EndCreating
<1> QED
  BY <1>1, <1>2, <1>3, <1>4, <1>5, <1>6, <1>7, <1>8 DEF Create

LEMMA CaptureType ==
  ASSUME TypeInv, NEW r \in Req, Capture(r)
  PROVE  TypeInv'
<1> USE DEF TypeInv, TypeOK, PaymentStatus, AttemptStatus, PayId, db, locks, external,
            At
<1>1. CASE CaptureNothing(r)
  <2>1. req' \in [Req -> WellFormed]
    BY <1>1, DoneType DEF CaptureNothing
  <2> QED BY <1>1, <2>1, TypeFromParts DEF CaptureNothing
<1>2. CASE CaptureDuplicate(r)
  <2> req[r] \in Local /\ req[r].o \in RzpOrder
    BY <1>2, LocalsType DEF CaptureDuplicate, OrderPC
  <2>1. [req[r] EXCEPT !.pc = "refund.claim", !.dup = TRUE] \in WellFormed
    BY SetDup DEF PC
  <2>2. req' \in [Req -> WellFormed]
    BY <1>2, <2>1 DEF CaptureDuplicate
  <2> QED BY <1>2, <2>2, TypeFromParts DEF CaptureDuplicate
<1>3. CASE CaptureBegin(r)
  <2>1. req' \in [Req -> WellFormed]
    BY <1>3, LocalsType, RememberType DEF CaptureBegin, PC, OrderPC
  <2> QED BY <1>3, <2>1, TypeFromParts DEF CaptureBegin
<1>4. CASE CaptureLate(r)
  <2>1. req[r].o \in RzpOrder
    BY <1>4, LocalsType DEF CaptureLate, OrderPC
  <2>2. req' \in [Req -> WellFormed]
    BY <1>4, <2>1, GotoType DEF CaptureLate, PC
  <2> QED
    BY <1>4, <2>1, <2>2, TypeFromParts
    DEF CaptureLate, RecordCapture, Attempt, ReleaseAll, Release
<1>5. CASE CaptureConfirm(r)
  <2>1. req[r].o \in RzpOrder
    BY <1>5, LocalsType DEF CaptureConfirm, OrderPC
  <2>2. req' \in [Req -> WellFormed]
    BY <1>5, DoneType DEF CaptureConfirm
  <2> QED
    BY <1>5, <2>1, <2>2, TypeFromParts
    DEF CaptureConfirm, RecordCapture, Attempt, ReleaseAll, Release, OrderStatus
<1> QED
  BY <1>1, <1>2, <1>3, <1>4, <1>5 DEF Capture

LEMMA RefundType ==
  ASSUME TypeInv, NEW r \in Req, Refund(r)
  PROVE  TypeInv'
<1> USE DEF TypeInv, TypeOK, PaymentStatus, AttemptStatus, PayId, db, locks, external,
            At
<1>1. CASE RefundClaim(r)
  <2>1. req' \in [Req -> WellFormed]
    BY <1>1, GotoType, DoneType, LocalsType DEF RefundClaim, GotoOrDone, PC, OrderPC
  <2> QED BY <1>1, <2>1, TypeFromParts DEF RefundClaim
<1>2. CASE RefundCall(r)
  <2>1. req' \in [Req -> WellFormed]
    BY <1>2, GotoType, DoneType, LocalsType DEF RefundCall, PC, OrderPC
  <2> QED BY <1>2, <2>1, TypeFromParts DEF RefundCall, RzpStatus
<1>3. CASE RefundCallFails(r)
  <2>1. req' \in [Req -> WellFormed]
    BY <1>3, DoneType DEF RefundCallFails
  <2> QED BY <1>3, <2>1, TypeFromParts DEF RefundCallFails
<1>4. CASE RefundMark(r)
  <2>1. req' \in [Req -> WellFormed]
    BY <1>4, GotoType, DoneType, LocalsType DEF RefundMark, GotoOrDone, PC, OrderPC
  <2> QED BY <1>4, <2>1, TypeFromParts DEF RefundMark
<1>5. CASE RefundPay(r)
  <2>1. req' \in [Req -> WellFormed]
    BY <1>5, GotoType, DoneType DEF RefundPay, GotoOrDone, PC, OrderPC
  <2> QED BY <1>5, <2>1, TypeFromParts DEF RefundPay
<1> QED
  BY <1>1, <1>2, <1>3, <1>4, <1>5 DEF Refund

LEMMA NotifyType ==
  ASSUME TypeInv, NEW r \in Req, Notify(r)
  PROVE  TypeInv'
<1> USE DEF TypeInv, TypeOK, PaymentStatus, AttemptStatus, PayId, db, locks, external,
            At, Invoke
<1>1. CASE VerifyStart(r)
  <2>1. req' \in [Req -> WellFormed]
    BY <1>1, StartType DEF VerifyStart, OpName, PC, OrderPC
  <2> QED BY <1>1, <2>1, TypeFromParts DEF VerifyStart
<1>2. CASE VerifyFetch(r)
  <2>1. req' \in [Req -> WellFormed]
    BY <1>2, GotoType, DoneType, LocalsType DEF VerifyFetch, GotoOrDone, PC, OrderPC
  <2> QED BY <1>2, <2>1, TypeFromParts DEF VerifyFetch
<1>3. CASE HookStart(r)
  <2>1. req' \in [Req -> WellFormed]
    BY <1>3, StartType DEF HookStart, OpName, PC, OrderPC
  <2> QED BY <1>3, <2>1, TypeFromParts DEF HookStart
<1>4. CASE FailStart(r)
  <2>1. req' \in [Req -> WellFormed]
    BY <1>4, StartType DEF FailStart, OpName, PC, OrderPC
  <2> QED BY <1>4, <2>1, TypeFromParts DEF FailStart
<1>5. CASE FailLock(r)
  <2>1. req[r].o \in RzpOrder
    BY <1>5, LocalsType DEF FailLock, OrderPC
  <2>2. req' \in [Req -> WellFormed]
    BY <1>5, <2>1, RememberType DEF FailLock, PC
  <2> QED BY <1>5, <2>2, TypeFromParts DEF FailLock
<1>6. CASE FailCommit(r)
  <2>1. req' \in [Req -> WellFormed]
    BY <1>6, DoneType DEF FailCommit
  <2> QED BY <1>6, <2>1, TypeFromParts DEF FailCommit, ReleaseAll, Release
<1> QED
  BY <1>1, <1>2, <1>3, <1>4, <1>5, <1>6 DEF Notify

LEMMA CustomerType ==
  ASSUME TypeInv, NEW r \in Req, Cancel(r) \/ Retry(r)
  PROVE  TypeInv'
<1> USE DEF TypeInv, TypeOK, PaymentStatus, AttemptStatus, PayId, db, locks, external,
            At, Invoke
<1>1. CASE CancelStart(r)
  <2>1. req' \in [Req -> WellFormed]
    BY <1>1, StartType DEF CancelStart, OpName, PC, OrderPC
  <2> QED BY <1>1, <2>1, TypeFromParts DEF CancelStart
<1>2. CASE CancelFetch(r)
  <2>1. req' \in [Req -> WellFormed]
    BY <1>2, GotoType, DoneType, LocalsType DEF CancelFetch, Fetched, PC, OrderPC
  <2> QED BY <1>2, <2>1, TypeFromParts DEF CancelFetch
<1>3. CASE CancelRead(r)
  <2>1. req' \in [Req -> WellFormed]
    BY <1>3, GotoType, DoneType DEF CancelRead, GotoOrDone, PC, OrderPC
  <2> QED BY <1>3, <2>1, TypeFromParts DEF CancelRead
<1>4. CASE CancelWrite(r)
  <2>1. req' \in [Req -> WellFormed]
    BY <1>4, DoneType DEF CancelWrite
  <2>2. coupon' \in Nat /\ order' \in OrderStatus
    BY <1>4 DEF CancelWrite, ReleaseCoupon, OrderStatus
  <2>3. /\ payment' \in [status : PaymentStatus, oid : RzpOrder \cup {NoId}, pid : PayId]
        /\ payment'.status = "CAPTURED" => payment'.pid \in RzpOrder
    BY <1>4 DEF CancelWrite
  <2> QED BY <1>4, <2>1, <2>2, <2>3, TypeFromParts DEF CancelWrite
<1>5. CASE CancelFinal(r)
  <2>1. req' \in [Req -> WellFormed]
    BY <1>5, DoneType DEF CancelFinal
  <2> QED BY <1>5, <2>1, TypeFromParts DEF CancelFinal, ReleaseCoupon, OrderStatus
<1>6. CASE RetryStart(r)
  <2>1. req' \in [Req -> WellFormed]
    BY <1>6, StartType DEF RetryStart, OpName, PC, OrderPC
  <2> QED BY <1>6, <2>1, TypeFromParts DEF RetryStart
<1>7. CASE RetryWrite(r)
  <2>1. req' \in [Req -> WellFormed]
    BY <1>7, GotoType DEF RetryWrite, PC, OrderPC
  <2> QED BY <1>7, <2>1, TypeFromParts DEF RetryWrite
<1> QED
  BY <1>1, <1>2, <1>3, <1>4, <1>5, <1>6, <1>7 DEF Cancel, Retry

LEMMA CronType ==
  ASSUME TypeInv, NEW r \in Req, Cron(r)
  PROVE  TypeInv'
<1> USE DEF TypeInv, TypeOK, PaymentStatus, AttemptStatus, PayId, db, locks, external,
            At, Invoke
<1>1. CASE ExpireStart(r)
  <2>1. req' \in [Req -> WellFormed]
    BY <1>1, StartType DEF ExpireStart, OpName, PC, OrderPC
  <2> QED BY <1>1, <2>1, TypeFromParts DEF ExpireStart
<1>2. CASE ExpireFetch(r)
  <2>1. req' \in [Req -> WellFormed]
    BY <1>2, GotoType, DoneType, LocalsType DEF ExpireFetch, Fetched, PC, OrderPC
  <2> QED BY <1>2, <2>1, TypeFromParts DEF ExpireFetch
<1>3. CASE ExpireLock(r)
  <2>1. payment.status \in OrderStatus \cup AttemptStatus /\ "expire.commit" \notin OrderPC
    BY DEF OrderPC
  <2>2. req' \in [Req -> WellFormed]
    BY <1>3, <2>1, RememberType, DoneType DEF ExpireLock, PC
  <2> QED BY <1>3, <2>2, TypeFromParts DEF ExpireLock
<1>4. CASE ExpireCommit(r)
  <2>1. req' \in [Req -> WellFormed]
    BY <1>4, DoneType DEF ExpireCommit
  <2>2. coupon' \in Nat /\ order' \in OrderStatus
    BY <1>4 DEF ExpireCommit, ReleaseCoupon, OrderStatus
  <2>3. /\ payment' \in [status : PaymentStatus, oid : RzpOrder \cup {NoId}, pid : PayId]
        /\ payment'.status = "CAPTURED" => payment'.pid \in RzpOrder
    BY <1>4 DEF ExpireCommit
  <2> QED
    BY <1>4, <2>1, <2>2, <2>3, TypeFromParts DEF ExpireCommit, ReleaseAll, Release
<1>5. CASE RecoverStart(r)
  <2>1. PICK o \in RzpOrder :
          req' = [req EXCEPT ![r] =
                    [Idle EXCEPT !.pc = "recover.fetch", !.op = "recover",
                                 !.o = o, !.dup = payment.pid # o]]
    BY <1>5 DEF RecoverStart
  <2>2. [Idle EXCEPT !.pc = "recover.fetch", !.op = "recover",
                     !.o = o, !.dup = payment.pid # o] \in WellFormed
    BY DEF Idle, Local, WellFormed, PC, OpName, OrderStatus
  <2>3. req' \in [Req -> WellFormed]
    BY <2>1, <2>2
  <2> QED BY <1>5, <2>3, TypeFromParts DEF RecoverStart
<1>6. CASE RecoverFetch(r)
  <2>1. req' \in [Req -> WellFormed]
    BY <1>6, GotoType, DoneType, LocalsType DEF RecoverFetch, GotoOrDone, PC, OrderPC
  <2> QED BY <1>6, <2>1, TypeFromParts DEF RecoverFetch
<1>7. CASE RecoverPay(r)
  <2>1. req' \in [Req -> WellFormed]
    BY <1>7, DoneType DEF RecoverPay
  <2> QED BY <1>7, <2>1, TypeFromParts DEF RecoverPay
<1> QED
  BY <1>1, <1>2, <1>3, <1>4, <1>5, <1>6, <1>7 DEF Cron

LEMMA AdminType ==
  ASSUME TypeInv, NEW r \in Req, Admin(r)
  PROVE  TypeInv'
<1> USE DEF TypeInv, TypeOK, PaymentStatus, AttemptStatus, PayId, db, locks, external,
            At, Invoke
<1>1. CASE AdminStart(r)
  <2>1. PICK to \in AdminTargets :
          req' = [req EXCEPT ![r] =
                    [Idle EXCEPT !.pc = "admin.tx", !.op = "admin",
                                 !.saw = order, !.to = to]]
    BY <1>1 DEF AdminStart
  <2>2. [Idle EXCEPT !.pc = "admin.tx", !.op = "admin",
                     !.saw = order, !.to = to] \in WellFormed
    BY OpsAssumption DEF Idle, Local, WellFormed, PC, OrderPC, OpName
  <2>3. req' \in [Req -> WellFormed]
    BY <2>1, <2>2
  <2> QED BY <1>1, <2>3, TypeFromParts DEF AdminStart
<1>2. CASE AdminMove(r)
  <2>1. req' \in [Req -> WellFormed]
    BY <1>2, DoneType DEF AdminMove
  <2>2. coupon' \in Nat /\ order' \in OrderStatus
    BY <1>2, LocalsType DEF AdminMove, ReleaseCoupon
  <2> QED BY <1>2, <2>1, <2>2, TypeFromParts DEF AdminMove
<1>3. CASE AdminLockPayment(r)
  <2>1. req' \in [Req -> WellFormed]
    BY <1>3, GotoType DEF AdminLockPayment, PC, OrderPC
  <2> QED BY <1>3, <2>1, TypeFromParts DEF AdminLockPayment
<1>4. CASE AdminLockOrder(r)
  <2>1. CASE SameStatus(r) /\ Refundable
    <3>1. payment.pid \in RzpOrder
      BY <2>1 DEF Refundable
    <3>2. req' \in [Req -> WellFormed]
      BY <1>4, <2>1, <3>1, TakeType DEF AdminLockOrder, PC
    <3> QED BY <1>4, <2>1, <3>2, TypeFromParts DEF AdminLockOrder
  <2>2. CASE ~(SameStatus(r) /\ Refundable)
    <3>1. req' \in [Req -> WellFormed]
      BY <1>4, <2>2, DoneType DEF AdminLockOrder
    <3> QED
      BY <1>4, <2>2, <3>1, TypeFromParts DEF AdminLockOrder, ReleaseAll, Release
  <2> QED BY <2>1, <2>2
<1>5. CASE AdminRefund(r)
  <2>1. req' \in [Req -> WellFormed]
    BY <1>5, GotoType DEF AdminRefund, PC, OrderPC
  <2> QED BY <1>5, <2>1, TypeFromParts DEF AdminRefund, RzpStatus
<1>6. CASE AdminRefundFails(r)
  <2>1. req' \in [Req -> WellFormed]
    BY <1>6, DoneType DEF AdminRefundFails
  <2>2. payLock' \in Req \cup {Nobody} /\ ordLock' \in Req \cup {Nobody}
    BY <1>6 DEF AdminRefundFails, ReleaseAll, Release
  <2> QED BY <1>6, <2>1, <2>2, TypeFromParts DEF AdminRefundFails, RzpStatus
<1>7. CASE AdminCommit(r)
  <2>1. req' \in [Req -> WellFormed]
    BY <1>7, DoneType DEF AdminCommit
  <2> QED
    BY <1>7, <2>1, TypeFromParts DEF AdminCommit, ReleaseAll, Release, OrderStatus
<1> QED
  BY <1>1, <1>2, <1>3, <1>4, <1>5, <1>6, <1>7 DEF Admin

\* Razorpay, the clock and the failures touch no more than one variable each.
LEMMA EnvironmentType ==
  ASSUME TypeInv
  PROVE  /\ \A o \in RzpOrder : RzpAuthorize(o) \/ RzpCapture(o) \/ RzpFail(o) => TypeInv'
         /\ CloseWindow \/ RecoverStaleCreation \/ AtRest => TypeInv'
         /\ \A r \in Req : Crash(r) \/ DeadlockVictim(r) => TypeInv'
<1> USE DEF TypeInv, TypeOK, db, locks, external
<1>1. ASSUME NEW o \in RzpOrder, RzpAuthorize(o) \/ RzpCapture(o) \/ RzpFail(o)
      PROVE  TypeInv'
  BY <1>1, TypeFromParts DEF RzpAuthorize, RzpCapture, RzpFail, RzpStatus
<1>2. ASSUME CloseWindow \/ RecoverStaleCreation \/ AtRest
      PROVE  TypeInv'
  BY <1>2, TypeFromParts
  DEF CloseWindow, RecoverStaleCreation, AtRest, EndCreating, PaymentStatus, vars
<1>3. ASSUME NEW r \in Req, Crash(r) \/ DeadlockVictim(r)
      PROVE  TypeInv'
  <2>1. req' \in [Req -> WellFormed]
    BY <1>3, DoneType DEF Crash, DeadlockVictim, Abandon
  <2> QED
    BY <1>3, <2>1, TypeFromParts
    DEF Crash, DeadlockVictim, Abandon, ReleaseAll, Release
<1> QED
  BY <1>1, <1>2, <1>3

LEMMA InitType == Init => TypeInv
  BY IdleType, UsesAssumption
  DEF Init, TypeInv, TypeOK, WellFormed, OrderStatus, PaymentStatus, AttemptStatus,
      PayId, RzpStatus

LEMMA NextType == TypeInv /\ [Next]_vars => TypeInv'
<1> SUFFICES ASSUME TypeInv, [Next]_vars
             PROVE  TypeInv'
  OBVIOUS
<1>1. CASE Next
  BY <1>1, CreateType, CaptureType, RefundType, NotifyType, CustomerType, CronType,
     AdminType, EnvironmentType DEF Next
<1>2. CASE UNCHANGED vars
  BY <1>2 DEF vars, TypeInv, TypeOK
<1> QED
  BY <1>1, <1>2

\* Every variable keeps its type, and a captured payment row always names a
\* payment of one of the order's Razorpay orders.
THEOREM TypeCorrect == Spec => []TypeInv
  BY InitType, NextType, PTL DEF Spec

THEOREM TypeOKHolds == Spec => []TypeOK
<1>1. TypeInv => TypeOK
  BY DEF TypeInv
<1> QED
  BY <1>1, TypeCorrect, PTL
-----------------------------------------------------------------------------
(* A capture confirms the order once.  The transaction that will write        *)
(* CONFIRMED holds the Payment lock from the moment it read PENDING_PAYMENT,  *)
(* so nobody else can confirm in between; and the order never returns to      *)
(* PENDING_PAYMENT, the administrator's targets included.                     *)

NothingConfirmed == \A o \in RzpOrder : confirmed[o] = 0

ConfirmInv ==
  /\ \A r \in Req : req[r].pc = "capture.commit" => payLock = r
  /\ \A r \in Req : req[r].pc = "admin.tx" => req[r].to # "PENDING_PAYMENT"
  /\ order = "PENDING_PAYMENT" => NothingConfirmed
  /\ \A r \in Req :
       req[r].pc = "capture.commit" /\ req[r].saw = "PENDING_PAYMENT" => NothingConfirmed
  /\ ConfirmedOnce

LEMMA InitConfirm == Init => ConfirmInv
  BY DEF Init, ConfirmInv, NothingConfirmed, ConfirmedOnce, Idle

\* What a step of r leaves alone: the other handlers and the locks they hold.
Others(r) ==
  /\ \A s \in Req \ {r} : req'[s] = req[s]
  /\ \A s \in Req \ {r} : payLock = s => payLock' = s
  /\ \A s \in Req \ {r} : ordLock = s => ordLock' = s

LEMMA DoneFrame ==
  ASSUME TypeInv, NEW r \in Req, Done(r)
  PROVE  req'[r] = Idle /\ \A s \in Req \ {r} : req'[s] = req[s]
  BY DEF TypeInv, TypeOK, Done

LEMMA GotoFrame ==
  ASSUME TypeInv, NEW r \in Req, NEW l, Goto(r, l)
  PROVE  /\ \A s \in Req \ {r} : req'[s] = req[s]
         /\ req'[r].pc = l /\ req'[r].op = req[r].op /\ req'[r].o = req[r].o
         /\ req'[r].saw = req[r].saw /\ req'[r].to = req[r].to /\ req'[r].dup = req[r].dup
<1>1. req[r] \in Local
  BY DEF TypeInv, TypeOK
<1>2. req'[r] = [req[r] EXCEPT !.pc = l] /\ \A s \in Req \ {r} : req'[s] = req[s]
  BY DEF TypeInv, TypeOK, Goto
<1> QED
  BY <1>1, <1>2 DEF Local

LEMMA StartFrame ==
  ASSUME TypeInv, NEW r \in Req, NEW name, NEW l, NEW o, Start(r, name, l, o)
  PROVE  /\ \A s \in Req \ {r} : req'[s] = req[s]
         /\ req'[r].pc = l /\ req'[r].op = name /\ req'[r].o = o
  BY DEF TypeInv, TypeOK, Start, Idle

LEMMA TakeFrame ==
  ASSUME TypeInv, NEW r \in Req, NEW l, NEW o, Take(r, l, o)
  PROVE  /\ \A s \in Req \ {r} : req'[s] = req[s]
         /\ req'[r].pc = l /\ req'[r].o = o
<1>1. req[r] \in Local
  BY DEF TypeInv, TypeOK
<1>2. /\ req'[r] = [req[r] EXCEPT !.pc = l, !.o = o]
      /\ \A s \in Req \ {r} : req'[s] = req[s]
  BY DEF TypeInv, TypeOK, Take
<1> QED
  BY <1>1, <1>2 DEF Local

LEMMA RememberFrame ==
  ASSUME TypeInv, NEW r \in Req, NEW l, NEW s, Remember(r, l, s)
  PROVE  /\ \A t \in Req \ {r} : req'[t] = req[t]
         /\ req'[r].pc = l /\ req'[r].saw = s /\ req'[r].o = req[r].o
<1>1. req[r] \in Local
  BY DEF TypeInv, TypeOK
<1>2. /\ req'[r] = [req[r] EXCEPT !.pc = l, !.saw = s]
      /\ \A t \in Req \ {r} : req'[t] = req[t]
  BY DEF TypeInv, TypeOK, Remember
<1> QED
  BY <1>1, <1>2 DEF Local

\* Where a handler relies on something the invariants below say of it.
Critical == {"capture.commit", "admin.tx", "refund.mark"}

Quiet(r) == Others(r) /\ req'[r].pc \notin Critical

\* The order does not return to PENDING_PAYMENT, and no capture confirms it.
Settling == (order' = order \/ order' # "PENDING_PAYMENT") /\ confirmed' = confirmed

\* A refund at Razorpay is for ever, and none is booked that did not happen.
Booking ==
  \A o \in RzpOrder :
    /\ rzp[o] = "refunded" => rzp'[o] = "refunded"
    /\ attempt'[o] = "REFUNDED" => attempt[o] = "REFUNDED" \/ rzp[o] = "refunded"

LEMMA CreateQuiet ==
  ASSUME TypeInv, NEW r \in Req, Create(r)
  PROVE  Quiet(r) /\ Settling /\ Booking
<1> USE DoneFrame, GotoFrame, StartFrame, TakeFrame
    DEF Quiet, Others, Critical, Idle, GotoOrDone, db, locks, external, Settling, Booking
<1>1. CASE CreateStart(r)
  BY <1>1 DEF CreateStart
<1>2. CASE CreateRead(r)
  BY <1>2 DEF CreateRead
<1>3. CASE CreateClaim(r)
  BY <1>3 DEF CreateClaim
<1>4. CASE CreateCall(r)
  BY <1>4 DEF CreateCall, TypeInv, TypeOK
<1>5. CASE CreateCallFails(r)
  BY <1>5 DEF CreateCallFails
<1>6. CASE CreateSaveRead(r)
  BY <1>6 DEF CreateSaveRead
<1>7. CASE CreateSaveWrite(r)
  BY <1>7 DEF CreateSaveWrite, Attempt, TypeInv, TypeOK
<1>8. CASE CreateRelease(r)
  BY <1>8 DEF CreateRelease
<1> QED
  BY <1>1, <1>2, <1>3, <1>4, <1>5, <1>6, <1>7, <1>8 DEF Create

LEMMA NotifyQuiet ==
  ASSUME TypeInv, NEW r \in Req, Notify(r)
  PROVE  Quiet(r) /\ Settling /\ Booking
<1> USE ReqAssumption, DoneFrame, GotoFrame, StartFrame, TakeFrame, RememberFrame
    DEF Quiet, Others, Critical, Idle, GotoOrDone, db, locks, external, Settling,
        Booking, ReleaseAll, Release, Writable
<1>1. CASE VerifyStart(r)
  BY <1>1 DEF VerifyStart
<1>2. CASE VerifyFetch(r)
  BY <1>2 DEF VerifyFetch
<1>3. CASE HookStart(r)
  BY <1>3 DEF HookStart
<1>4. CASE FailStart(r)
  BY <1>4 DEF FailStart
<1>5. CASE FailLock(r)
  BY <1>5 DEF FailLock
<1>6. CASE FailCommit(r)
  BY <1>6 DEF FailCommit, TypeInv, TypeOK
<1> QED
  BY <1>1, <1>2, <1>3, <1>4, <1>5, <1>6 DEF Notify

LEMMA CustomerQuiet ==
  ASSUME TypeInv, NEW r \in Req, Cancel(r) \/ Retry(r)
  PROVE  Quiet(r) /\ Settling /\ Booking
<1> USE ReqAssumption, DoneFrame, GotoFrame, StartFrame, TakeFrame, RememberFrame
    DEF Quiet, Others, Critical, Idle, GotoOrDone, db, locks, external, Settling,
        Booking, ReleaseAll, Release, Writable
<1>1. CASE CancelStart(r)
  BY <1>1 DEF CancelStart
<1>2. CASE CancelFetch(r)
  BY <1>2 DEF CancelFetch, Fetched
<1>3. CASE CancelRead(r)
  BY <1>3 DEF CancelRead
<1>4. CASE CancelWrite(r)
  BY <1>4 DEF CancelWrite
<1>5. CASE CancelFinal(r)
  BY <1>5 DEF CancelFinal
<1>6. CASE RetryStart(r)
  BY <1>6 DEF RetryStart
<1>7. CASE RetryWrite(r)
  BY <1>7 DEF RetryWrite, TypeInv, TypeOK
<1> QED
  BY <1>1, <1>2, <1>3, <1>4, <1>5, <1>6, <1>7 DEF Cancel, Retry

LEMMA CronQuiet ==
  ASSUME TypeInv, NEW r \in Req, Cron(r)
  PROVE  Quiet(r) /\ Settling /\ Booking
<1> USE ReqAssumption, DoneFrame, GotoFrame, StartFrame, TakeFrame, RememberFrame
    DEF Quiet, Others, Critical, Idle, GotoOrDone, db, locks, external, Settling,
        Booking, ReleaseAll, Release, Writable
<1>1. CASE ExpireStart(r)
  BY <1>1 DEF ExpireStart
<1>2. CASE ExpireFetch(r)
  BY <1>2 DEF ExpireFetch, Fetched
<1>3. CASE ExpireLock(r)
  BY <1>3 DEF ExpireLock
<1>4. CASE ExpireCommit(r)
  BY <1>4 DEF ExpireCommit
<1>5. CASE RecoverStart(r)
  <2>1. PICK o \in RzpOrder :
          req' = [req EXCEPT ![r] = [Idle EXCEPT !.pc = "recover.fetch",
                    !.op = "recover", !.o = o, !.dup = payment.pid # o]]
    BY <1>5 DEF RecoverStart
  <2> QED
    BY <1>5, <2>1 DEF RecoverStart, TypeInv, TypeOK
<1>6. CASE RecoverFetch(r)
  BY <1>6 DEF RecoverFetch, Settled, TypeInv, TypeOK
<1>7. CASE RecoverPay(r)
  BY <1>7 DEF RecoverPay
<1> QED
  BY <1>1, <1>2, <1>3, <1>4, <1>5, <1>6, <1>7 DEF Cron

\* What the steps that do enter a critical place, or confirm, do instead.
Reads(r) ==
  /\ Others(r)
  /\ req'[r].pc = "capture.commit" /\ payLock' = r
  /\ req'[r].saw = order /\ payLock \in {Nobody, r}

Confirms(r) ==
  /\ Others(r) /\ req'[r].pc \notin Critical
  /\ req[r].pc = "capture.commit" /\ req[r].saw = "PENDING_PAYMENT"
  /\ order' = "CONFIRMED"
  /\ confirmed' = [confirmed EXCEPT ![req[r].o] = @ + 1]

Asks(r) ==
  /\ Others(r) /\ req'[r].pc = "admin.tx" /\ req'[r].to # "PENDING_PAYMENT"

Refunds(r) ==
  /\ Others(r) /\ req'[r].pc = "refund.mark"
  /\ req'[r].o \in RzpOrder /\ rzp'[req'[r].o] = "refunded"

Books(r) == req[r].pc = "refund.mark" /\ Quiet(r) /\ Settling

LEMMA CaptureShape ==
  ASSUME TypeInv, NEW r \in Req, Capture(r)
  PROVE  /\ Booking
         /\ \/ Settling /\ (Quiet(r) \/ Reads(r))
            \/ Confirms(r)
<1> USE ReqAssumption, DoneFrame, GotoFrame, StartFrame, TakeFrame, RememberFrame
    DEF Quiet, Others, Critical, Idle, GotoOrDone, db, locks, external, Settling,
        Booking, ReleaseAll, Release, Writable
<1>1. CASE CaptureBegin(r)
  BY <1>1 DEF CaptureBegin, Reads
<1>2. CASE CaptureNothing(r)
  BY <1>2 DEF CaptureNothing
<1>3. CASE CaptureDuplicate(r)
  BY <1>3 DEF CaptureDuplicate, TypeInv, TypeOK, Local
<1>4. CASE CaptureLate(r)
  BY <1>4 DEF CaptureLate, RecordCapture, Attempt, TypeInv, TypeOK
<1>5. CASE CaptureConfirm(r)
  <2>1. Booking
    BY <1>5 DEF CaptureConfirm, RecordCapture, Attempt, TypeInv, TypeOK
  <2>2. Confirms(r)
    BY <1>5 DEF CaptureConfirm, Confirms, At
  <2> QED
    BY <2>1, <2>2
<1> QED
  BY <1>1, <1>2, <1>3, <1>4, <1>5 DEF Capture

LEMMA RefundShape ==
  ASSUME TypeInv, NEW r \in Req, Refund(r)
  PROVE  /\ Settling
         /\ \/ Booking /\ (Quiet(r) \/ Refunds(r))
            \/ Books(r) /\ RefundMark(r)
<1> USE ReqAssumption, DoneFrame, GotoFrame, StartFrame, TakeFrame, RememberFrame
    DEF Quiet, Others, Critical, Idle, GotoOrDone, db, locks, external, Settling,
        Booking, ReleaseAll, Release, Writable
<1>1. CASE RefundClaim(r)
  BY <1>1 DEF RefundClaim, TypeInv, TypeOK
<1>2. CASE RefundCall(r)
  <2>1. req[r].o \in RzpOrder
    BY <1>2, LocalsType DEF RefundCall, At, OrderPC
  <2>2. rzp'[req[r].o] = "refunded" /\ Booking
    BY <1>2, <2>1 DEF RefundCall, TypeInv, TypeOK
  <2> QED
    BY <1>2, <2>1, <2>2 DEF RefundCall, Refunds
<1>3. CASE RefundCallFails(r)
  BY <1>3 DEF RefundCallFails
<1>4. CASE RefundMark(r)
  BY <1>4 DEF RefundMark, Books, At
<1>5. CASE RefundPay(r)
  BY <1>5 DEF RefundPay
<1> QED
  BY <1>1, <1>2, <1>3, <1>4, <1>5 DEF Refund

LEMMA AdminShape ==
  ASSUME TypeInv, NEW r \in Req, Admin(r),
         \A s \in Req : req[s].pc = "admin.tx" => req[s].to # "PENDING_PAYMENT"
  PROVE  Settling /\ Booking /\ (Quiet(r) \/ Asks(r))
<1> USE ReqAssumption, DoneFrame, GotoFrame, StartFrame, TakeFrame, RememberFrame
    DEF Quiet, Others, Critical, Idle, GotoOrDone, db, locks, external, Settling,
        Booking, ReleaseAll, Release, Writable
<1>1. CASE AdminStart(r)
  <2>1. PICK to \in Transitions(order) :
          req' = [req EXCEPT ![r] = [Idle EXCEPT !.pc = "admin.tx", !.op = "admin",
                                        !.saw = order, !.to = to]]
    BY <1>1 DEF AdminStart
  <2>2. to # "PENDING_PAYMENT"
    BY <2>1 DEF Transitions
  <2>3. /\ req'[r].pc = "admin.tx" /\ req'[r].to = to
        /\ \A s \in Req \ {r} : req'[s] = req[s]
    BY <2>1 DEF TypeInv, TypeOK
  <2>4. Asks(r)
    BY <1>1, <2>2, <2>3 DEF AdminStart, Asks
  <2> QED
    BY <1>1, <2>4 DEF AdminStart
<1>2. CASE AdminMove(r)
  BY <1>2 DEF AdminMove, At
<1>3. CASE AdminLockPayment(r)
  BY <1>3 DEF AdminLockPayment
<1>4. CASE AdminLockOrder(r)
  BY <1>4 DEF AdminLockOrder
<1>5. CASE AdminRefund(r)
  BY <1>5 DEF AdminRefund, TypeInv, TypeOK
<1>6. CASE AdminRefundFails(r)
  BY <1>6 DEF AdminRefundFails, TypeInv, TypeOK
<1>7. CASE AdminCommit(r)
  BY <1>7 DEF AdminCommit
<1> QED
  BY <1>1, <1>2, <1>3, <1>4, <1>5, <1>6, <1>7 DEF Admin

LEMMA EnvironmentShape ==
  ASSUME TypeInv,
         \/ \E o \in RzpOrder : RzpAuthorize(o) \/ RzpCapture(o) \/ RzpFail(o)
         \/ CloseWindow \/ RecoverStaleCreation \/ AtRest
  PROVE  Settling /\ Booking /\ UNCHANGED <<req, locks>>
  BY DEF RzpAuthorize, RzpCapture, RzpFail, CloseWindow, RecoverStaleCreation, AtRest,
     Payable, db, locks, external, vars, Settling, Booking, TypeInv, TypeOK

LEMMA FailureShape ==
  ASSUME TypeInv, NEW r \in Req, Crash(r) \/ DeadlockVictim(r)
  PROVE  Settling /\ Booking /\ Quiet(r)
<1> USE ReqAssumption, DoneFrame, GotoFrame, StartFrame, TakeFrame, RememberFrame
    DEF Quiet, Others, Critical, Idle, GotoOrDone, db, locks, external, Settling,
        Booking, ReleaseAll, Release, Writable
<1>1. CASE Crash(r)
  BY <1>1 DEF Crash, Abandon
<1>2. CASE DeadlockVictim(r)
  BY <1>2 DEF DeadlockVictim
<1> QED
  BY <1>1, <1>2

\* Both invariants survive a step of any of these shapes.
LEMMA ConfirmPreserved ==
  ASSUME TypeInv, ConfirmInv, NEW r \in Req,
         (Settling /\ (Quiet(r) \/ Reads(r) \/ Asks(r) \/ Refunds(r))) \/ Confirms(r)
  PROVE  ConfirmInv'
<1>1. CASE Settling /\ (Quiet(r) \/ Reads(r) \/ Asks(r) \/ Refunds(r))
  <2> USE <1>1, ReqAssumption
      DEF Settling, Quiet, Reads, Asks, Refunds, Others, Critical
  <2>1. \A s \in Req : req'[s].pc = "capture.commit" => payLock' = s
    BY DEF ConfirmInv
  <2>2. \A s \in Req : req'[s].pc = "admin.tx" => req'[s].to # "PENDING_PAYMENT"
    BY DEF ConfirmInv
  <2>3. order' = "PENDING_PAYMENT" => NothingConfirmed'
    BY DEF ConfirmInv, NothingConfirmed
  <2>4. \A s \in Req :
          req'[s].pc = "capture.commit" /\ req'[s].saw = "PENDING_PAYMENT"
            => NothingConfirmed'
    BY DEF ConfirmInv, NothingConfirmed
  <2>5. ConfirmedOnce'
    BY DEF ConfirmInv, ConfirmedOnce
  <2> QED
    BY <2>1, <2>2, <2>3, <2>4, <2>5 DEF ConfirmInv
<1>2. CASE Confirms(r)
  <2> USE <1>2 DEF Confirms, Others, Critical
  <2>1. NothingConfirmed /\ payLock = r
    BY DEF ConfirmInv
  <2>2. \A s \in Req : req'[s].pc # "capture.commit"
    BY <2>1 DEF ConfirmInv
  <2>3. \A s \in Req : req'[s].pc = "admin.tx" => req'[s].to # "PENDING_PAYMENT"
    BY DEF ConfirmInv
  <2>4. \A o \in RzpOrder : confirmed'[o] = IF o = req[r].o THEN 1 ELSE 0
    BY <2>1 DEF NothingConfirmed, TypeInv, TypeOK
  <2>5. ConfirmedOnce'
    BY <2>4 DEF ConfirmedOnce
  <2> QED
    BY <2>2, <2>3, <2>5 DEF ConfirmInv
<1> QED
  BY <1>1, <1>2

LEMMA NextConfirm == TypeInv /\ ConfirmInv /\ [Next]_vars => ConfirmInv'
<1> SUFFICES ASSUME TypeInv, ConfirmInv, [Next]_vars
             PROVE  ConfirmInv'
  OBVIOUS
<1>1. \A s \in Req : req[s].pc = "admin.tx" => req[s].to # "PENDING_PAYMENT"
  BY DEF ConfirmInv
<1>2. CASE \/ \E o \in RzpOrder : RzpAuthorize(o) \/ RzpCapture(o) \/ RzpFail(o)
           \/ CloseWindow \/ RecoverStaleCreation \/ AtRest
  <2>1. Settling /\ UNCHANGED <<req, payLock>>
    BY <1>2, EnvironmentShape DEF locks
  <2> QED
    BY <2>1 DEF Settling, ConfirmInv, NothingConfirmed, ConfirmedOnce
<1>3. CASE \E r \in Req : Create(r) \/ Notify(r) \/ Cancel(r) \/ Retry(r) \/ Cron(r)
                          \/ Crash(r) \/ DeadlockVictim(r)
  BY <1>3, CreateQuiet, NotifyQuiet, CustomerQuiet, CronQuiet, FailureShape,
     ConfirmPreserved
<1>4. CASE \E r \in Req : Capture(r)
  BY <1>4, CaptureShape, ConfirmPreserved
<1>5. CASE \E r \in Req : Refund(r)
  BY <1>5, RefundShape, ConfirmPreserved DEF Books
<1>6. CASE \E r \in Req : Admin(r)
  BY <1>1, <1>6, AdminShape, ConfirmPreserved
<1>7. CASE UNCHANGED vars
  BY <1>7 DEF vars, ConfirmInv, NothingConfirmed, ConfirmedOnce
<1> QED
  BY <1>2, <1>3, <1>4, <1>5, <1>6, <1>7 DEF Next

\* For any number of handlers and Razorpay orders, with every operation and
\* with crashes: applyCapturedPayment runs its confirmation block once at most.
THEOREM ConfirmationHappensOnce == Spec => []ConfirmedOnce
<1>1. TypeInv /\ ConfirmInv /\ [Next]_vars => (TypeInv /\ ConfirmInv)'
  BY NextType, NextConfirm
<1>2. ConfirmInv => ConfirmedOnce
  BY DEF ConfirmInv
<1> QED
  BY <1>1, <1>2, InitType, InitConfirm, PTL DEF Spec

-----------------------------------------------------------------------------
(* A refund is booked only after Razorpay made it: a handler that is about to *)
(* book one saw the answer, and Razorpay never takes a refund back.           *)

RefundInv ==
  /\ \A r \in Req : req[r].pc = "refund.mark" => rzp[req[r].o] = "refunded"
  /\ RefundsAreReal

LEMMA InitRefund == Init => RefundInv
  BY DEF Init, RefundInv, RefundsAreReal, Idle

LEMMA RefundPreserved ==
  ASSUME TypeInv, RefundInv, NEW r \in Req, Booking,
         Quiet(r) \/ Reads(r) \/ Asks(r) \/ Refunds(r) \/ Confirms(r)
  PROVE  RefundInv'
<1>1. ASSUME NEW s \in Req, req'[s].pc = "refund.mark"
      PROVE  rzp'[req'[s].o] = "refunded"
  <2>1. CASE s = r
    BY <1>1, <2>1 DEF Quiet, Reads, Asks, Refunds, Confirms, Critical
  <2>2. CASE s # r
    <3>1. req'[s] = req[s]
      BY <2>2 DEF Quiet, Reads, Asks, Refunds, Confirms, Others
    <3>2. req[s].o \in RzpOrder
      BY <1>1, <3>1, LocalsType DEF OrderPC
    <3> QED
      BY <1>1, <3>1, <3>2 DEF RefundInv, Booking
  <2> QED
    BY <2>1, <2>2
<1>2. RefundsAreReal'
  BY DEF RefundInv, RefundsAreReal, Booking
<1> QED
  BY <1>1, <1>2 DEF RefundInv

LEMMA NextRefund == TypeInv /\ ConfirmInv /\ RefundInv /\ [Next]_vars => RefundInv'
<1> SUFFICES ASSUME TypeInv, ConfirmInv, RefundInv, [Next]_vars
             PROVE  RefundInv'
  OBVIOUS
<1>1. \A s \in Req : req[s].pc = "admin.tx" => req[s].to # "PENDING_PAYMENT"
  BY DEF ConfirmInv
<1>2. ASSUME Booking, UNCHANGED req
      PROVE  RefundInv'
  <2>1. \A s \in Req : req[s].pc = "refund.mark" => req[s].o \in RzpOrder
    BY LocalsType DEF OrderPC
  <2> QED
    BY <1>2, <2>1 DEF RefundInv, RefundsAreReal, Booking
<1>3. CASE \/ \E o \in RzpOrder : RzpAuthorize(o) \/ RzpCapture(o) \/ RzpFail(o)
           \/ CloseWindow \/ RecoverStaleCreation \/ AtRest
  BY <1>2, <1>3, EnvironmentShape
<1>4. CASE \E r \in Req : Create(r) \/ Notify(r) \/ Cancel(r) \/ Retry(r) \/ Cron(r)
                          \/ Crash(r) \/ DeadlockVictim(r)
  BY <1>4, CreateQuiet, NotifyQuiet, CustomerQuiet, CronQuiet, FailureShape,
     RefundPreserved
<1>5. CASE \E r \in Req : Capture(r)
  BY <1>5, CaptureShape, RefundPreserved
<1>6. CASE \E r \in Req : Refund(r)
  <2> PICK r \in Req : Refund(r)
    BY <1>6
  <2>1. CASE Booking /\ (Quiet(r) \/ Refunds(r))
    BY <2>1, RefundPreserved
  <2>2. CASE Books(r) /\ RefundMark(r)
    <3>1. req[r].o \in RzpOrder /\ rzp[req[r].o] = "refunded"
      BY <2>2, LocalsType DEF Books, OrderPC, RefundInv
    <3>2. Booking
      BY <2>2, <3>1 DEF RefundMark, Booking, external, TypeInv, TypeOK
    <3> QED
      BY <2>2, <3>2, RefundPreserved DEF Books
  <2> QED
    BY <2>1, <2>2, RefundShape
<1>7. CASE \E r \in Req : Admin(r)
  BY <1>1, <1>7, AdminShape, RefundPreserved
<1>8. CASE UNCHANGED vars
  <2>1. Booking /\ UNCHANGED req
    BY <1>8 DEF vars, Booking
  <2> QED
    BY <1>2, <2>1
<1> QED
  BY <1>3, <1>4, <1>4, <1>5, <1>6, <1>7, <1>8 DEF Next

\* Whatever answers were lost and whoever reconciles them, an attempt is booked
\* REFUNDED only if its payment went back at Razorpay.
THEOREM BookedRefundsAreReal == Spec => []RefundsAreReal
<1>1. TypeInv /\ ConfirmInv /\ RefundInv /\ [Next]_vars
        => (TypeInv /\ ConfirmInv /\ RefundInv)'
  BY NextType, NextConfirm, NextRefund
<1>2. RefundInv => RefundsAreReal
  BY DEF RefundInv
<1> QED
  BY <1>1, <1>2, InitType, InitConfirm, InitRefund, PTL DEF Spec

=============================================================================
