--------------------- MODULE OrderPayment_money_proofs ----------------------
(* What OrderPayment promises about captures, refunds and the coupon once    *)
(* the handlers that write rows from an older, unlocked read are set apart:  *)
(* retry for the money, cancel for the coupon.  Every other operation,       *)
(* crashes, deadlock victims and lost answers may interleave, for any number *)
(* of handlers and Razorpay orders.                                          *)
EXTENDS OrderPayment_proofs

WithoutRetry == "retry" \notin Ops
WithoutCancel == "cancel" \notin Ops

Refunding == {"refund.claim", "refund.call", "refund.mark", "refund.pay"}
Returning == Refunding \cup {"recover.fetch", "recover.pay"}
AdminPC == {"admin.tx", "admin.locked", "admin.refund", "admin.commit"}

Unpaid == {"PENDING", "CREATING", "FAILED"}

\* No capture has been recorded, so nothing can be refunded.
Untouched ==
  /\ payment.status \in Unpaid
  /\ \A o \in RzpOrder : attempt[o] \in {"NONE", "PENDING", "FAILED"}
  /\ \A r \in Req : req[r].pc \notin Returning \cup {"admin.refund", "admin.commit"}

\* The handler is about to confirm the order from what it read under its lock.
Confirming(r) == req[r].pc = "capture.commit" /\ req[r].saw = "PENDING_PAYMENT"

-----------------------------------------------------------------------------
(* The Order lock, and the coupon.  A handler that has locked the order row   *)
(* finds it as it read it; who releases a use ends a pending order with it.   *)

HoldsOrder == {"expire.commit", "admin.refund", "admin.commit"}
OrderLockInv ==
  \A r \in Req :
    /\ req[r].pc \in HoldsOrder => ordLock = r
    /\ req[r].pc = "expire.commit" => order = "PENDING_PAYMENT"

\* What a step does to the order row, and to whom the lock on it belongs.
Locking(r) ==
  /\ Others(r)
  /\ order' = order \/ (ordLock \in {Nobody, r} /\ order' # "PENDING_PAYMENT")
  /\ req'[r].pc \in HoldsOrder => ordLock' = r
  /\ req'[r].pc = "expire.commit" => order' = "PENDING_PAYMENT"

\* A use of the coupon is released by the step that ends the pending order.
Spending ==
  \/ coupon' = coupon
  \/ coupon' = coupon - 1 /\ order = "PENDING_PAYMENT" /\ order' # "PENDING_PAYMENT"

\* Most handlers write neither the order nor the coupon, and never lock the order.
OrderAlone(r) ==
  \/ Create(r) \/ Refund(r) \/ Notify(r) \/ Retry(r) \/ Crash(r) \/ DeadlockVictim(r)
  \/ CaptureBegin(r) \/ CaptureNothing(r) \/ CaptureDuplicate(r) \/ CaptureLate(r)

LEMMA SameOrder ==
  ASSUME NEW r \in Req, OrderAlone(r)
  PROVE  order' = order /\ coupon' = coupon
  BY DEF OrderAlone, Create, CreateStart, CreateRead, CreateClaim, CreateCall, CreateCallFails,
     CreateSaveRead, CreateSaveWrite, CreateRelease, Refund, RefundClaim, RefundCall,
     RefundCallFails, RefundMark, RefundPay, Notify, VerifyStart, VerifyFetch, HookStart,
     FailStart, FailLock, FailCommit, Retry, RetryStart, RetryWrite, Crash, Abandon,
     DeadlockVictim, CaptureBegin, CaptureNothing, CaptureDuplicate, CaptureLate, db

LEMMA LeavesOrder ==
  ASSUME TypeInv, NEW r \in Req, OrderAlone(r)
  PROVE  Locking(r) /\ Spending
<1>1. Others(r)
  BY CreateQuiet, RefundShape, NotifyQuiet, CustomerQuiet, FailureShape, CaptureShape
  DEF OrderAlone, Quiet, Refunds, Books, Reads, Confirms, Capture
<1>2. order' = order /\ coupon' = coupon
  BY SameOrder
<1>3. req'[r].pc \notin HoldsOrder
  <2> USE DoneFrame, GotoFrame, StartFrame, TakeFrame, RememberFrame
      DEF HoldsOrder, GotoOrDone, Idle
  <2>1. CASE Create(r)
    BY <2>1 DEF Create, CreateStart, CreateRead, CreateClaim, CreateCall, CreateCallFails,
       CreateSaveRead, CreateSaveWrite, CreateRelease
  <2>2. CASE Refund(r)
    BY <2>2 DEF Refund, RefundClaim, RefundCall, RefundCallFails, RefundMark, RefundPay
  <2>3. CASE Notify(r)
    BY <2>3 DEF Notify, VerifyStart, VerifyFetch, HookStart, FailStart, FailLock, FailCommit
  <2>4. CASE Retry(r)
    BY <2>4 DEF Retry, RetryStart, RetryWrite
  <2>5. CASE Crash(r) \/ DeadlockVictim(r)
    BY <2>5 DEF Crash, Abandon, DeadlockVictim
  <2>6. CASE CaptureBegin(r) \/ CaptureNothing(r) \/ CaptureLate(r)
    BY <2>6 DEF CaptureBegin, CaptureNothing, CaptureLate
  <2>7. CASE CaptureDuplicate(r)
    BY <2>7 DEF CaptureDuplicate, TypeInv, TypeOK, Local
  <2> QED BY <2>1, <2>2, <2>3, <2>4, <2>5, <2>6, <2>7 DEF OrderAlone
<1> QED BY <1>1, <1>2, <1>3 DEF Locking, Spending, HoldsOrder

LEMMA CancelOrder ==
  ASSUME TypeInv, NEW r \in Req, Cancel(r)
  PROVE  Locking(r) /\ (Spending \/ CancelWrite(r))
<1> USE DoneFrame, GotoFrame, StartFrame DEF HoldsOrder, GotoOrDone, Idle, db
<1>1. Others(r)
  BY CustomerQuiet DEF Quiet
<1>2. CASE CancelStart(r)
  BY <1>1, <1>2 DEF CancelStart, Locking, Spending
<1>3. CASE CancelFetch(r)
  BY <1>1, <1>3 DEF CancelFetch, Fetched, Locking, Spending
<1>4. CASE CancelRead(r)
  BY <1>1, <1>4 DEF CancelRead, Locking, Spending
<1>5. CASE CancelWrite(r)
  BY <1>1, <1>5 DEF CancelWrite, Writable, Locking
<1>6. CASE CancelFinal(r)
  <2>1. req'[r] = Idle /\ ordLock \in {Nobody, r}
    BY <1>6 DEF CancelFinal, Writable
  <2>2. \/ UNCHANGED <<order, coupon>>
        \/ order = "PENDING_PAYMENT" /\ order' = "CANCELLED" /\ coupon' \in {coupon, coupon - 1}
    BY <1>6 DEF CancelFinal, ReleaseCoupon, TypeInv, TypeOK
  <2> QED BY <1>1, <2>1, <2>2 DEF Locking, Spending
<1> QED BY <1>2, <1>3, <1>4, <1>5, <1>6 DEF Cancel

LEMMA CronOrder ==
  ASSUME TypeInv, OrderLockInv, NEW r \in Req, Cron(r)
  PROVE  Locking(r) /\ Spending
<1> USE DoneFrame, GotoFrame, StartFrame, RememberFrame DEF HoldsOrder, GotoOrDone, Idle, db
<1>1. Others(r)
  BY CronQuiet DEF Quiet
<1>2. CASE ExpireStart(r) \/ ExpireFetch(r)
  BY <1>1, <1>2 DEF ExpireStart, ExpireFetch, Fetched, Locking, Spending
<1>3. CASE ExpireLock(r)
  BY <1>1, <1>3 DEF ExpireLock, StillPending, Locking, Spending
<1>4. CASE ExpireCommit(r)
  <2>1. req'[r] = Idle /\ ordLock = r /\ order = "PENDING_PAYMENT"
    BY <1>4 DEF ExpireCommit, At, OrderLockInv
  <2>2. \/ UNCHANGED <<order, coupon>>
        \/ order' = "CANCELLED" /\ coupon' \in {coupon, coupon - 1}
    BY <1>4 DEF ExpireCommit, ReleaseCoupon, TypeInv, TypeOK
  <2> QED BY <1>1, <2>1, <2>2 DEF Locking, Spending
<1>5. CASE RecoverStart(r)
  <2>1. req'[r].pc = "recover.fetch"
    BY <1>5 DEF RecoverStart, TypeInv, TypeOK
  <2> QED BY <1>1, <1>5, <2>1 DEF RecoverStart, Locking, Spending
<1>6. CASE RecoverFetch(r) \/ RecoverPay(r)
  BY <1>1, <1>6 DEF RecoverFetch, RecoverPay, Locking, Spending
<1> QED BY <1>2, <1>3, <1>4, <1>5, <1>6 DEF Cron

LEMMA AdminOrder ==
  ASSUME TypeInv, ConfirmInv, OrderLockInv, NEW r \in Req, Admin(r)
  PROVE  Locking(r) /\ Spending
<1> USE DoneFrame, GotoFrame, TakeFrame DEF HoldsOrder, Idle, db, locks
<1>1. Others(r)
  BY AdminShape DEF Quiet, Asks, ConfirmInv
<1>2. CASE AdminStart(r)
  <2>1. req'[r].pc = "admin.tx"
    BY <1>2 DEF AdminStart, TypeInv, TypeOK
  <2> QED BY <1>1, <1>2, <2>1 DEF AdminStart, Locking, Spending
<1>3. CASE AdminMove(r)
  <2>1. req'[r] = Idle /\ ordLock \in {Nobody, r} /\ req[r].to # "PENDING_PAYMENT"
    BY <1>3 DEF AdminMove, Writable, At, ConfirmInv
  <2>2. \/ UNCHANGED <<order, coupon>>
        \/ order' = req[r].to /\ coupon' = coupon
        \/ order = "PENDING_PAYMENT" /\ order' = req[r].to /\ coupon' = coupon - 1
    BY <1>3 DEF AdminMove, SameStatus, ReleaseCoupon, TypeInv, TypeOK
  <2> QED BY <1>1, <2>1, <2>2 DEF Locking, Spending
<1>4. CASE AdminLockPayment(r)
  BY <1>1, <1>4 DEF AdminLockPayment, Locking, Spending
<1>5. CASE AdminLockOrder(r)
  BY <1>1, <1>5 DEF AdminLockOrder, Locking, Spending
<1>6. CASE AdminRefund(r) \/ AdminRefundFails(r)
  BY <1>1, <1>6 DEF AdminRefund, AdminRefundFails, At, OrderLockInv, Locking, Spending
<1>7. CASE AdminCommit(r)
  BY <1>1, <1>7 DEF AdminCommit, At, OrderLockInv, Locking, Spending
<1> QED BY <1>2, <1>3, <1>4, <1>5, <1>6, <1>7 DEF Admin

\* Every step of a handler, then, is of this kind.
LEMMA OrderShape ==
  ASSUME TypeInv, ConfirmInv, OrderLockInv, NEW r \in Req,
         \/ Create(r) \/ Capture(r) \/ Refund(r) \/ Notify(r) \/ Cancel(r) \/ Retry(r)
         \/ Cron(r) \/ Admin(r) \/ Crash(r) \/ DeadlockVictim(r)
  PROVE  Locking(r) /\ (Spending \/ CancelWrite(r))
<1>1. CASE CaptureConfirm(r)
  <2>1. Others(r)
    BY <1>1, CaptureShape DEF Capture, Quiet, Reads, Confirms
  <2> QED
    BY <1>1, <2>1, DoneFrame DEF CaptureConfirm, Writable, Idle, HoldsOrder, Locking, Spending
<1> QED
  BY <1>1, LeavesOrder, CancelOrder, CronOrder, AdminOrder DEF Capture, OrderAlone

LEMMA OrderLockNext == TypeInv /\ ConfirmInv /\ OrderLockInv /\ [Next]_vars => OrderLockInv'
<1> SUFFICES ASSUME TypeInv, ConfirmInv, OrderLockInv, [Next]_vars
             PROVE  OrderLockInv'
  OBVIOUS
<1>1. ASSUME NEW r \in Req, Locking(r)
      PROVE  OrderLockInv'
  <2> SUFFICES ASSUME NEW s \in Req
               PROVE  /\ req'[s].pc \in HoldsOrder => ordLock' = s
                      /\ req'[s].pc = "expire.commit" => order' = "PENDING_PAYMENT"
    BY DEF OrderLockInv
  <2>1. CASE s = r
    BY <1>1, <2>1 DEF Locking
  <2>2. CASE s # r
    <3>1. req'[s] = req[s] /\ (ordLock = s => ordLock' = s)
      BY <1>1, <2>2 DEF Locking, Others
    <3> QED BY <1>1, <2>2, <3>1, ReqAssumption DEF Locking, OrderLockInv, HoldsOrder
  <2> QED BY <2>1, <2>2
<1>2. CASE UNCHANGED <<order, ordLock, req>>
  BY <1>2 DEF OrderLockInv
<1>3. CASE \/ \E o \in RzpOrder : RzpAuthorize(o) \/ RzpCapture(o) \/ RzpFail(o)
           \/ CloseWindow \/ RecoverStaleCreation \/ AtRest
  BY <1>2, <1>3 DEF RzpAuthorize, RzpCapture, RzpFail, CloseWindow, RecoverStaleCreation,
     AtRest, db, locks, vars
<1> QED BY <1>1, <1>2, <1>3, OrderShape DEF Next, vars

LEMMA OrderLockHolds == Spec => [](TypeInv /\ ConfirmInv /\ OrderLockInv)
<1>1. Init => OrderLockInv
  BY DEF Init, Idle, OrderLockInv, HoldsOrder
<1>2. TypeInv /\ ConfirmInv /\ OrderLockInv /\ [Next]_vars => (TypeInv /\ ConfirmInv /\ OrderLockInv)'
  BY NextType, NextConfirm, OrderLockNext
<1> QED
  BY <1>1, <1>2, InitType, InitConfirm, PTL DEF Spec

CancelsPaid(r) == CancelWrite(r) \/ (AdminMove(r) /\ req[r].to = "CANCELLED")
PaidOrderCancelled ==
  order \in PaidStatuses /\ order' = "CANCELLED" => \E r \in Req : CancelsPaid(r)

LEMMA WhoCancels ==
  ASSUME TypeInv, OrderLockInv, [Next]_vars
  PROVE  PaidOrderCancelled
<1> SUFFICES ASSUME order \in PaidStatuses, order' = "CANCELLED"
             PROVE  \E r \in Req : CancelsPaid(r)
  BY DEF PaidOrderCancelled
<1> USE DEF PaidStatuses, db, locks
<1>1. PICK r \in Req :
        \/ Create(r) \/ Capture(r) \/ Refund(r) \/ Notify(r) \/ Cancel(r) \/ Retry(r)
        \/ Cron(r) \/ Admin(r) \/ Crash(r) \/ DeadlockVictim(r)
  BY DEF Next, RzpAuthorize, RzpCapture, RzpFail, CloseWindow, RecoverStaleCreation, AtRest, vars
<1>2. ~CaptureConfirm(r)
  BY DEF CaptureConfirm
<1>3. Cancel(r) \/ Cron(r) \/ Admin(r)
  BY <1>1, <1>2, SameOrder DEF Capture, OrderAlone
<1>4. CASE Cancel(r)
  BY <1>4 DEF Cancel, CancelStart, CancelFetch, CancelRead, CancelFinal, CancelsPaid
<1>5. CASE Cron(r)
  BY <1>5 DEF Cron, ExpireStart, ExpireFetch, ExpireLock, ExpireCommit, RecoverStart,
     RecoverFetch, RecoverPay, At, OrderLockInv
<1>6. CASE Admin(r)
  BY <1>6 DEF Admin, AdminStart, AdminMove, AdminLockPayment, AdminLockOrder, AdminRefund,
     AdminRefundFails, AdminCommit, CancelsPaid
<1> QED BY <1>3, <1>4, <1>5, <1>6

\* Of everything that cancels orders, only the closing transaction of the payment
\* dialog, which locks nothing, and an administrator who asks for it can cancel
\* an order that is being fulfilled; the expiry and the end of a cancel never
\* do, whatever captures they race with.
THEOREM OnlyDismissOrAdminCancelsPaid == Spec => [][PaidOrderCancelled]_vars
<1>1. TypeInv /\ OrderLockInv /\ [Next]_vars => [PaidOrderCancelled]_vars
  BY WhoCancels
<1> QED
  BY <1>1, OrderLockHolds, PTL DEF Spec

-----------------------------------------------------------------------------
(* Waiting for row locks.  A handler holds one only in the middle of its       *)
(* transaction, so that whoever holds both rows waits for nobody.             *)

HoldsPayment == {"capture.commit", "fail.commit", "admin.locked", "admin.refund", "admin.commit"}
HasPayment(l) == l \in HoldsPayment \cup {"expire.commit"}
HasOrder(l) == l \in HoldsOrder \cup {"capture.commit", "admin.locked"}

\* The second disjuncts are what the victim of a deadlock hands over.
LocksInv ==
  \A r \in Req :
    /\ req[r].pc \in HoldsPayment => payLock = r
    /\ payLock = r => HasPayment(req[r].pc)
    /\ ordLock = r => HasOrder(req[r].pc)

\* A step of a handler takes a lock where it holds one, and gives it to nobody
\* but a handler that waits for it in a deadlock.
Passes(r) ==
  /\ Others(r)
  /\ \A s \in Req \ {r} :
       /\ payLock' = s => payLock = s \/ req[s].pc = "expire.commit"
       /\ ordLock' = s => ordLock = s \/ req[s].pc \in {"capture.commit", "admin.locked"}
  /\ req'[r].pc \in HoldsPayment => payLock' = r
  /\ payLock' = r => HasPayment(req'[r].pc)
  /\ ordLock' = r => HasOrder(req'[r].pc)

\* Most steps are taken without a lock and leave without one.
Lockless(r) ==
  /\ UNCHANGED locks
  /\ ~HasPayment(req[r].pc) /\ ~HasOrder(req[r].pc)
  /\ ~HasPayment(req'[r].pc)

LEMMA LocklessPasses ==
  ASSUME LocksInv, NEW r \in Req, Others(r), Lockless(r)
  PROVE  Passes(r)
<1>1. payLock # r /\ ordLock # r
  BY DEF LocksInv, Lockless
<1> QED
  BY <1>1 DEF Passes, Lockless, locks, HasPayment

LEMMA CreateLockless ==
  ASSUME TypeInv, NEW r \in Req, Create(r)
  PROVE  Lockless(r)
<1> USE DoneFrame, GotoFrame, StartFrame, TakeFrame
    DEF Lockless, HasPayment, HasOrder, HoldsPayment, HoldsOrder, Idle, GotoOrDone, db, locks, At
<1>1. CASE CreateStart(r) \/ CreateRead(r)
  BY <1>1 DEF CreateStart, CreateRead, Invoke
<1>2. CASE CreateClaim(r) \/ CreateCall(r)
  BY <1>2 DEF CreateClaim, CreateCall
<1>3. CASE CreateCallFails(r) \/ CreateSaveRead(r)
  BY <1>3 DEF CreateCallFails, CreateSaveRead
<1>4. CASE CreateSaveWrite(r) \/ CreateRelease(r)
  BY <1>4 DEF CreateSaveWrite, CreateRelease
<1> QED
  BY <1>1, <1>2, <1>3, <1>4 DEF Create

LEMMA RefundLockless ==
  ASSUME TypeInv, NEW r \in Req, Refund(r)
  PROVE  Lockless(r)
<1> USE DoneFrame, GotoFrame
    DEF Lockless, HasPayment, HasOrder, HoldsPayment, HoldsOrder, Idle, GotoOrDone, db, locks, At
<1>1. CASE RefundClaim(r) \/ RefundCall(r)
  BY <1>1 DEF RefundClaim, RefundCall
<1>2. CASE RefundCallFails(r) \/ RefundMark(r)
  BY <1>2 DEF RefundCallFails, RefundMark
<1>3. CASE RefundPay(r)
  BY <1>3 DEF RefundPay
<1> QED
  BY <1>1, <1>2, <1>3 DEF Refund

LEMMA CustomerLockless ==
  ASSUME TypeInv, NEW r \in Req, Cancel(r) \/ Retry(r)
  PROVE  Lockless(r)
<1> USE DoneFrame, GotoFrame, StartFrame
    DEF Lockless, HasPayment, HasOrder, HoldsPayment, HoldsOrder, Idle, GotoOrDone, db, locks, At
<1>1. CASE CancelStart(r)
  BY <1>1 DEF CancelStart, Invoke
<1>2. CASE CancelFetch(r)
  BY <1>2 DEF CancelFetch, Fetched
<1>3. CASE CancelRead(r)
  BY <1>3 DEF CancelRead
<1>4. CASE CancelWrite(r)
  BY <1>4 DEF CancelWrite
<1>5. CASE CancelFinal(r)
  BY <1>5 DEF CancelFinal
<1>6. CASE RetryStart(r) \/ RetryWrite(r)
  BY <1>6 DEF RetryStart, RetryWrite, Invoke
<1> QED
  BY <1>1, <1>2, <1>3, <1>4, <1>5, <1>6 DEF Cancel, Retry

LEMMA NotifyPasses ==
  ASSUME TypeInv, LocksInv, NEW r \in Req, Notify(r)
  PROVE  Passes(r)
<1> USE DoneFrame, GotoFrame, StartFrame, RememberFrame
    DEF HasPayment, HasOrder, HoldsPayment, HoldsOrder, Idle, GotoOrDone, db, locks, At
<1>1. Others(r)
  BY NotifyQuiet DEF Quiet
<1>2. CASE VerifyStart(r) \/ HookStart(r) \/ FailStart(r)
  <2>1. Lockless(r)
    BY <1>2 DEF VerifyStart, HookStart, FailStart, Invoke, Lockless
  <2> QED BY <1>1, <2>1, LocklessPasses
<1>3. CASE VerifyFetch(r)
  <2>1. Lockless(r)
    BY <1>3 DEF VerifyFetch, Lockless
  <2> QED BY <1>1, <2>1, LocklessPasses
<1>4. CASE FailLock(r)
  <2>1. payLock' = r /\ ordLock' = ordLock /\ req'[r].pc = "fail.commit" /\ ordLock # r
    BY <1>4 DEF FailLock, LocksInv
  <2> QED BY <1>1, <2>1 DEF Passes
<1>5. CASE FailCommit(r)
  <2>1. ReleaseAll(r) /\ req'[r].pc = "idle"
    BY <1>5 DEF FailCommit
  <2> QED BY <1>1, <2>1, ReqAssumption DEF ReleaseAll, Release, Passes
<1> QED
  BY <1>2, <1>3, <1>4, <1>5 DEF Notify

\* What a transaction that ends does to the locks.
LEMMA ReleasePasses ==
  ASSUME NEW r \in Req, Others(r), ReleaseAll(r), req'[r].pc \notin HoldsPayment
  PROVE  Passes(r)
  BY ReqAssumption DEF ReleaseAll, Release, Passes

LEMMA CapturePasses ==
  ASSUME TypeInv, LocksInv, NEW r \in Req, Capture(r)
  PROVE  Passes(r)
<1> USE DoneFrame, GotoFrame, RememberFrame
    DEF HasPayment, HasOrder, HoldsPayment, HoldsOrder, Idle, db, locks, At
<1>1. Others(r)
  BY CaptureShape DEF Quiet, Reads, Confirms
<1>2. CASE CaptureNothing(r)
  <2>1. Lockless(r)
    BY <1>2 DEF CaptureNothing, Lockless
  <2> QED BY <1>1, <2>1, LocklessPasses
<1>3. CASE CaptureDuplicate(r)
  <2>1. Lockless(r)
    BY <1>3 DEF CaptureDuplicate, Lockless, TypeInv, TypeOK, Local
  <2> QED BY <1>1, <2>1, LocklessPasses
<1>4. CASE CaptureBegin(r)
  <2>1. payLock' = r /\ ordLock' = ordLock /\ req'[r].pc = "capture.commit"
    BY <1>4 DEF CaptureBegin
  <2> QED BY <1>1, <2>1 DEF Passes
<1>5. CASE CaptureLate(r) \/ CaptureConfirm(r)
  <2>1. ReleaseAll(r) /\ req'[r].pc \in {"idle", "refund.claim"}
    BY <1>5 DEF CaptureLate, CaptureConfirm
  <2> QED BY <1>1, <2>1, ReleasePasses
<1> QED
  BY <1>2, <1>3, <1>4, <1>5 DEF Capture

LEMMA CronPasses ==
  ASSUME TypeInv, LocksInv, NEW r \in Req, Cron(r)
  PROVE  Passes(r)
<1> USE DoneFrame, GotoFrame, StartFrame, RememberFrame
    DEF HasPayment, HasOrder, HoldsPayment, HoldsOrder, Idle, GotoOrDone, db, locks, At
<1>1. Others(r)
  BY CronQuiet DEF Quiet
<1>2. CASE ExpireStart(r) \/ ExpireFetch(r)
  <2>1. Lockless(r)
    BY <1>2 DEF ExpireStart, ExpireFetch, Fetched, Invoke, Lockless
  <2> QED BY <1>1, <2>1, LocklessPasses
<1>3. CASE RecoverStart(r)
  <2>1. req'[r].pc = "recover.fetch"
    BY <1>3 DEF RecoverStart, TypeInv, TypeOK
  <2>2. Lockless(r)
    BY <1>3, <2>1 DEF RecoverStart, Invoke, Lockless
  <2> QED BY <1>1, <2>2, LocklessPasses
<1>4. CASE RecoverFetch(r) \/ RecoverPay(r)
  <2>1. Lockless(r)
    BY <1>4 DEF RecoverFetch, RecoverPay, Lockless
  <2> QED BY <1>1, <2>1, LocklessPasses
<1>5. CASE ExpireLock(r)
  <2>1. req[r].pc = "expire.lock" /\ payLock' = payLock
    BY <1>5 DEF ExpireLock
  <2>2. payLock # r /\ ordLock # r
    BY <2>1 DEF LocksInv
  <2>3. \/ ordLock' = r /\ req'[r].pc = "expire.commit"
        \/ ordLock' = ordLock /\ req'[r].pc = "idle"
    BY <1>5 DEF ExpireLock
  <2> QED BY <1>1, <2>1, <2>2, <2>3 DEF Passes
<1>6. CASE ExpireCommit(r)
  <2>1. ReleaseAll(r) /\ req'[r].pc = "idle"
    BY <1>6 DEF ExpireCommit
  <2> QED BY <1>1, <2>1, ReleasePasses
<1> QED
  BY <1>2, <1>3, <1>4, <1>5, <1>6 DEF Cron

LEMMA AdminPasses ==
  ASSUME TypeInv, ConfirmInv, OrderLockInv, LocksInv, NEW r \in Req, Admin(r)
  PROVE  Passes(r)
<1> USE DoneFrame, GotoFrame, TakeFrame
    DEF HasPayment, HasOrder, HoldsPayment, HoldsOrder, Idle, db, locks, At
<1>1. Others(r)
  BY AdminShape DEF Quiet, Asks, ConfirmInv
<1>2. CASE AdminStart(r)
  <2>1. req'[r].pc = "admin.tx"
    BY <1>2 DEF AdminStart, TypeInv, TypeOK
  <2>2. Lockless(r)
    BY <1>2, <2>1 DEF AdminStart, Invoke, Lockless
  <2> QED BY <1>1, <2>2, LocklessPasses
<1>3. CASE AdminMove(r)
  <2>1. Lockless(r)
    BY <1>3 DEF AdminMove, Lockless
  <2> QED BY <1>1, <2>1, LocklessPasses
<1>4. CASE AdminLockPayment(r)
  <2>1. payLock' = r /\ ordLock' = ordLock /\ req'[r].pc = "admin.locked"
    BY <1>4 DEF AdminLockPayment
  <2> QED BY <1>1, <2>1 DEF Passes
<1>5. CASE AdminLockOrder(r)
  <2>1. payLock = r
    BY <1>5 DEF AdminLockOrder, LocksInv
  <2>2. \/ payLock' = payLock /\ ordLock' = r /\ req'[r].pc = "admin.refund"
        \/ ReleaseAll(r) /\ req'[r].pc = "idle"
    BY <1>5 DEF AdminLockOrder
  <2>3. CASE payLock' = payLock /\ ordLock' = r /\ req'[r].pc = "admin.refund"
    BY <1>1, <2>1, <2>3 DEF Passes
  <2>4. CASE ReleaseAll(r) /\ req'[r].pc = "idle"
    BY <1>1, <2>4, ReleasePasses
  <2> QED BY <2>2, <2>3, <2>4
<1>6. CASE AdminRefund(r)
  <2>1. payLock' = r /\ ordLock' = ordLock /\ payLock = r /\ req'[r].pc = "admin.commit"
    BY <1>6 DEF AdminRefund, LocksInv
  <2> QED BY <1>1, <2>1 DEF Passes
<1>7. CASE AdminRefundFails(r) \/ AdminCommit(r)
  <2>1. ReleaseAll(r) /\ req'[r].pc = "idle"
    BY <1>7 DEF AdminRefundFails, AdminCommit
  <2> QED BY <1>1, <2>1, ReleasePasses
<1> QED
  BY <1>2, <1>3, <1>4, <1>5, <1>6, <1>7 DEF Admin

LEMMA FailurePasses ==
  ASSUME TypeInv, LocksInv, NEW r \in Req, Crash(r) \/ DeadlockVictim(r)
  PROVE  Passes(r)
<1>1. Others(r) /\ req'[r].pc = "idle"
  BY FailureShape, DoneFrame DEF Quiet, Crash, Abandon, DeadlockVictim, Idle
<1>2. CASE Crash(r)
  BY <1>1, <1>2, ReleasePasses DEF Crash, Abandon, HoldsPayment
<1>3. CASE DeadlockVictim(r)
  <2>1. PICK s \in Req : /\ Deadlocked(r, s)
                         /\ payLock' = IF payLock = r THEN s ELSE payLock
                         /\ ordLock' = IF ordLock = r THEN s ELSE ordLock
    BY <1>3 DEF DeadlockVictim
  <2>2. \/ payLock = r /\ ordLock = s /\ req[s].pc = "expire.commit"
        \/ ordLock = r /\ payLock = s /\ req[s].pc \in {"capture.commit", "admin.locked"}
    BY <2>1 DEF Deadlocked, WaitsForOrder, WaitsForPayment, At
  <2>3. r # s
    BY <2>1 DEF Deadlocked
  <2> QED
    BY <1>1, <2>1, <2>2, <2>3 DEF Passes, HoldsPayment
<1> QED
  BY <1>2, <1>3

LEMMA LocksNext ==
  TypeInv /\ ConfirmInv /\ OrderLockInv /\ LocksInv /\ [Next]_vars => LocksInv'
<1> SUFFICES ASSUME TypeInv, ConfirmInv, OrderLockInv, LocksInv, [Next]_vars
             PROVE  LocksInv'
  OBVIOUS
<1>1. ASSUME NEW r \in Req, Passes(r)
      PROVE  LocksInv'
  <2> SUFFICES ASSUME NEW s \in Req
               PROVE  /\ req'[s].pc \in HoldsPayment => payLock' = s
                      /\ payLock' = s => HasPayment(req'[s].pc)
                      /\ ordLock' = s => HasOrder(req'[s].pc)
    BY DEF LocksInv, HasPayment, HasOrder
  <2>1. CASE s = r
    BY <1>1, <2>1 DEF Passes
  <2>2. CASE s # r
    <3>1. req'[s] = req[s] /\ (payLock = s => payLock' = s)
      BY <1>1, <2>2 DEF Passes, Others
    <3>2. /\ payLock' = s => payLock = s \/ req[s].pc = "expire.commit"
          /\ ordLock' = s => ordLock = s \/ req[s].pc \in {"capture.commit", "admin.locked"}
      BY <1>1, <2>2 DEF Passes
    <3> QED BY <3>1, <3>2 DEF LocksInv, HasPayment, HasOrder
  <2> QED BY <2>1, <2>2
<1>2. CASE UNCHANGED <<payLock, ordLock, req>>
  BY <1>2 DEF LocksInv, HasPayment, HasOrder
<1>3. CASE \/ \E o \in RzpOrder : RzpAuthorize(o) \/ RzpCapture(o) \/ RzpFail(o)
           \/ CloseWindow \/ RecoverStaleCreation \/ AtRest
  BY <1>2, <1>3, EnvironmentShape DEF locks
<1>4. ASSUME NEW r \in Req, Create(r) \/ Refund(r) \/ Cancel(r) \/ Retry(r)
      PROVE  Passes(r)
  <2>1. Others(r)
    BY <1>4, CreateQuiet, RefundShape, CustomerQuiet DEF Quiet, Refunds, Books
  <2> QED
    BY <1>4, <2>1, CreateLockless, RefundLockless, CustomerLockless, LocklessPasses
<1> QED
  BY <1>1, <1>2, <1>3, <1>4, NotifyPasses, CapturePasses, CronPasses, AdminPasses, FailurePasses
  DEF Next, vars

\* The rows the next step of a handler writes or locks.
NeedsPayment(r) ==
  \/ req[r].pc \in {"create.claim", "create.saveWrite", "create.release", "capture", "refund.pay",
                    "fail.lock", "cancel.write", "retry.write", "recover.pay"}
  \/ At(r, "admin.tx") /\ req[r].to = "REFUNDED"
  \/ At(r, "expire.commit") /\ FailsPayment(r)
NeedsOrder(r) ==
  \/ req[r].pc \in {"cancel.write", "cancel.final", "expire.lock", "admin.locked"}
  \/ At(r, "admin.tx") /\ req[r].to # "REFUNDED"
  \/ At(r, "capture.commit") /\ req[r].saw = "PENDING_PAYMENT"

WaitsFor(r, s) ==
  r # s /\ ((NeedsPayment(r) /\ payLock = s) \/ (NeedsOrder(r) /\ ordLock = s))

\* Among the handlers that keep a row locked from one step to the next: no lock
\* outlives its handler, no more than two wait in a circle, and two that do are an
\* expiry and a capture or an administrator's refund.
WaitingEnds ==
  /\ \A r \in Req : r \in {payLock, ordLock} => ~At(r, "idle")
  /\ \A p, q, r, s \in Req : (WaitsFor(p, q) /\ WaitsFor(q, r) /\ WaitsFor(r, s)) => s = q
  /\ \A r, s \in Req : (WaitsFor(r, s) /\ WaitsFor(s, r)) => Deadlocked(r, s)

LEMMA LocksEndWaiting ==
  ASSUME LocksInv
  PROVE  WaitingEnds
<1>1. ASSUME NEW r \in Req, r \in {payLock, ordLock}
      PROVE  ~At(r, "idle")
  BY <1>1 DEF LocksInv, HasPayment, HasOrder, HoldsPayment, HoldsOrder, At
<1>2. ASSUME NEW p \in Req, NEW q \in Req, NEW r \in Req, NEW s \in Req,
             WaitsFor(p, q), WaitsFor(q, r), WaitsFor(r, s)
      PROVE  s = q
  BY <1>2 DEF WaitsFor
<1>3. ASSUME NEW r \in Req, NEW s \in Req, NeedsPayment(r), payLock = s, WaitsFor(s, r)
      PROVE  Deadlocked(r, s)
  <2>1. r # s /\ NeedsOrder(s) /\ ordLock = r
    BY <1>3 DEF WaitsFor
  <2>2. HasPayment(req[s].pc) /\ HasOrder(req[r].pc)
    BY <1>3, <2>1 DEF LocksInv
  <2>3. At(r, "expire.commit") /\ FailsPayment(r)
    BY <1>3, <2>2 DEF NeedsPayment, HasOrder, HoldsOrder, At
  <2>4. At(s, "admin.locked") \/ (At(s, "capture.commit") /\ req[s].saw = "PENDING_PAYMENT")
    BY <2>1, <2>2 DEF NeedsOrder, HasPayment, HoldsPayment, At
  <2> QED
    BY <1>3, <2>1, <2>3, <2>4 DEF Deadlocked, WaitsForOrder, WaitsForPayment
<1>4. ASSUME NEW r \in Req, NEW s \in Req, WaitsFor(r, s), WaitsFor(s, r)
      PROVE  Deadlocked(r, s)
  <2>1. CASE NeedsPayment(r) /\ payLock = s
    BY <1>3, <1>4, <2>1
  <2>2. CASE NeedsOrder(r) /\ ordLock = s
    <3>1. NeedsPayment(s) /\ payLock = r
      BY <1>4, <2>2 DEF WaitsFor
    <3>2. Deadlocked(s, r)
      BY <1>3, <1>4, <3>1
    <3> QED BY <3>2 DEF Deadlocked
  <2> QED BY <1>4, <2>1, <2>2 DEF WaitsFor
<1> QED
  BY <1>1, <1>2, <1>4 DEF WaitingEnds

\* A capture and an administrator's refund, each of which locks both rows.
RefundsNotAgainstCaptures ==
  \A r, s \in Req :
    /\ req[r].pc \in {"capture", "capture.commit"}
    /\ req[s].pc \in AdminPC /\ req[s].to = "REFUNDED"
    => ~(WaitsFor(r, s) /\ WaitsFor(s, r))

\* Whatever else interleaves, an administrator's refund and a capture never wait
\* for each other: "so they cannot deadlock with a capture webhook"
\* (orders.service.ts:496).  It says nothing of other pairs of handlers.
THEOREM RefundNeverDeadlocksWithCapture == Spec => []RefundsNotAgainstCaptures
<1>1. Init => LocksInv
  BY ReqAssumption DEF Init, Idle, LocksInv, HoldsPayment
<1>2. (TypeInv /\ ConfirmInv /\ OrderLockInv) /\ LocksInv /\ [Next]_vars => LocksInv'
  BY LocksNext
<1>3. LocksInv => RefundsNotAgainstCaptures
  BY LocksEndWaiting
     DEF WaitingEnds, RefundsNotAgainstCaptures, Deadlocked, WaitsForPayment, At, AdminPC
<1> QED
  BY <1>1, <1>2, <1>3, OrderLockHolds, PTL DEF Spec

-----------------------------------------------------------------------------
(* ORDER_TRANSITIONS.  An administrator asks for a move that the table allows *)
(* from the status that was read, and makes it only from that status.         *)

TableInv ==
  \A r \in Req :
    /\ req[r].pc \in AdminPC => req[r].to \in Transitions(req[r].saw)
    /\ req[r].pc \in AdminPC \ {"admin.tx"} => req[r].to = "REFUNDED"
    /\ req[r].pc \in {"admin.refund", "admin.commit"} => order = req[r].saw

LEMMA OutsideTable ==
  ASSUME TypeInv, NEW r \in Req,
         \/ Create(r) \/ Capture(r) \/ Refund(r) \/ Notify(r) \/ Cancel(r) \/ Retry(r)
         \/ Cron(r) \/ Crash(r) \/ DeadlockVictim(r)
  PROVE  req'[r].pc \notin AdminPC
<1> USE DoneFrame, GotoFrame, StartFrame, TakeFrame, RememberFrame DEF AdminPC, GotoOrDone, Idle
<1>1. CASE Create(r)
  BY <1>1 DEF Create, CreateStart, CreateRead, CreateClaim, CreateCall, CreateCallFails,
     CreateSaveRead, CreateSaveWrite, CreateRelease
<1>2. CASE CaptureBegin(r) \/ CaptureNothing(r) \/ CaptureLate(r) \/ CaptureConfirm(r)
  BY <1>2 DEF CaptureBegin, CaptureNothing, CaptureLate, CaptureConfirm
<1>3. CASE CaptureDuplicate(r)
  BY <1>3 DEF CaptureDuplicate, TypeInv, TypeOK, Local
<1>4. CASE Refund(r)
  BY <1>4 DEF Refund, RefundClaim, RefundCall, RefundCallFails, RefundMark, RefundPay
<1>5. CASE Notify(r)
  BY <1>5 DEF Notify, VerifyStart, VerifyFetch, HookStart, FailStart, FailLock, FailCommit
<1>6. CASE CancelFetch(r) \/ ExpireFetch(r)
  BY <1>6 DEF CancelFetch, ExpireFetch, Fetched
<1>7. CASE CancelStart(r) \/ CancelRead(r) \/ CancelWrite(r) \/ CancelFinal(r) \/ Retry(r)
  BY <1>7 DEF CancelStart, CancelRead, CancelWrite, CancelFinal, Retry, RetryStart, RetryWrite
<1>8. CASE ExpireStart(r) \/ ExpireLock(r) \/ ExpireCommit(r) \/ RecoverFetch(r) \/ RecoverPay(r)
  BY <1>8 DEF ExpireStart, ExpireLock, ExpireCommit, RecoverFetch, RecoverPay
<1>9. CASE RecoverStart(r)
  BY <1>9 DEF RecoverStart, TypeInv, TypeOK
<1>10. CASE Crash(r) \/ DeadlockVictim(r)
  BY <1>10 DEF Crash, Abandon, DeadlockVictim
<1> QED
  BY <1>1, <1>2, <1>3, <1>4, <1>5, <1>6, <1>7, <1>8, <1>9, <1>10 DEF Capture, Cancel, Cron

LEMMA AdminTable ==
  ASSUME TypeInv, TableInv, NEW r \in Req, Admin(r)
  PROVE  /\ req'[r].pc \in AdminPC => req'[r].to \in Transitions(req'[r].saw)
         /\ req'[r].pc \in AdminPC \ {"admin.tx"} => req'[r].to = "REFUNDED"
         /\ req'[r].pc \in {"admin.refund", "admin.commit"} => order' = req'[r].saw
<1> USE DoneFrame, GotoFrame DEF AdminPC, Idle, At, db
<1>1. CASE AdminStart(r)
  <2>1. PICK to \in Transitions(order) :
          req' = [req EXCEPT ![r] = [Idle EXCEPT !.pc = "admin.tx", !.op = "admin",
                                        !.saw = order, !.to = to]]
    BY <1>1 DEF AdminStart
  <2>2. req'[r].pc = "admin.tx" /\ req'[r].saw = order /\ req'[r].to = to
    BY <2>1 DEF TypeInv, TypeOK
  <2> QED BY <2>2
<1>2. CASE AdminMove(r) \/ AdminRefundFails(r) \/ AdminCommit(r)
  BY <1>2 DEF AdminMove, AdminRefundFails, AdminCommit
<1>3. CASE AdminLockPayment(r) \/ AdminRefund(r)
  BY <1>3 DEF AdminLockPayment, AdminRefund, TableInv
<1>4. CASE AdminLockOrder(r)
  <2>1. CASE Done(r)
    BY <2>1
  <2>2. CASE SameStatus(r) /\ Take(r, "admin.refund", payment.pid)
    <3>1. req[r] \in Local /\ req'[r] = [req[r] EXCEPT !.pc = "admin.refund", !.o = payment.pid]
      BY <2>2 DEF Take, TypeInv, TypeOK
    <3>2. req'[r].to = req[r].to /\ req'[r].saw = req[r].saw
      BY <3>1 DEF Local
    <3> QED BY <1>4, <2>2, <3>2 DEF AdminLockOrder, SameStatus, TableInv
  <2> QED BY <1>4, <2>1, <2>2 DEF AdminLockOrder
<1> QED BY <1>1, <1>2, <1>3, <1>4 DEF Admin

LEMMA TableNext ==
  TypeInv /\ ConfirmInv /\ OrderLockInv /\ TableInv /\ [Next]_vars => TableInv'
<1> SUFFICES ASSUME TypeInv, ConfirmInv, OrderLockInv, TableInv, [Next]_vars
             PROVE  TableInv'
  OBVIOUS
<1>1. ASSUME NEW r \in Req,
             \/ Create(r) \/ Capture(r) \/ Refund(r) \/ Notify(r) \/ Cancel(r) \/ Retry(r)
             \/ Cron(r) \/ Admin(r) \/ Crash(r) \/ DeadlockVictim(r)
      PROVE  TableInv'
  <2>1. Locking(r)
    BY <1>1, OrderShape
  <2> SUFFICES ASSUME NEW s \in Req
               PROVE  /\ req'[s].pc \in AdminPC => req'[s].to \in Transitions(req'[s].saw)
                      /\ req'[s].pc \in AdminPC \ {"admin.tx"} => req'[s].to = "REFUNDED"
                      /\ req'[s].pc \in {"admin.refund", "admin.commit"} => order' = req'[s].saw
    BY DEF TableInv
  <2>2. CASE s = r
    BY <1>1, <2>2, AdminTable, OutsideTable DEF AdminPC
  <2>3. CASE s # r
    <3>1. req'[s] = req[s]
      BY <2>1, <2>3 DEF Locking, Others
    <3>2. req[s].pc \in {"admin.refund", "admin.commit"} => order' = order
      BY <2>1, <2>3, ReqAssumption DEF Locking, OrderLockInv, HoldsOrder
    <3> QED BY <3>1, <3>2 DEF TableInv
  <2> QED BY <2>2, <2>3
<1>2. CASE UNCHANGED <<order, req>>
  BY <1>2 DEF TableInv
<1>3. CASE \/ \E o \in RzpOrder : RzpAuthorize(o) \/ RzpCapture(o) \/ RzpFail(o)
           \/ CloseWindow \/ RecoverStaleCreation \/ AtRest
  BY <1>2, <1>3 DEF RzpAuthorize, RzpCapture, RzpFail, CloseWindow, RecoverStaleCreation,
     AtRest, db, vars
<1> QED BY <1>1, <1>2, <1>3 DEF Next, vars

\* Who changes the status keeps to the table, or writes the row by its id alone.
TableKept ==
  order' # order =>
    order' \in Transitions(order) \/ \E r \in Req : CaptureConfirm(r) \/ CancelWrite(r)

LEMMA StepKeepsTable == TypeInv /\ OrderLockInv /\ TableInv /\ [Next]_vars => TableKept
<1> SUFFICES ASSUME TypeInv, OrderLockInv, TableInv, [Next]_vars, order' # order
             PROVE  order' \in Transitions(order)
                      \/ \E r \in Req : CaptureConfirm(r) \/ CancelWrite(r)
  BY DEF TableKept
<1> USE DEF db
<1>1. PICK r \in Req :
        \/ Create(r) \/ Capture(r) \/ Refund(r) \/ Notify(r) \/ Cancel(r) \/ Retry(r)
        \/ Cron(r) \/ Admin(r) \/ Crash(r) \/ DeadlockVictim(r)
  BY DEF Next, RzpAuthorize, RzpCapture, RzpFail, CloseWindow, RecoverStaleCreation, AtRest, vars
<1>2. CaptureConfirm(r) \/ Cancel(r) \/ Cron(r) \/ Admin(r)
  BY <1>1, SameOrder DEF Capture, OrderAlone
<1>3. CASE Cancel(r)
  <2>1. CancelWrite(r) \/ (order = "PENDING_PAYMENT" /\ order' = "CANCELLED")
    BY <1>3 DEF Cancel, CancelStart, CancelFetch, CancelRead, CancelFinal
  <2> QED BY <2>1 DEF Transitions
<1>4. CASE Cron(r)
  <2>1. order = "PENDING_PAYMENT" /\ order' = "CANCELLED"
    BY <1>4 DEF Cron, ExpireStart, ExpireFetch, ExpireLock, ExpireCommit, RecoverStart,
       RecoverFetch, RecoverPay, At, OrderLockInv
  <2> QED BY <2>1 DEF Transitions
<1>5. CASE Admin(r)
  <2>1. AdminMove(r) \/ AdminCommit(r)
    BY <1>5 DEF Admin, AdminStart, AdminLockPayment, AdminLockOrder, AdminRefund, AdminRefundFails
  <2>2. CASE AdminMove(r)
    BY <2>2 DEF AdminMove, SameStatus, At, AdminPC, TableInv
  <2>3. CASE AdminCommit(r)
    BY <2>3 DEF AdminCommit, At, AdminPC, TableInv
  <2> QED BY <2>1, <2>2, <2>3
<1> QED BY <1>2, <1>3, <1>4, <1>5

\* Every change of the order's status is one of ORDER_TRANSITIONS, however old the
\* read that it was asked for on, except where a row is written by its id alone: a
\* capture that read PENDING_PAYMENT before its transaction wrote CONFIRMED, and the
\* closing transaction of a cancel.  So nothing else revives a cancelled or refunded
\* order.
THEOREM OnlyBlindWritesLeaveTable == Spec => [][TableKept]_vars
<1>1. Init => TableInv
  BY DEF Init, Idle, TableInv, AdminPC
<1>2. (TypeInv /\ ConfirmInv /\ OrderLockInv) /\ TableInv /\ [Next]_vars
        => TableInv' /\ [TableKept]_vars
  BY TableNext, StepKeepsTable
<1> QED
  BY <1>1, <1>2, OrderLockHolds, PTL DEF Spec

-----------------------------------------------------------------------------
(* The coupon                                                                *)

CancelPC == {"cancel.fetch", "cancel.read", "cancel.write", "cancel.final"}
NotCancelling(r) == req[r].pc \notin CancelPC /\ req[r].op # "cancel"
CouponKept == coupon >= OtherUses /\ (order = "PENDING_PAYMENT" => coupon > OtherUses)
CouponInv == (\A r \in Req : NotCancelling(r)) /\ CouponKept

LEMMA NobodyCancels ==
  ASSUME WithoutCancel, NEW r \in Req, NotCancelling(r)
  PROVE  ~Cancel(r)
BY DEF WithoutCancel, NotCancelling, CancelPC, Cancel, CancelStart, CancelFetch, CancelRead,
   CancelWrite, CancelFinal, Invoke, At

LEMMA StaysOutOfCancel ==
  ASSUME TypeInv, NEW r \in Req, NotCancelling(r),
         \/ Create(r) \/ Capture(r) \/ Refund(r) \/ Notify(r) \/ Retry(r)
         \/ Cron(r) \/ Admin(r) \/ Crash(r) \/ DeadlockVictim(r)
  PROVE  NotCancelling(r)'
<1> USE DoneFrame, GotoFrame, StartFrame DEF NotCancelling, CancelPC, GotoOrDone, Idle
<1>0. req[r] \in Local /\ req \in [Req -> Local]
  BY DEF TypeInv, TypeOK
<1>1. CASE Create(r)
  <2>1. CASE CreateCall(r)
    BY <1>0, <2>1 DEF CreateCall, Take, Local
  <2> QED BY <1>1, <2>1 DEF Create, CreateStart, CreateRead, CreateClaim, CreateCallFails,
          CreateSaveRead, CreateSaveWrite, CreateRelease
<1>2. CASE Capture(r)
  <2>1. CASE CaptureBegin(r)
    BY <1>0, <2>1 DEF CaptureBegin, Remember, Local
  <2>2. CASE CaptureDuplicate(r)
    BY <1>0, <2>2 DEF CaptureDuplicate, Local
  <2> QED BY <1>2, <2>1, <2>2 DEF Capture, CaptureNothing, CaptureLate, CaptureConfirm
<1>3. CASE Refund(r)
  BY <1>3 DEF Refund, RefundClaim, RefundCall, RefundCallFails, RefundMark, RefundPay
<1>4. CASE Notify(r)
  <2>1. CASE FailLock(r)
    BY <1>0, <2>1 DEF FailLock, Remember, Local
  <2> QED BY <1>4, <2>1 DEF Notify, VerifyStart, VerifyFetch, HookStart, FailStart, FailCommit
<1>5. CASE Retry(r)
  BY <1>5 DEF Retry, RetryStart, RetryWrite
<1>6. CASE Cron(r)
  <2>1. CASE ExpireLock(r)
    <3>1. CASE StillPending
      <4>1. req'[r] = [req[r] EXCEPT !.pc = "expire.commit", !.saw = payment.status]
        BY <1>0, <2>1, <3>1 DEF ExpireLock, Remember
      <4>2. req'[r].pc = "expire.commit" /\ req'[r].op = req[r].op
        BY <1>0, <4>1 DEF Local
      <4> QED BY <4>2
    <3> QED BY <2>1, <3>1 DEF ExpireLock
  <2>2. CASE RecoverStart(r)
    BY <1>0, <2>2 DEF RecoverStart
  <2> QED BY <1>6, <2>1, <2>2 DEF Cron, ExpireStart, ExpireFetch, Fetched, ExpireCommit,
          RecoverFetch, RecoverPay
<1>7. CASE Admin(r)
  <2>1. CASE AdminStart(r)
    BY <1>0, <2>1 DEF AdminStart
  <2>2. CASE AdminLockOrder(r)
    <3>1. CASE SameStatus(r) /\ Refundable
      <4>1. req'[r] = [req[r] EXCEPT !.pc = "admin.refund", !.o = payment.pid]
        BY <1>0, <2>2, <3>1 DEF AdminLockOrder, Take
      <4>2. req'[r].pc = "admin.refund" /\ req'[r].op = req[r].op
        BY <1>0, <4>1 DEF Local
      <4> QED BY <4>2
    <3> QED BY <2>2, <3>1 DEF AdminLockOrder
  <2> QED BY <1>7, <2>1, <2>2 DEF Admin, AdminMove, AdminLockPayment, AdminRefund,
          AdminRefundFails, AdminCommit
<1>8. CASE Crash(r) \/ DeadlockVictim(r)
  BY <1>8 DEF Crash, Abandon, DeadlockVictim
<1> QED BY <1>1, <1>2, <1>3, <1>4, <1>5, <1>6, <1>7, <1>8

LEMMA CouponNext ==
  ASSUME WithoutCancel
  PROVE  TypeInv /\ ConfirmInv /\ OrderLockInv /\ CouponInv /\ [Next]_vars => CouponInv'
<1> SUFFICES ASSUME TypeInv, ConfirmInv, OrderLockInv, CouponInv, [Next]_vars
             PROVE  CouponInv'
  OBVIOUS
<1>0. \A r \in Req : NotCancelling(r) /\ ~Cancel(r)
  BY NobodyCancels DEF CouponInv
<1>1. ASSUME NEW r \in Req,
             \/ Create(r) \/ Capture(r) \/ Refund(r) \/ Notify(r) \/ Retry(r)
             \/ Cron(r) \/ Admin(r) \/ Crash(r) \/ DeadlockVictim(r)
      PROVE  CouponInv'
  <2>1. ~CancelWrite(r)
    BY <1>0 DEF Cancel
  <2>2. Locking(r) /\ Spending
    BY <1>1, <2>1, OrderShape
  <2>3. NotCancelling(r)'
    BY <1>0, <1>1, StaysOutOfCancel
  <2>4. \A s \in Req : NotCancelling(s)'
    BY <1>0, <2>2, <2>3 DEF Locking, Others, NotCancelling
  <2>5. CouponKept'
    BY <2>2, UsesAssumption DEF CouponInv, CouponKept, Locking, Spending, TypeInv, TypeOK
  <2> QED BY <2>4, <2>5 DEF CouponInv
<1>2. CASE UNCHANGED <<order, coupon, req>>
  BY <1>2 DEF CouponInv, CouponKept, NotCancelling
<1>3. CASE \/ \E o \in RzpOrder : RzpAuthorize(o) \/ RzpCapture(o) \/ RzpFail(o)
           \/ CloseWindow \/ RecoverStaleCreation \/ AtRest
  BY <1>2, <1>3 DEF RzpAuthorize, RzpCapture, RzpFail, CloseWindow, RecoverStaleCreation,
     AtRest, db, vars
<1> QED BY <1>0, <1>1, <1>2, <1>3 DEF Next, vars

LEMMA CouponHolds ==
  ASSUME WithoutCancel
  PROVE  Spec => [](TypeInv /\ CouponInv)
<1>1. Init => CouponInv
  BY UsesAssumption DEF Init, Idle, CouponInv, CouponKept, NotCancelling, CancelPC
<1>2. TypeInv /\ ConfirmInv /\ OrderLockInv /\ CouponInv /\ [Next]_vars => CouponInv'
  BY CouponNext
<1> QED
  BY <1>1, <1>2, OrderLockHolds, PTL DEF Spec

\* Unless the customer cancels, and whatever else interleaves, retries included,
\* the expiry and the administrator never give back a coupon use that belongs to
\* another order.
THEOREM CouponIsReleasedOnce ==
  ASSUME WithoutCancel
  PROVE  Spec => []CouponReleasedOnce
<1>1. CouponInv => CouponReleasedOnce
  BY DEF CouponInv, CouponKept, CouponReleasedOnce
<1> QED
  BY <1>1, CouponHolds, PTL
-----------------------------------------------------------------------------
(* The invariant: what each handler relies on, and how the rows agree.       *)

NotRetrying(r) == req[r].pc # "retry.write"
CapturesNew(r) ==
  req[r].pc = "capture.commit" =>
    /\ payment.status # "CAPTURED"
    /\ req[r].saw # "PENDING_PAYMENT" => order # "PENDING_PAYMENT"
\* What goes back is not what confirmed an order that is being fulfilled; and
\* the refund of a late capture finds no order confirmed by a capture.
ReturnsOther(r) ==
  \A o \in RzpOrder :
    /\ req[r].pc \in Returning
    /\ \/ o = req[r].o
       \/ req[r].pc \in Refunding /\ ~req[r].dup
       \/ req[r].pc = "refund.pay"
    /\ confirmed[o] > 0
    => order \notin PaidStatuses
AdminKnows(r) ==
  /\ req[r].pc \in {"admin.tx", "admin.locked"} => req[r].to \in Transitions(req[r].saw)
  /\ req[r].pc = "admin.locked" => payLock = r /\ req[r].to = "REFUNDED"
  /\ req[r].pc \in {"admin.refund", "admin.commit"} => payLock = r
  /\ req[r].pc = "admin.refund" => \A o \in RzpOrder : confirmed[o] > 0 => o = req[r].o
  /\ req[r].pc = "admin.commit" => \A o \in RzpOrder : confirmed[o] > 0 => rzp[o] = "refunded"
Own(r) ==
  NotRetrying(r) /\ CapturesNew(r) /\ ReturnsOther(r) /\ AdminKnows(r)

Early == order = "PENDING_PAYMENT" \/ \E r \in Req : Confirming(r)
Fresh == Early => Untouched
\* The payment row of an order that a capture confirmed names that capture.
Backed ==
  \A o \in RzpOrder : order \in PaidStatuses /\ confirmed[o] > 0 =>
    payment.status = "CAPTURED" /\ payment.pid = o
ClaimsOther ==
  \A o \in RzpOrder : attempt[o] = "REFUND_PENDING" /\ confirmed[o] > 0 =>
    order \notin PaidStatuses
Rows == Fresh /\ Backed /\ ClaimsOther /\ RefundedOrderReturnsMoney

MoneyInv == (\A r \in Req : Own(r)) /\ Rows

LEMMA MoneyInit == Init => MoneyInv
<1> SUFFICES ASSUME Init PROVE MoneyInv
  OBVIOUS
<1>1. \A r \in Req : req[r].pc = "idle" /\ req[r].op = "none"
  BY DEF Init, Idle
<1>2. \A r \in Req : Own(r)
  BY <1>1 DEF Own, NotRetrying, CapturesNew, ReturnsOther, AdminKnows,
     Refunding, Returning
<1>3. Fresh
  BY <1>1 DEF Init, Fresh, Untouched, Unpaid, Refunding, Returning
<1>4. Backed /\ ClaimsOther /\ RefundedOrderReturnsMoney
  BY DEF Init, Backed, ClaimsOther, RefundedOrderReturnsMoney
<1> QED BY <1>2, <1>3, <1>4 DEF MoneyInv, Rows

-----------------------------------------------------------------------------
(* What a step must not do to the handlers that do not take it.              *)

\* Nothing comes to back a paid order that did not before.
NoNewBacking ==
  \A o \in RzpOrder :
    order' \in PaidStatuses /\ confirmed'[o] > 0 => order \in PaidStatuses /\ confirmed[o] > 0

Considerate(r) ==
  /\ Others(r)
  /\ order' = order \/ order' # "PENDING_PAYMENT"
  /\ payment'.status = "CAPTURED" => payment.status = "CAPTURED" \/ payLock = r
  /\ confirmed' = confirmed \/ payLock = r
  /\ \A o \in RzpOrder : rzp[o] = "refunded" => rzp'[o] = "refunded"
  /\ NoNewBacking \/ Untouched

LEMMA OthersKeep ==
  ASSUME TypeInv, ConfirmInv, MoneyInv, NEW r \in Req, Considerate(r),
         NEW s \in Req, s # r
  PROVE  Own(s)'
<1>1. /\ Own(s) /\ req'[s] = req[s]
      /\ (payLock = s => payLock' = s)
  BY DEF MoneyInv, Considerate, Others
<1>2. NotRetrying(s)'
  BY <1>1 DEF Own, NotRetrying
<1>3. CapturesNew(s)'
  BY <1>1, ReqAssumption DEF Own, CapturesNew, ConfirmInv, Considerate
<1>4. ReturnsOther(s)'
  <2>1. CASE Untouched
    BY <1>1, <2>1 DEF Untouched, ReturnsOther, Returning
  <2>2. CASE NoNewBacking
    BY <1>1, <2>2 DEF Own, ReturnsOther, NoNewBacking
  <2> QED BY <2>1, <2>2 DEF Considerate
<1>5. AdminKnows(s)'
  BY <1>1, ReqAssumption DEF Own, AdminKnows, Considerate
<1> QED BY <1>2, <1>3, <1>4, <1>5 DEF Own
-----------------------------------------------------------------------------
(* Most steps write nothing the invariant speaks of.                         *)

Bland(r) ==
  /\ Others(r) /\ UNCHANGED <<order, confirmed>>
  /\ req'[r].pc \notin {"retry.write"} \cup Returning \cup AdminPC \cup {"capture.commit", "expire.commit"}
 
  /\ payment' = payment \/ (payment.status # "CAPTURED" /\ payment'.status \in Unpaid)
  /\ \A o \in RzpOrder : attempt'[o] = attempt[o] \/ attempt'[o] \in {"PENDING", "FAILED"}
  /\ \A o \in RzpOrder : rzp[o] = "refunded" => rzp'[o] = "refunded"

\* What is left of Fresh to show for a step: nobody begins to confirm an order
\* that is not pending.
LEMMA EarlyBefore ==
  ASSUME NEW r \in Req, Others(r),
         order' = order \/ order' # "PENDING_PAYMENT",
         Confirming(r)' => order = "PENDING_PAYMENT" \/ Confirming(r),
         Early'
  PROVE  Early
BY DEF Early, Confirming, Others

LEMMA BlandMoney ==
  ASSUME TypeInv, ConfirmInv, MoneyInv, NEW r \in Req, Bland(r)
  PROVE  MoneyInv'
<1>1. Considerate(r)
  BY DEF Bland, Considerate, NoNewBacking, Unpaid
<1>2. Own(r)'
  BY DEF Bland, Own, NotRetrying, CapturesNew, ReturnsOther, AdminKnows, AdminPC
<1>3. \A s \in Req : Own(s)'
  BY <1>1, <1>2, OthersKeep
<1>4. Fresh'
  <2> SUFFICES ASSUME Early' PROVE Untouched'
    BY DEF Fresh
  <2>1. Early
    BY EarlyBefore DEF Bland, Confirming
  <2>2. Untouched
    BY <2>1 DEF MoneyInv, Rows, Fresh
  <2> QED BY <2>2 DEF Untouched, Bland, Others, AdminPC
<1>5. Backed' /\ ClaimsOther' /\ RefundedOrderReturnsMoney'
  BY DEF MoneyInv, Rows, Bland, Backed, ClaimsOther, RefundedOrderReturnsMoney
<1> QED BY <1>3, <1>4, <1>5 DEF MoneyInv, Rows

\* The same for what happens outside the handlers.
LEMMA OutsideMoney ==
  ASSUME TypeInv, ConfirmInv, MoneyInv,
         \/ \E o \in RzpOrder : RzpAuthorize(o) \/ RzpCapture(o) \/ RzpFail(o)
         \/ CloseWindow \/ RecoverStaleCreation \/ UNCHANGED vars
  PROVE  MoneyInv'
<1>1. /\ UNCHANGED <<order, confirmed, attempt, req, payLock, ordLock>>
      /\ payment' = payment \/ (payment.status # "CAPTURED" /\ payment'.status \in Unpaid)
      /\ \A o \in RzpOrder : rzp[o] = "refunded" => rzp'[o] = "refunded"
  BY DEF RzpAuthorize, RzpCapture, RzpFail, CloseWindow, RecoverStaleCreation, Payable,
     EndCreating, Unpaid, db, locks, external, vars, TypeInv, TypeOK
<1>2. \A s \in Req : Own(s)'
  BY <1>1 DEF MoneyInv, Own, NotRetrying, CapturesNew, ReturnsOther,
     AdminKnows, Unpaid
<1>3. Fresh'
  BY <1>1 DEF MoneyInv, Rows, Fresh, Early, Confirming, Untouched
<1>4. Backed' /\ ClaimsOther' /\ RefundedOrderReturnsMoney'
  BY <1>1 DEF MoneyInv, Rows, Backed, ClaimsOther, RefundedOrderReturnsMoney
<1> QED BY <1>2, <1>3, <1>4 DEF MoneyInv, Rows
LEMMA CreateBland ==
  ASSUME TypeInv, NEW r \in Req, Own(r), Create(r)
  PROVE  Bland(r)
<1> USE DoneFrame, GotoFrame, StartFrame, TakeFrame
    DEF Bland, Others, Idle, GotoOrDone, db, locks, external, Own, NotRetrying, At,
        Returning, Refunding, AdminPC, Unpaid
<1>1. CASE CreateStart(r)
  BY <1>1 DEF CreateStart
<1>2. CASE CreateRead(r)
  BY <1>2 DEF CreateRead
<1>3. CASE CreateClaim(r)
  BY <1>3 DEF CreateClaim
<1>4. CASE CreateCall(r)
  <2>1. PICK o \in RzpOrder : /\ rzp[o] = "none" /\ rzp' = [rzp EXCEPT ![o] = "created"]
                              /\ req' = [req EXCEPT ![r] = [@ EXCEPT !.pc = "create.saveRead", !.o = o]]
    BY <1>4 DEF CreateCall, Take
  <2>2. req'[r].op = req[r].op
    BY <2>1 DEF TypeInv, TypeOK, Local
  <2>3. \A p \in RzpOrder : rzp[p] = "refunded" => rzp'[p] = "refunded"
    BY <2>1 DEF TypeInv, TypeOK
  <2> QED BY <1>4, <2>2, <2>3 DEF CreateCall
<1>5. CASE CreateCallFails(r)
  BY <1>5 DEF CreateCallFails, EndCreating, TypeInv, TypeOK
<1>6. CASE CreateSaveRead(r)
  BY <1>6 DEF CreateSaveRead
<1>7. CASE CreateSaveWrite(r)
  BY <1>7 DEF CreateSaveWrite, Attempt, TypeInv, TypeOK
<1>8. CASE CreateRelease(r)
  BY <1>8 DEF CreateRelease, EndCreating, TypeInv, TypeOK
<1> QED
  BY <1>1, <1>2, <1>3, <1>4, <1>5, <1>6, <1>7, <1>8 DEF Create

LEMMA NotifyBland ==
  ASSUME TypeInv, NEW r \in Req, Own(r), Notify(r)
  PROVE  Bland(r)
<1> USE ReqAssumption, DoneFrame, GotoFrame, StartFrame
    DEF Bland, Others, Idle, GotoOrDone, db, locks, external, Own, NotRetrying, At,
        Returning, Refunding, AdminPC, Unpaid, ReleaseAll, Release, Writable
<1>1. CASE VerifyStart(r)
  BY <1>1 DEF VerifyStart
<1>2. CASE VerifyFetch(r)
  BY <1>2 DEF VerifyFetch
<1>3. CASE HookStart(r)
  BY <1>3 DEF HookStart
<1>4. CASE FailStart(r)
  BY <1>4 DEF FailStart
<1>5. CASE FailLock(r)
  <2>1. /\ req'[r].pc = "fail.commit" /\ req'[r].op = req[r].op
        /\ \A s \in Req \ {r} : req'[s] = req[s]
    BY <1>5 DEF FailLock, Remember, TypeInv, TypeOK, Local
  <2> QED BY <1>5, <2>1 DEF FailLock
<1>6. CASE FailCommit(r)
  BY <1>6 DEF FailCommit, FailApplies, TypeInv, TypeOK
<1> QED
  BY <1>1, <1>2, <1>3, <1>4, <1>5, <1>6 DEF Notify

LEMMA OtherBland ==
  ASSUME TypeInv, NEW r \in Req, Own(r),
         \/ CaptureNothing(r) \/ RefundCallFails(r)
         \/ ExpireStart(r) \/ ExpireFetch(r)
         \/ AdminRefundFails(r) \/ Crash(r) \/ DeadlockVictim(r)
  PROVE  Bland(r)
<1> USE ReqAssumption, DoneFrame, GotoFrame, StartFrame
    DEF Bland, Others, Idle, GotoOrDone, db, locks, external, Own, NotRetrying, At,
        Returning, Refunding, AdminPC, Unpaid, ReleaseAll, Release, Writable
<1>1. CASE CaptureNothing(r)
  BY <1>1 DEF CaptureNothing
<1>2. CASE RefundCallFails(r)
  BY <1>2 DEF RefundCallFails
<1>3. CASE ExpireStart(r)
  BY <1>3 DEF ExpireStart
<1>4. CASE ExpireFetch(r)
  BY <1>4 DEF ExpireFetch, Fetched
<1>5. CASE AdminRefundFails(r)
  BY <1>5 DEF AdminRefundFails, TypeInv, TypeOK
<1>6. CASE Crash(r)
  BY <1>6 DEF Crash, Abandon
<1>7. CASE DeadlockVictim(r)
  BY <1>7 DEF DeadlockVictim
<1> QED
  BY <1>1, <1>2, <1>3, <1>4, <1>5, <1>6, <1>7

\* Nobody retries.
LEMMA NobodyRetries ==
  ASSUME WithoutRetry, NEW r \in Req, Own(r)
  PROVE  ~Retry(r)
BY DEF WithoutRetry, Own, NotRetrying, Retry, RetryStart, RetryWrite, Invoke, At
-----------------------------------------------------------------------------
(* Captures                                                                  *)

\* Who writes under the Payment lock is alone in applyCapturedPayment.
LEMMA Alone ==
  ASSUME ConfirmInv, NEW r \in Req, req[r].pc = "capture.commit", NEW s \in Req, s # r
  PROVE  req[s].pc # "capture.commit"
BY DEF ConfirmInv

\* The locals that the steps of a capture leave alone.
LEMMA CaptureLocals ==
  ASSUME TypeInv, NEW r \in Req, Capture(r)
  PROVE  /\ req'[r].op \in {req[r].op, "none"}
         /\ CaptureDuplicate(r) => req'[r].pc = "refund.claim" /\ req'[r].o = req[r].o
                                   /\ req'[r].dup
<1>1. req[r] \in Local /\ req \in [Req -> Local]
  BY DEF TypeInv, TypeOK
<1>2. CASE CaptureBegin(r)
  BY <1>1, <1>2 DEF CaptureBegin, CaptureDuplicate, NewCapture, CapturedOther, Remember, Local
<1>3. CASE CaptureDuplicate(r)
  BY <1>1, <1>3 DEF CaptureDuplicate, Local
<1>4. CASE CaptureNothing(r) \/ CaptureLate(r) \/ CaptureConfirm(r)
  BY <1>4, DoneFrame, GotoFrame
     DEF CaptureNothing, CaptureLate, CaptureConfirm, CaptureDuplicate, Idle, At
<1> QED BY <1>2, <1>3, <1>4 DEF Capture

LEMMA CaptureMoney ==
  ASSUME TypeInv, ConfirmInv, MoneyInv, NEW r \in Req, Capture(r)
  PROVE  MoneyInv'
<1> USE ReqAssumption, DoneFrame, GotoFrame, RememberFrame
    DEF db, locks, external, At, ReleaseAll, Release, Writable
<1>0. /\ Own(r)
      /\ payment \in [status : PaymentStatus, oid : RzpOrder \cup {NoId}, pid : PayId]
      /\ attempt \in [RzpOrder -> AttemptStatus] /\ confirmed \in [RzpOrder -> Nat]
  BY CaptureLocals DEF MoneyInv, Own, NotRetrying, TypeInv, TypeOK
<1>1. CASE CaptureNothing(r)
  BY <1>0, <1>1, OtherBland, BlandMoney
<1>2. CASE CaptureBegin(r)
  <2>1. Considerate(r)
    BY <1>2 DEF CaptureBegin, Considerate, Others, NoNewBacking
  <2>2. /\ req'[r].pc = "capture.commit" /\ req'[r].saw = order
        /\ payment.status # "CAPTURED"
        /\ UNCHANGED <<order, payment, attempt, confirmed, rzp>>
    BY <1>2 DEF CaptureBegin, NewCapture
  <2>3. Own(r)'
    BY <1>0, <2>2 DEF Own, NotRetrying, CapturesNew, ReturnsOther, AdminKnows,
       Returning, Refunding
  <2>4. Fresh'
    <3>1. Early' => Early
      BY <2>1, <2>2, EarlyBefore DEF Considerate, Confirming
    <3> QED BY <2>1, <2>2, <3>1
            DEF MoneyInv, Rows, Fresh, Untouched, Considerate, Others, Returning, Refunding
  <2>5. Backed' /\ ClaimsOther' /\ RefundedOrderReturnsMoney'
    BY <2>2 DEF MoneyInv, Rows, Backed, ClaimsOther, RefundedOrderReturnsMoney
  <2> QED BY <2>1, <2>3, <2>4, <2>5, OthersKeep DEF MoneyInv, Rows
<1>3. CASE CaptureDuplicate(r)
  <2>1. /\ Others(r) /\ CapturedOther(req[r].o)
        /\ UNCHANGED <<order, payment, attempt, confirmed, rzp, payLock, ordLock>>
    BY <1>3 DEF CaptureDuplicate, Others, TypeInv, TypeOK
  <2>2. Considerate(r)
    BY <2>1 DEF Considerate, NoNewBacking
  <2>3. req'[r].pc = "refund.claim" /\ req'[r].o = req[r].o /\ req'[r].dup
        /\ req[r].o \in RzpOrder
    BY <1>3, CaptureLocals, LocalsType DEF Capture, CaptureDuplicate, OrderPC
  <2>4. Own(r)'
    BY <1>0, <2>1, <2>3 DEF MoneyInv, Rows, Own, NotRetrying, CapturesNew,
       ReturnsOther, AdminKnows, Backed, CapturedOther
  <2>5. ~Early
    BY <2>1 DEF MoneyInv, Rows, Fresh, Untouched, CapturedOther, Unpaid
  <2>6. Fresh'
    BY <2>1, <2>3, <2>5, EarlyBefore DEF Fresh, Confirming
  <2>7. Backed' /\ ClaimsOther' /\ RefundedOrderReturnsMoney'
    BY <2>1 DEF MoneyInv, Rows, Backed, ClaimsOther, RefundedOrderReturnsMoney
  <2> QED BY <2>2, <2>4, <2>6, <2>7, OthersKeep DEF MoneyInv, Rows
<1>4. CASE CaptureLate(r)
  <2>1. /\ Others(r) /\ payLock = r /\ req[r].o \in RzpOrder
        /\ req[r].pc = "capture.commit" /\ req[r].saw # "PENDING_PAYMENT"
        /\ req'[r].pc = "refund.claim" /\ req'[r].o = req[r].o
        /\ UNCHANGED <<order, confirmed, rzp>>
        /\ payment' = [status |-> "CAPTURED", oid |-> req[r].o, pid |-> req[r].o]
        /\ attempt' = [attempt EXCEPT ![req[r].o] = "CAPTURED"]
    BY <1>4, LocalsType DEF CaptureLate, Others, ConfirmInv, OrderPC, RecordCapture, Attempt
  <2>2. Considerate(r)
    BY <2>1 DEF Considerate, NoNewBacking
  <2>3. /\ order # "PENDING_PAYMENT"
        /\ \A o \in RzpOrder : confirmed[o] > 0 => order \notin PaidStatuses
    BY <1>0, <2>1 DEF Own, CapturesNew, MoneyInv, Rows, Backed
  <2>4. Own(r)'
    BY <1>0, <2>1, <2>3 DEF Own, NotRetrying, CapturesNew, ReturnsOther,
       AdminKnows
  <2>5. ~Early'
    BY <2>1, <2>3, Alone DEF Early, Confirming, Others
  <2>6. ClaimsOther'
    BY <1>0, <2>1 DEF MoneyInv, Rows, ClaimsOther
  <2>7. Backed' /\ RefundedOrderReturnsMoney'
    BY <2>1, <2>3 DEF MoneyInv, Rows, Backed, RefundedOrderReturnsMoney
  <2> QED BY <2>2, <2>4, <2>5, <2>6, <2>7, OthersKeep DEF MoneyInv, Rows, Fresh
<1>5. CASE CaptureConfirm(r)
  <2>1. /\ Others(r) /\ payLock = r /\ req[r].o \in RzpOrder /\ Confirming(r)
        /\ req'[r] = Idle /\ order' = "CONFIRMED"
        /\ UNCHANGED rzp
        /\ payment' = [status |-> "CAPTURED", oid |-> req[r].o, pid |-> req[r].o]
        /\ attempt' = [attempt EXCEPT ![req[r].o] = "CAPTURED"]
        /\ confirmed' = [confirmed EXCEPT ![req[r].o] = @ + 1]
    BY <1>5, LocalsType
    DEF CaptureConfirm, Others, ConfirmInv, OrderPC, RecordCapture, Attempt, Confirming
  <2>2. Untouched /\ NothingConfirmed
    BY <2>1 DEF MoneyInv, Rows, Fresh, Early, Confirming, ConfirmInv
  <2>3. Considerate(r)
    BY <2>1, <2>2 DEF Considerate
  <2>4. Own(r)'
    BY <2>1 DEF Own, NotRetrying, CapturesNew, ReturnsOther, AdminKnows,
       Returning, Refunding, Idle
  <2>5. ~Early'
    BY <2>1, Alone DEF Early, Confirming, Others, Idle
  <2>6. \A o \in RzpOrder : confirmed'[o] > 0 => o = req[r].o
    BY <1>0, <2>1, <2>2 DEF NothingConfirmed
  <2>7. Backed' /\ ClaimsOther'
    BY <1>0, <2>1, <2>2, <2>6 DEF Backed, ClaimsOther, Untouched
  <2>8. RefundedOrderReturnsMoney'
    BY <2>1 DEF MoneyInv, Rows, RefundedOrderReturnsMoney
  <2> QED BY <2>3, <2>4, <2>5, <2>7, <2>8, OthersKeep DEF MoneyInv, Rows, Fresh
<1> QED BY <1>1, <1>2, <1>3, <1>4, <1>5 DEF Capture
-----------------------------------------------------------------------------
(* Steps that leave the order and what confirmed it alone.                   *)

Sober(r) ==
  /\ Others(r) /\ UNCHANGED <<order, confirmed>>
  /\ payment'.status = "CAPTURED" => payment.status = "CAPTURED"
  /\ \A o \in RzpOrder : rzp[o] = "refunded" => rzp'[o] = "refunded"
  /\ Untouched => Untouched'
  /\ req'[r].pc # "capture.commit"

LEMMA SoberMoney ==
  ASSUME TypeInv, ConfirmInv, MoneyInv, NEW r \in Req, Sober(r),
         Own(r)', Backed', ClaimsOther'
  PROVE  MoneyInv'
<1>1. Considerate(r)
  BY DEF Sober, Considerate, NoNewBacking
<1>2. \A s \in Req : Own(s)'
  BY <1>1, OthersKeep
<1>3. Fresh'
  <2>1. Early' => Early
    BY EarlyBefore DEF Sober, Confirming
  <2> QED BY <2>1 DEF MoneyInv, Rows, Fresh, Sober
<1>4. RefundedOrderReturnsMoney'
  BY DEF MoneyInv, Rows, Sober, RefundedOrderReturnsMoney
<1> QED BY <1>2, <1>3, <1>4 DEF MoneyInv, Rows

LEMMA RefundMoney ==
  ASSUME TypeInv, ConfirmInv, MoneyInv, NEW r \in Req, Refund(r)
  PROVE  MoneyInv'
<1> USE DoneFrame, GotoFrame DEF db, locks, external, At, Writable, GotoOrDone
<1>0. /\ Own(r) /\ Backed /\ ClaimsOther
      /\ payment \in [status : PaymentStatus, oid : RzpOrder \cup {NoId}, pid : PayId]
      /\ attempt \in [RzpOrder -> AttemptStatus] /\ rzp \in [RzpOrder -> RzpStatus]
  BY DEF MoneyInv, Rows, Own, NotRetrying, TypeInv, TypeOK
<1>01. req[r].pc \in Refunding => ~Untouched /\ req[r].o \in RzpOrder
  BY LocalsType DEF Untouched, Refunding, Returning, OrderPC
<1>1. CASE RefundClaim(r)
  <2>1. /\ Others(r) /\ UNCHANGED <<order, payment, confirmed, rzp>>
        /\ req[r].pc = "refund.claim"
        /\ \/ req'[r] = Idle /\ attempt' = attempt
           \/ /\ req'[r].pc = "refund.call" /\ req'[r].op = req[r].op
              /\ req'[r].o = req[r].o /\ req'[r].dup = req[r].dup
              /\ attempt' = [attempt EXCEPT ![req[r].o] = "REFUND_PENDING"]
    BY <1>1 DEF RefundClaim, Others
  <2>2. Own(r)'
    BY <1>0, <2>1 DEF Own, NotRetrying, CapturesNew, ReturnsOther,
       AdminKnows, Returning, Refunding, Idle
  <2>3. Backed'
    BY <1>0, <2>1 DEF Backed
  <2>4. ClaimsOther'
    <3>1. confirmed[req[r].o] > 0 => order \notin PaidStatuses
      BY <1>0, <1>01, <2>1 DEF Own, ReturnsOther, Returning, Refunding
    <3> QED BY <1>0, <2>1, <3>1 DEF ClaimsOther
  <2>5. Sober(r)
    BY <1>01, <2>1 DEF Sober, Refunding, Idle
  <2> QED BY <2>2, <2>3, <2>4, <2>5, SoberMoney
<1>2. CASE RefundCall(r)
  <2>1. /\ Others(r) /\ UNCHANGED <<order, payment, confirmed, attempt>>
        /\ req[r].pc = "refund.call"
        /\ \/ req'[r] = Idle
           \/ /\ req'[r].pc = "refund.mark" /\ req'[r].op = req[r].op
              /\ req'[r].o = req[r].o /\ req'[r].dup = req[r].dup
    BY <1>2 DEF RefundCall, Others
  <2>2. \A o \in RzpOrder : rzp[o] = "refunded" => rzp'[o] = "refunded"
    BY <1>0, <1>2 DEF RefundCall
  <2>3. Own(r)'
    BY <1>0, <2>1 DEF Own, NotRetrying, CapturesNew, ReturnsOther,
       AdminKnows, Returning, Refunding, Idle
  <2>4. Backed' /\ ClaimsOther'
    BY <1>0, <2>1 DEF Backed, ClaimsOther
  <2>5. Sober(r)
    BY <1>01, <2>1, <2>2 DEF Sober, Refunding, Idle
  <2> QED BY <2>3, <2>4, <2>5, SoberMoney
<1>3. CASE RefundCallFails(r)
  BY <1>0, <1>3, OtherBland, BlandMoney
<1>4. CASE RefundMark(r)
  <2>1. /\ Others(r) /\ UNCHANGED <<order, payment, confirmed, rzp>>
        /\ req[r].pc = "refund.mark"
        /\ \/ req'[r] = Idle
           \/ /\ req'[r].pc = "refund.pay" /\ req'[r].op = req[r].op
              /\ req'[r].o = req[r].o /\ ~req[r].dup
        /\ \A o \in RzpOrder : attempt'[o] \in {attempt[o], "REFUNDED"}
    BY <1>0, <1>4 DEF RefundMark, Others
  <2>2. Own(r)'
    BY <1>0, <1>01, <2>1 DEF Own, NotRetrying, CapturesNew, ReturnsOther,
       AdminKnows, Returning, Refunding, Idle
  <2>3. Backed' /\ ClaimsOther'
    BY <1>0, <2>1 DEF Backed, ClaimsOther
  <2>4. Sober(r)
    BY <1>01, <2>1 DEF Sober, Refunding, Idle
  <2> QED BY <2>2, <2>3, <2>4, SoberMoney
<1>5. CASE RefundPay(r)
  <2>1. /\ Others(r) /\ UNCHANGED <<order, confirmed, rzp, attempt>>
        /\ req[r].pc = "refund.pay" /\ req'[r].pc \in {"idle", "cancel.final"}
        /\ payment'.status = "REFUNDED"
    BY <1>0, <1>5 DEF RefundPay, Others, Idle
  <2>2. Own(r)'
    BY <2>1 DEF Own, NotRetrying, CapturesNew, ReturnsOther,
       AdminKnows, Returning, Refunding, Idle
  <2>3. Backed' /\ ClaimsOther'
    BY <1>0, <2>1 DEF Own, ReturnsOther, Returning, Refunding, Backed, ClaimsOther
  <2>4. Sober(r)
    BY <1>01, <2>1 DEF Sober, Refunding, Idle
  <2> QED BY <2>2, <2>3, <2>4, SoberMoney
<1> QED BY <1>1, <1>2, <1>3, <1>4, <1>5 DEF Refund
-----------------------------------------------------------------------------
(* The customer closes the dialog: an order nobody has paid is cancelled, or  *)
(* one that a capture has just confirmed, which then loses nothing else.      *)

LEMMA CancelMoney ==
  ASSUME TypeInv, ConfirmInv, MoneyInv, NEW r \in Req, Cancel(r)
  PROVE  MoneyInv'
<1> USE DoneFrame, GotoFrame, StartFrame DEF db, locks, external, GotoOrDone
<1>0. /\ Own(r) /\ Backed /\ ClaimsOther /\ Fresh /\ RefundedOrderReturnsMoney
      /\ payment \in [status : PaymentStatus, oid : RzpOrder \cup {NoId}, pid : PayId]
  BY DEF MoneyInv, Rows, TypeInv, TypeOK
<1>1. CASE CancelStart(r) \/ CancelFetch(r) \/ CancelRead(r)
  <2>1. Bland(r)
    BY <1>1 DEF CancelStart, CancelFetch, CancelRead, Fetched, Bland, Others, Idle,
       Returning, Refunding, AdminPC
  <2> QED BY <2>1, BlandMoney
<1>2. CASE CancelWrite(r) \/ CancelFinal(r)
  <2>1. /\ Others(r) /\ UNCHANGED <<attempt, confirmed, rzp>> /\ req'[r] = Idle
        /\ order' \in {order, "CANCELLED"}
        /\ \/ payment' = payment
           \/ payment'.status = "FAILED" /\ order' = "CANCELLED"
    BY <1>0, <1>2 DEF CancelWrite, CancelFinal, Others
  <2>2. Considerate(r)
    BY <2>1 DEF Considerate, NoNewBacking, PaidStatuses
  <2>3. Own(r)'
    BY <2>1 DEF Own, NotRetrying, CapturesNew, ReturnsOther, AdminKnows, Returning,
       Refunding, Idle
  <2>4. Fresh'
    <3>1. Early' => Early
      BY <2>1, EarlyBefore DEF Confirming, Idle
    <3>2. Untouched => Untouched'
      BY <2>1 DEF Untouched, Unpaid, Others, Returning, Refunding, Idle
    <3> QED BY <1>0, <3>1, <3>2 DEF Fresh
  <2>5. Backed' /\ ClaimsOther' /\ RefundedOrderReturnsMoney'
    BY <1>0, <2>1 DEF Backed, ClaimsOther, RefundedOrderReturnsMoney, PaidStatuses
  <2> QED BY <2>2, <2>3, <2>4, <2>5, OthersKeep DEF MoneyInv, Rows
<1> QED BY <1>1, <1>2 DEF Cancel
-----------------------------------------------------------------------------
(* The minute cron                                                           *)

LEMMA CronMoney ==
  ASSUME TypeInv, ConfirmInv, OrderLockInv, MoneyInv, NEW r \in Req, Cron(r)
  PROVE  MoneyInv'
<1> USE ReqAssumption, DoneFrame, GotoFrame
    DEF db, locks, external, At, Writable, GotoOrDone
<1>0. /\ Own(r) /\ Backed /\ ClaimsOther /\ Fresh
      /\ payment \in [status : PaymentStatus, oid : RzpOrder \cup {NoId}, pid : PayId]
      /\ attempt \in [RzpOrder -> AttemptStatus]
      /\ req[r] \in Local /\ req \in [Req -> Local]
  BY DEF MoneyInv, Rows, Own, NotRetrying, TypeInv, TypeOK
<1>1. CASE ExpireStart(r) \/ ExpireFetch(r)
  BY <1>0, <1>1, OtherBland, BlandMoney
<1>2. CASE ExpireLock(r)
  <2>1. /\ Others(r) /\ UNCHANGED <<order, payment, confirmed, rzp, attempt>>
        /\ \/ req'[r] = Idle
           \/ /\ req'[r].pc = "expire.commit" /\ req'[r].op = req[r].op
    <3>1. CASE StillPending
      <4>1. req'[r] = [req[r] EXCEPT !.pc = "expire.commit", !.saw = payment.status]
        BY <1>0, <1>2, <3>1 DEF ExpireLock, Remember
      <4>2. req'[r].pc = "expire.commit" /\ req'[r].op = req[r].op
        BY <1>0, <4>1 DEF Local
      <4> QED BY <1>0, <1>2, <3>1, <4>2 DEF ExpireLock, Remember, Others, StillPending
    <3>2. CASE ~StillPending
      BY <1>2, <3>2 DEF ExpireLock, Others
    <3> QED BY <3>1, <3>2
  <2>2. Own(r)'
    BY <1>0, <2>1 DEF Own, NotRetrying, CapturesNew, ReturnsOther,
       AdminKnows, Returning, Refunding, Idle
  <2>3. Backed' /\ ClaimsOther'
    BY <1>0, <2>1 DEF Backed, ClaimsOther
  <2>4. Sober(r)
    BY <2>1 DEF Sober, Untouched, Returning, Refunding, Others, Idle
  <2> QED BY <2>2, <2>3, <2>4, SoberMoney
<1>3. CASE ExpireCommit(r)
  <2>1. /\ Others(r) /\ UNCHANGED <<confirmed, rzp, attempt>> /\ req'[r] = Idle
        /\ order = "PENDING_PAYMENT"
        /\ \/ UNCHANGED <<order, payment>>
           \/ /\ order' = "CANCELLED"
              /\ payment'.status \in {payment.status, "FAILED"}
    BY <1>0, <1>3 DEF ExpireCommit, Others, ReleaseAll, Release, OrderLockInv
  <2>2. Untouched
    BY <1>0, <2>1 DEF Fresh, Early
  <2>3. Considerate(r)
    BY <2>1, <2>2 DEF Considerate, Untouched, Unpaid
  <2>4. Own(r)'
    BY <2>1 DEF Own, NotRetrying, CapturesNew, ReturnsOther,
       AdminKnows, Returning, Refunding, Idle
  <2>5. Untouched'
    BY <2>1, <2>2 DEF Untouched, Unpaid, Returning, Refunding, Others, Idle
  <2>6. Backed' /\ ClaimsOther'
    BY <2>1, <2>2 DEF Backed, ClaimsOther, Untouched, PaidStatuses
  <2>7. RefundedOrderReturnsMoney'
    BY <1>0, <2>1 DEF RefundedOrderReturnsMoney
  <2> QED BY <2>3, <2>4, <2>5, <2>6, <2>7, OthersKeep DEF MoneyInv, Rows, Fresh
<1>4. CASE RecoverStart(r)
  <2>1. PICK o \in RzpOrder :
          /\ attempt[o] = "REFUND_PENDING"
          /\ req' = [req EXCEPT ![r] = [Idle EXCEPT !.pc = "recover.fetch",
                        !.op = "recover", !.o = o, !.dup = payment.pid # o]]
    BY <1>4 DEF RecoverStart
  <2>2. /\ req'[r].pc = "recover.fetch" /\ req'[r].op = "recover" /\ req'[r].o = o
        /\ \A s \in Req \ {r} : req'[s] = req[s]
    BY <1>0, <2>1 DEF Idle
  <2>3. UNCHANGED <<order, payment, confirmed, rzp, attempt, payLock, ordLock>>
    BY <1>4 DEF RecoverStart
  <2>4. Own(r)'
    BY <1>0, <2>1, <2>2, <2>3 DEF ClaimsOther, Own, NotRetrying,
       CapturesNew, ReturnsOther, AdminKnows, Returning, Refunding
  <2>5. Backed' /\ ClaimsOther'
    BY <1>0, <2>3 DEF Backed, ClaimsOther
  <2>6. Sober(r)
    BY <2>1, <2>2, <2>3 DEF Sober, Untouched, Others
  <2> QED BY <2>4, <2>5, <2>6, SoberMoney
<1>5. CASE RecoverFetch(r)
  <2>1. /\ Others(r) /\ UNCHANGED <<order, payment, confirmed, rzp>>
        /\ req[r].pc = "recover.fetch"
        /\ \/ req'[r] = Idle
           \/ /\ req'[r].pc = "recover.pay" /\ req'[r].op = req[r].op
              /\ req'[r].o = req[r].o
        /\ \A o \in RzpOrder : attempt'[o] \in {attempt[o], "REFUNDED"}
    BY <1>0, <1>5 DEF RecoverFetch, Others
  <2>2. Own(r)'
    BY <1>0, <2>1 DEF Own, NotRetrying, CapturesNew, ReturnsOther,
       AdminKnows, Returning, Refunding, Idle
  <2>3. Backed' /\ ClaimsOther'
    BY <1>0, <2>1 DEF Backed, ClaimsOther
  <2>4. Sober(r)
    BY <2>1 DEF Sober, Untouched, Returning, Idle
  <2> QED BY <2>2, <2>3, <2>4, SoberMoney
<1>6. CASE RecoverPay(r)
  <2>1. /\ Others(r) /\ UNCHANGED <<order, confirmed, rzp, attempt>>
        /\ req[r].pc = "recover.pay" /\ req'[r] = Idle
        /\ payment' = payment \/ (payment'.status = "REFUNDED" /\ payment.pid = req[r].o)
    BY <1>0, <1>6 DEF RecoverPay, Others
  <2>2. Own(r)'
    BY <2>1 DEF Own, NotRetrying, CapturesNew, ReturnsOther,
       AdminKnows, Returning, Refunding, Idle
  <2>3. Backed' /\ ClaimsOther'
    BY <1>0, <2>1 DEF Own, ReturnsOther, Returning, Backed, ClaimsOther
  <2>4. Sober(r)
    BY <2>1 DEF Sober, Untouched, Returning, Idle
  <2> QED BY <2>2, <2>3, <2>4, SoberMoney
<1> QED BY <1>1, <1>2, <1>3, <1>4, <1>5, <1>6 DEF Cron
-----------------------------------------------------------------------------
(* The administrator                                                         *)

\* Where the table of moves can lead.
LEMMA Moves ==
  ASSUME NEW s, NEW t \in Transitions(s)
  PROVE  /\ t # "PENDING_PAYMENT" /\ (s = "PENDING_PAYMENT" => t # "REFUNDED")
         /\ s = "PENDING_PAYMENT" \/ s \in PaidStatuses
BY DEF Transitions, PaidStatuses

LEMMA AdminMoney ==
  ASSUME TypeInv, ConfirmInv, MoneyInv, NEW r \in Req, Admin(r)
  PROVE  MoneyInv'
<1> USE ReqAssumption, DoneFrame, GotoFrame
    DEF db, locks, external, At, Writable
<1>0. /\ Own(r) /\ Backed /\ ClaimsOther /\ Fresh
      /\ RefundedOrderReturnsMoney
      /\ confirmed \in [RzpOrder -> Nat] /\ rzp \in [RzpOrder -> RzpStatus]
      /\ payment \in [status : PaymentStatus, oid : RzpOrder \cup {NoId}, pid : PayId]
      /\ req \in [Req -> Local] /\ req[r] \in Local
      /\ req[r].pc = "admin.refund" => req[r].o \in RzpOrder
  BY LocalsType DEF MoneyInv, Rows, Own, NotRetrying, TypeInv, TypeOK, OrderPC
<1>1. CASE AdminStart(r)
  <2>1. PICK to \in Transitions(order) :
          req' = [req EXCEPT ![r] = [Idle EXCEPT !.pc = "admin.tx", !.op = "admin",
                                        !.saw = order, !.to = to]]
    BY <1>1 DEF AdminStart
  <2>2. /\ req'[r].pc = "admin.tx" /\ req'[r].op = "admin"
        /\ req'[r].saw = order /\ req'[r].to = to
        /\ \A s \in Req \ {r} : req'[s] = req[s]
    BY <1>0, <2>1 DEF Idle
  <2>3. UNCHANGED <<order, payment, confirmed, rzp, attempt, payLock, ordLock>>
    BY <1>1 DEF AdminStart
  <2>4. Own(r)'
    BY <2>2, <2>3 DEF Own, NotRetrying, CapturesNew, ReturnsOther,
       AdminKnows, Returning, Refunding
  <2>5. Backed' /\ ClaimsOther'
    BY <1>0, <2>3 DEF Backed, ClaimsOther
  <2>6. Sober(r)
    BY <2>2, <2>3 DEF Sober, Untouched, Others, Returning, Refunding
  <2> QED BY <2>4, <2>5, <2>6, SoberMoney
<1>2. CASE AdminMove(r)
  <2>1. /\ Others(r) /\ UNCHANGED <<payment, attempt, confirmed, rzp>> /\ req'[r] = Idle
        /\ UNCHANGED <<payLock, ordLock>>
    BY <1>2 DEF AdminMove, Others
  <2>2. Own(r)'
    BY <2>1 DEF Own, NotRetrying, CapturesNew, ReturnsOther,
       AdminKnows, Returning, Refunding, Idle
  <2>3. CASE UNCHANGED order
    <3>1. Backed' /\ ClaimsOther'
      BY <1>0, <2>1, <2>3 DEF Backed, ClaimsOther
    <3>2. Sober(r)
      BY <2>1, <2>3 DEF Sober, Untouched, Others, Returning, Refunding, Idle
    <3> QED BY <2>2, <3>1, <3>2, SoberMoney
  <2>4. CASE ~UNCHANGED order
    <3>1. /\ order' \in Transitions(order) /\ order' # "REFUNDED"
      BY <1>0, <1>2, <2>4 DEF AdminMove, SameStatus, Own, AdminKnows
    <3>2. order' # "PENDING_PAYMENT" /\ (order = "PENDING_PAYMENT" \/ order \in PaidStatuses)
      BY <3>1, Moves
    <3>3. \/ order = "PENDING_PAYMENT" /\ Untouched /\ \A o \in RzpOrder : confirmed[o] = 0
          \/ order \in PaidStatuses
      BY <1>0, <3>2 DEF Fresh, Early, ConfirmInv, NothingConfirmed
    <3>4. Considerate(r)
      BY <2>1, <3>2, <3>3 DEF Considerate, NoNewBacking
    <3>5. Backed' /\ ClaimsOther'
      BY <1>0, <2>1, <3>3 DEF Backed, ClaimsOther
    <3>6. Fresh'
      <4>1. Early' => Early
        BY <2>1, <3>2, EarlyBefore DEF Confirming, Idle
      <4>2. Untouched => Untouched'
        BY <2>1 DEF Untouched, Others, Returning, Refunding, Idle
      <4> QED BY <1>0, <4>1, <4>2 DEF Fresh
    <3>7. RefundedOrderReturnsMoney'
      BY <3>1 DEF RefundedOrderReturnsMoney
    <3> QED BY <2>2, <3>4, <3>5, <3>6, <3>7, OthersKeep DEF MoneyInv, Rows
  <2> QED BY <2>3, <2>4
<1>3. CASE AdminLockPayment(r)
  <2>1. /\ Others(r) /\ UNCHANGED <<order, payment, confirmed, rzp, attempt>>
        /\ payLock' = r /\ req[r].pc = "admin.tx" /\ req[r].to = "REFUNDED"
        /\ req'[r].pc = "admin.locked" /\ req'[r].op = req[r].op
        /\ req'[r].saw = req[r].saw /\ req'[r].to = req[r].to
    BY <1>3 DEF AdminLockPayment, Others
  <2>2. Own(r)'
    BY <1>0, <2>1 DEF Own, NotRetrying, CapturesNew, ReturnsOther,
       AdminKnows, Returning, Refunding
  <2>3. Backed' /\ ClaimsOther'
    BY <1>0, <2>1 DEF Backed, ClaimsOther
  <2>4. Sober(r)
    BY <2>1 DEF Sober, Untouched, Others, Returning, Refunding
  <2> QED BY <2>2, <2>3, <2>4, SoberMoney
<1>4. CASE AdminLockOrder(r)
  <2>1. /\ UNCHANGED <<order, payment, confirmed, rzp, attempt>>
        /\ req[r].pc = "admin.locked" /\ payLock = r
        /\ "REFUNDED" \in Transitions(req[r].saw)
    BY <1>0, <1>4 DEF AdminLockOrder, Own, AdminKnows
  <2>2. Backed' /\ ClaimsOther'
    BY <1>0, <2>1 DEF Backed, ClaimsOther
  <2>3. CASE SameStatus(r) /\ Refundable
    <3>1. payment.pid \in RzpOrder /\ order \in PaidStatuses
      BY <2>1, <2>3, Moves DEF SameStatus, Refundable, TypeInv
    <3>2. /\ req'[r].pc = "admin.refund" /\ req'[r].op = req[r].op
          /\ req'[r].o = payment.pid /\ Others(r) /\ payLock' = r /\ ordLock' = r
      <4>1. /\ Take(r, "admin.refund", payment.pid)
            /\ payLock' = payLock /\ ordLock' = r /\ ordLock \in {Nobody, r}
        BY <1>4, <2>3 DEF AdminLockOrder
      <4>2. req'[r] = [req[r] EXCEPT !.pc = "admin.refund", !.o = payment.pid]
        BY <1>0, <4>1 DEF Take
      <4>3. /\ req'[r].pc = "admin.refund" /\ req'[r].op = req[r].op
            /\ req'[r].o = payment.pid
        BY <1>0, <4>2 DEF Local
      <4>4. \A s \in Req \ {r} : req'[s] = req[s]
        BY <4>1, TakeFrame
      <4> QED BY <2>1, <4>1, <4>3, <4>4 DEF Others
    <3>3. \A o \in RzpOrder : confirmed[o] > 0 => o = payment.pid
      BY <1>0, <3>1 DEF Backed
    <3>4. Own(r)'
      BY <1>0, <2>1, <3>2, <3>3 DEF Own, NotRetrying, CapturesNew, ReturnsOther,
         AdminKnows, Returning, Refunding
    <3>5. ~Untouched
      BY <2>3 DEF Refundable, Untouched, Unpaid
    <3>6. Sober(r)
      BY <2>1, <3>2, <3>5 DEF Sober
    <3> QED BY <2>2, <3>4, <3>6, SoberMoney
  <2>4. CASE ~(SameStatus(r) /\ Refundable)
    <3>1. Others(r) /\ req'[r] = Idle
      BY <1>4, <2>4 DEF AdminLockOrder, Others, ReleaseAll, Release
    <3>2. Own(r)'
      BY <3>1 DEF Own, NotRetrying, CapturesNew, ReturnsOther,
         AdminKnows, Returning, Refunding, Idle
    <3>3. Sober(r)
      BY <2>1, <3>1 DEF Sober, Untouched, Others, Returning, Refunding, Idle
    <3> QED BY <2>2, <3>2, <3>3, SoberMoney
  <2> QED BY <2>3, <2>4
<1>5. CASE AdminRefund(r)
  <2>1. /\ Others(r) /\ UNCHANGED <<order, payment, confirmed, attempt>>
        /\ req[r].pc = "admin.refund" /\ UNCHANGED <<payLock, ordLock>>
        /\ req'[r].pc = "admin.commit" /\ req'[r].op = req[r].op
    BY <1>5 DEF AdminRefund, Others
  <2>2. /\ rzp'[req[r].o] = "refunded"
        /\ \A o \in RzpOrder : rzp[o] = "refunded" => rzp'[o] = "refunded"
    BY <1>0, <1>5 DEF AdminRefund
  <2>3. Own(r)'
    BY <1>0, <2>1, <2>2 DEF Own, NotRetrying, CapturesNew, ReturnsOther,
       AdminKnows, Returning, Refunding
  <2>4. Backed' /\ ClaimsOther'
    BY <1>0, <2>1 DEF Backed, ClaimsOther
  <2>5. Sober(r)
    BY <2>1, <2>2 DEF Sober, Untouched
  <2> QED BY <2>3, <2>4, <2>5, SoberMoney
<1>6. CASE AdminRefundFails(r)
  BY <1>0, <1>6, OtherBland, BlandMoney
<1>7. CASE AdminCommit(r)
  <2>1. /\ Others(r) /\ UNCHANGED <<confirmed, rzp, attempt>>
        /\ req[r].pc = "admin.commit" /\ req'[r] = Idle
        /\ order' = "REFUNDED" /\ payment'.status = "REFUNDED"
    BY <1>0, <1>7 DEF AdminCommit, Others, ReleaseAll, Release
  <2>2. Own(r)'
    BY <2>1 DEF Own, NotRetrying, CapturesNew, ReturnsOther,
       AdminKnows, Returning, Refunding, Idle
  <2>3. \A o \in RzpOrder : confirmed[o] > 0 => rzp[o] = "refunded"
    BY <1>0, <2>1 DEF Own, AdminKnows
  <2>4. Considerate(r)
    BY <2>1, <2>3 DEF Considerate, NoNewBacking, PaidStatuses
  <2>5. Fresh'
    <3>1. Early' => Early
      BY <2>1, EarlyBefore DEF Confirming, Idle
    <3>2. ~Untouched
      BY <2>1 DEF Untouched
    <3> QED BY <1>0, <3>1, <3>2 DEF Fresh
  <2>6. Backed' /\ ClaimsOther'
    BY <1>0, <2>1 DEF Backed, ClaimsOther, PaidStatuses
  <2>7. RefundedOrderReturnsMoney'
    BY <2>1, <2>3 DEF RefundedOrderReturnsMoney
  <2> QED BY <2>2, <2>4, <2>5, <2>6, <2>7, OthersKeep DEF MoneyInv, Rows
<1> QED BY <1>1, <1>2, <1>3, <1>4, <1>5, <1>6, <1>7 DEF Admin
-----------------------------------------------------------------------------
(* The theorems                                                              *)

LEMMA MoneyNext ==
  ASSUME WithoutRetry
  PROVE  TypeInv /\ ConfirmInv /\ OrderLockInv /\ MoneyInv /\ [Next]_vars => MoneyInv'
<1> SUFFICES ASSUME TypeInv, ConfirmInv, OrderLockInv, MoneyInv, [Next]_vars
             PROVE  MoneyInv'
  OBVIOUS
<1>1. \A r \in Req : Own(r)
  BY DEF MoneyInv
<1>2. CASE \/ \E o \in RzpOrder : RzpAuthorize(o) \/ RzpCapture(o) \/ RzpFail(o)
           \/ CloseWindow \/ RecoverStaleCreation \/ UNCHANGED vars
  BY <1>2, OutsideMoney
<1>3. CASE AtRest
  BY <1>3, OutsideMoney DEF AtRest
<1>4. CASE \E r \in Req : Create(r) \/ Notify(r) \/ Crash(r) \/ DeadlockVictim(r)
  BY <1>1, <1>4, CreateBland, NotifyBland, OtherBland, BlandMoney
<1>5. CASE \E r \in Req : Capture(r) \/ Refund(r) \/ Cancel(r) \/ Cron(r) \/ Admin(r)
  BY <1>5, CaptureMoney, RefundMoney, CancelMoney, CronMoney, AdminMoney
<1>6. CASE \E r \in Req : Retry(r)
  BY <1>1, <1>6, NobodyRetries
<1> QED BY <1>2, <1>3, <1>4, <1>5, <1>6 DEF Next

\* Every invariant the facts about money rest on.
LEMMA MoneyHolds ==
  ASSUME WithoutRetry
  PROVE  Spec => [](TypeInv /\ ConfirmInv /\ OrderLockInv /\ MoneyInv)
<1>1. TypeInv /\ ConfirmInv /\ OrderLockInv /\ MoneyInv /\ [Next]_vars => MoneyInv'
  BY MoneyNext
<1> QED
  BY <1>1, OrderLockHolds, MoneyInit, PTL DEF Spec

\* As long as the customer does not retry a payment, no handler, cron tick or
\* administrator racing with others, a customer who cancels included, is about
\* to refund the capture that confirmed an order still being fulfilled.
THEOREM FulfilledOrderKeepsItsMoney ==
  ASSUME WithoutRetry
  PROVE  Spec => []ConfirmedNotRefunded
<1>1. TypeInv /\ MoneyInv => ConfirmedNotRefunded
  BY LocalsType
  DEF MoneyInv, Own, ReturnsOther, Returning, Refunding, ConfirmedNotRefunded, At, OrderPC
<1> QED
  BY <1>1, MoneyHolds, PTL

\* Under the same condition an administrator's REFUNDED means that Razorpay has
\* refunded the very payment that confirmed the order.
THEOREM RefundedMeansReturned ==
  ASSUME WithoutRetry
  PROVE  Spec => []RefundedOrderReturnsMoney
<1>1. MoneyInv => RefundedOrderReturnsMoney
  BY DEF MoneyInv, Rows
<1> QED
  BY <1>1, MoneyHolds, PTL

Keeps == payment.status = "CAPTURED" => payment'.status \in {"CAPTURED", "REFUNDED"}

LEMMA StepKeepsCapture ==
  ASSUME WithoutRetry, WithoutCancel, TypeInv, OrderLockInv, MoneyInv, CouponInv,
         [Next]_vars
  PROVE  Keeps
<1>0. /\ \A r \in Req : Own(r) /\ ~Cancel(r)
      /\ payment \in [status : PaymentStatus, oid : RzpOrder \cup {NoId}, pid : PayId]
  BY NobodyCancels DEF MoneyInv, CouponInv, TypeInv, TypeOK
<1>1. CASE \/ \E o \in RzpOrder : RzpAuthorize(o) \/ RzpCapture(o) \/ RzpFail(o)
           \/ CloseWindow \/ RecoverStaleCreation \/ AtRest \/ UNCHANGED vars
  BY <1>0, <1>1 DEF RzpAuthorize, RzpCapture, RzpFail, CloseWindow, RecoverStaleCreation,
     EndCreating, AtRest, db, vars, Keeps
<1>2. ASSUME NEW r \in Req, Create(r) \/ Notify(r) \/ Crash(r) \/ DeadlockVictim(r)
      PROVE  Keeps
  <2>1. Bland(r)
    BY <1>0, <1>2, CreateBland, NotifyBland, OtherBland
  <2> QED BY <2>1 DEF Bland, Keeps
<1>3. CASE \E r \in Req : Capture(r)
  BY <1>3 DEF Capture, CaptureBegin, CaptureNothing, CaptureDuplicate, CaptureLate,
     CaptureConfirm, RecordCapture, db, Keeps
<1>4. CASE \E r \in Req : Refund(r)
  BY <1>0, <1>4 DEF Refund, RefundClaim, RefundCall, RefundCallFails, RefundMark, RefundPay,
     db, Keeps
<1>5. ASSUME NEW r \in Req, Cron(r)
      PROVE  Keeps
  <2>1. CASE ExpireCommit(r)
    <3>1. payment.status # "CAPTURED"
      BY <1>0, <2>1 DEF ExpireCommit, At, OrderLockInv, MoneyInv, Rows, Fresh, Early,
         Untouched, Unpaid
    <3> QED BY <3>1 DEF Keeps
  <2>2. CASE ExpireStart(r) \/ ExpireFetch(r) \/ ExpireLock(r) \/ RecoverStart(r)
             \/ RecoverFetch(r)
    BY <2>2 DEF ExpireStart, ExpireFetch, ExpireLock, RecoverStart, RecoverFetch, db, Keeps
  <2>3. CASE RecoverPay(r)
    BY <1>0, <2>3 DEF RecoverPay, Keeps
  <2> QED BY <1>5, <2>1, <2>2, <2>3 DEF Cron
<1>6. CASE \E r \in Req : Admin(r)
  BY <1>0, <1>6 DEF Admin, AdminStart, AdminMove, AdminLockPayment, AdminLockOrder,
     AdminRefund, AdminRefundFails, AdminCommit, db, Keeps
<1>7. CASE \E r \in Req : Cancel(r) \/ Retry(r)
  BY <1>0, <1>7, NobodyRetries
<1> QED BY <1>1, <1>2, <1>3, <1>4, <1>5, <1>6, <1>7 DEF Next

\* Unless the customer cancels or retries, no late webhook, expiry or order
\* creation overwrites a captured payment row: it leaves CAPTURED only for
\* REFUNDED.
THEOREM CapturedStaysCaptured ==
  ASSUME WithoutRetry, WithoutCancel
  PROVE  Spec => CaptureKept
<1>1. TypeInv /\ OrderLockInv /\ MoneyInv /\ CouponInv /\ [Next]_vars => [Keeps]_vars
  BY StepKeepsCapture
<1>2. Spec => [][Keeps]_vars
  BY <1>1, MoneyHolds, CouponHolds, PTL DEF Spec
<1> QED
  BY <1>2 DEF CaptureKept, Keeps
-----------------------------------------------------------------------------
(* The refinement of Settlement.  RealInv: a handler that books a capture or  *)
(* refunds it has a payment in hand that Razorpay really captured, and no     *)
(* order is revived by a capture after its refund.                            *)

Got(o) == rzp[o] \in {"captured", "refunded"}
WithMoney == {"capture", "capture.commit", "admin.refund"} \cup Refunding
HasMoney(r) == req[r].pc \in WithMoney => Got(req[r].o)
RevivesOpen(r) == Confirming(r) => order # "REFUNDED"
RealInv ==
  /\ \A r \in Req : HasMoney(r) /\ RevivesOpen(r)
  /\ payment.status = "CAPTURED" => Got(payment.pid)
  /\ Early => \A o \in RzpOrder : rzp[o] # "refunded"

\* A step of r that keeps RealInv.
Genuine(r) ==
  /\ Locking(r)
  /\ \A o \in RzpOrder : Got(o) => Got(o)'
  /\ \A o \in RzpOrder : rzp'[o] = "refunded" => rzp[o] = "refunded" \/ ~Early
  /\ HasMoney(r)'
  /\ payment'.status = "CAPTURED" =>
       payment' = payment \/ \E o \in RzpOrder : payment'.pid = o /\ Got(o)
  /\ req'[r].pc = "capture.commit" => req'[r].saw = order /\ order' = order
  /\ order' = "REFUNDED" => order = "REFUNDED" \/ payLock = r

LEMMA GenuineReal ==
  ASSUME TypeInv, ConfirmInv, RealInv, NEW r \in Req, Genuine(r)
  PROVE  RealInv'
<1>0. Others(r)
  BY DEF Genuine, Locking
<1>1. ASSUME NEW s \in Req
      PROVE  HasMoney(s)' /\ RevivesOpen(s)'
  <2>1. CASE s = r
    BY <2>1 DEF Genuine, RevivesOpen, Confirming
  <2>2. CASE s # r
    <3>1. req'[s] = req[s] /\ HasMoney(s) /\ RevivesOpen(s)
      BY <1>0, <2>2 DEF Others, RealInv
    <3>2. HasMoney(s)'
      <4>1. req[s].pc \in WithMoney => req[s].o \in RzpOrder
        BY LocalsType DEF WithMoney, Refunding, OrderPC
      <4>2. \A o \in RzpOrder : Got(o) => rzp'[o] \in {"captured", "refunded"}
        BY DEF Genuine, Got
      <4> QED BY <3>1, <4>1, <4>2 DEF HasMoney, Got
    <3>3. RevivesOpen(s)'
      BY <2>2, <3>1 DEF Genuine, RevivesOpen, Confirming, ConfirmInv
    <3> QED BY <3>2, <3>3
  <2> QED BY <2>1, <2>2
<1>2. payment'.status = "CAPTURED" => Got(payment.pid)'
  <2>1. \A o \in RzpOrder : Got(o) => rzp'[o] \in {"captured", "refunded"}
    BY DEF Genuine, Got
  <2>2. payment.status = "CAPTURED" => payment.pid \in RzpOrder /\ Got(payment.pid)
    BY DEF RealInv, TypeInv
  <2> QED BY <2>1, <2>2 DEF Genuine, Got
<1>3. Early' => \A o \in RzpOrder : rzp'[o] # "refunded"
  <2>1. Early' => Early
    BY <1>0, EarlyBefore DEF Genuine, Locking, Confirming
  <2> QED BY <2>1 DEF Genuine, RealInv
<1> QED BY <1>1, <1>2, <1>3 DEF RealInv

\* What the mapping makes of Razorpay's answers.
LEMMA MoneyOf ==
  \A o \in RzpOrder :
    /\ Money[o] = "held" <=> rzp[o] = "captured"
    /\ Money[o] = "returned" <=> rzp[o] = "refunded"
    /\ Money'[o] = "held" <=> rzp'[o] = "captured"
    /\ Money'[o] = "returned" <=> rzp'[o] = "refunded"
    /\ Money[o] \in {"none", "held", "returned"}
    /\ Money'[o] \in {"none", "held", "returned"}
  BY DEF Money

LEMMA SameMoney ==
  ASSUME \A o \in RzpOrder : Money'[o] = Money[o]
  PROVE  Money' = Money
  BY DEF Money

DecidingPC == {"admin.refund", "admin.commit"}

\* Who decides keeps the Order lock, so nobody else does.
LEMMA DecidesAlone ==
  ASSUME TypeInv, OrderLockInv, NEW r \in Req, NEW s \in Req, s \in Deciders,
         ordLock \in {Nobody, r}
  PROVE  s = r
  BY ReqAssumption DEF Deciders, OrderLockInv, HoldsOrder

LEMMA SameDeciders ==
  ASSUME NEW r \in Req, Others(r),
         req'[r].pc \in DecidingPC <=> req[r].pc \in DecidingPC
  PROVE  Deciders' = Deciders
  BY DEF Deciders, DecidingPC, Others

-----------------------------------------------------------------------------
(* Steps that the abstract order does not see                                *)

Mute(r) ==
  /\ Genuine(r) /\ UNCHANGED <<order, coupon, confirmed>> /\ Money' = Money
  /\ req[r].pc \notin DecidingPC /\ req'[r].pc \notin DecidingPC

LEMMA MuteStutters ==
  ASSUME NEW r \in Req, Mute(r)
  PROVE  UNCHANGED Ledger!ledger
<1>1. Deciders' = Deciders
  BY SameDeciders DEF Mute, Genuine, Locking
<1>2. Payers' = Payers
  BY DEF Payers, Mute
<1> QED BY <1>1, <1>2 DEF Mute, Ledger!ledger

InHand(r) == req[r].pc = "capture" => Got(req[r].o)

\* A bland step is mute if it leaves the money alone and has some in hand when
\* it goes on to a capture.
LEMMA BlandMute ==
  ASSUME TypeInv, NEW r \in Req, Bland(r), Locking(r), coupon' = coupon, Money' = Money,
         req[r].pc \notin DecidingPC,
         InHand(r)'
  PROVE  Mute(r)
<1>1. \A o \in RzpOrder : Got(o) <=> Got(o)'
  BY MoneyOf DEF Got
<1>2. \A o \in RzpOrder : rzp'[o] = "refunded" => rzp[o] = "refunded"
  BY MoneyOf
<1>3. HasMoney(r)'
  BY DEF Bland, InHand, HasMoney, WithMoney, Returning, AdminPC
<1>4. payment'.status = "CAPTURED" => payment' = payment
  BY DEF Bland, Unpaid
<1> QED
  BY <1>1, <1>2, <1>3, <1>4 DEF Bland, Genuine, Mute, DecidingPC, AdminPC
LEMMA CreateMute ==
  ASSUME TypeInv, NEW r \in Req, Own(r), Create(r)
  PROVE  Mute(r)
<1> USE DoneFrame, GotoFrame, StartFrame, TakeFrame DEF GotoOrDone, Idle, external, db, At
<1>1. Bland(r) /\ Locking(r) /\ coupon' = coupon
  BY CreateBland, LeavesOrder, SameOrder DEF OrderAlone
<1>2. req[r].pc \notin DecidingPC
  BY DEF DecidingPC, Create, CreateStart, CreateRead, CreateClaim, CreateCall, CreateCallFails,
     CreateSaveRead, CreateSaveWrite, CreateRelease, Invoke
<1>3. InHand(r)'
  BY DEF InHand, Create, CreateStart, CreateRead, CreateClaim, CreateCall, CreateCallFails,
     CreateSaveRead, CreateSaveWrite, CreateRelease
<1>4. Money' = Money
  <2>1. CASE CreateCall(r)
    <3>1. PICK o \in RzpOrder : rzp[o] = "none" /\ rzp' = [rzp EXCEPT ![o] = "created"]
      BY <2>1 DEF CreateCall
    <3>2. \A p \in RzpOrder : Money'[p] = Money[p]
      BY <3>1 DEF Money, TypeInv, TypeOK
    <3> QED BY <3>2, SameMoney
  <2>2. CASE ~CreateCall(r)
    <3>1. rzp' = rzp
      BY <2>2 DEF Create, CreateStart, CreateRead, CreateClaim, CreateCallFails,
         CreateSaveRead, CreateSaveWrite, CreateRelease
    <3> QED BY <3>1 DEF Money
  <2> QED BY <2>1, <2>2
<1> QED BY <1>1, <1>2, <1>3, <1>4, BlandMute

LEMMA NotifyMute ==
  ASSUME TypeInv, NEW r \in Req, Own(r), Notify(r)
  PROVE  Mute(r)
<1> USE DoneFrame, GotoFrame, StartFrame DEF GotoOrDone, Idle, external, db, At
<1>1. Bland(r) /\ Locking(r) /\ coupon' = coupon
  BY NotifyBland, LeavesOrder, SameOrder DEF OrderAlone
<1>2. req[r].pc \notin DecidingPC /\ rzp' = rzp
  BY DEF DecidingPC, Notify, VerifyStart, VerifyFetch, HookStart, FailStart, FailLock,
     FailCommit, Invoke
<1>3. InHand(r)'
  <2>1. CASE VerifyFetch(r)
    BY <1>2, <2>1 DEF VerifyFetch, InHand, Got
  <2>2. CASE HookStart(r)
    BY <1>2, <2>2 DEF HookStart, InHand, Got
  <2>3. CASE FailLock(r)
    BY <2>3, RememberFrame DEF FailLock, InHand
  <2> QED BY <2>1, <2>2, <2>3 DEF InHand, Notify, VerifyStart, FailStart, FailCommit
<1>4. Money' = Money
  BY <1>2 DEF Money
<1> QED BY <1>1, <1>2, <1>3, <1>4, BlandMute

LEMMA OtherMute ==
  ASSUME TypeInv, OrderLockInv, NEW r \in Req, Own(r), req[r].pc \notin DecidingPC,
         \/ CaptureNothing(r) \/ RefundCallFails(r)
         \/ ExpireStart(r) \/ ExpireFetch(r)
         \/ Crash(r) \/ DeadlockVictim(r)
  PROVE  Mute(r)
<1> USE DoneFrame, GotoFrame, StartFrame DEF Idle, external, db, At
<1>1. Bland(r)
  BY OtherBland
<1>2. Locking(r) /\ coupon' = coupon
  BY LeavesOrder, SameOrder, CronOrder
  DEF OrderAlone, Refund, Cron, ExpireStart, ExpireFetch
<1>3. rzp' = rzp
  BY DEF CaptureNothing, RefundCallFails, ExpireStart, ExpireFetch, Crash, Abandon,
     DeadlockVictim
<1>4. InHand(r)'
  <2>1. CASE ExpireFetch(r)
    BY <1>3, <2>1 DEF ExpireFetch, Fetched, InHand, Got
  <2> QED BY <2>1 DEF InHand, CaptureNothing, RefundCallFails, ExpireStart, Crash, Abandon,
          DeadlockVictim
<1>5. Money' = Money
  BY <1>3 DEF Money
<1> QED BY <1>1, <1>2, <1>4, <1>5, BlandMute

\* Captures that do not confirm the order.
LEMMA CaptureMute ==
  ASSUME TypeInv, RealInv, NEW r \in Req,
         CaptureBegin(r) \/ CaptureDuplicate(r) \/ CaptureLate(r)
  PROVE  Mute(r)
<1>1. /\ req[r].pc \in {"capture", "capture.commit"} /\ req[r].o \in RzpOrder
      /\ Got(req[r].o) /\ req \in [Req -> Local] /\ req[r] \in Local
  BY LocalsType
  DEF CaptureBegin, CaptureDuplicate, CaptureLate, At, OrderPC, RealInv, HasMoney, WithMoney,
      TypeInv, TypeOK
<1>2. Locking(r) /\ UNCHANGED <<order, coupon>>
  BY LeavesOrder, SameOrder DEF OrderAlone
<1>3. UNCHANGED <<rzp, confirmed>>
  BY DEF CaptureBegin, CaptureDuplicate, CaptureLate, db, external
<1>4. /\ req'[r].o = req[r].o /\ req'[r].pc \in {"capture.commit", "refund.claim"}
      /\ req'[r].pc = "capture.commit" => req'[r].saw = order
  <2>1. CASE CaptureBegin(r)
    BY <2>1, RememberFrame DEF CaptureBegin
  <2>2. CASE CaptureDuplicate(r)
    BY <1>1, <2>2 DEF CaptureDuplicate, Local
  <2>3. CASE CaptureLate(r)
    BY <2>3, GotoFrame DEF CaptureLate
  <2> QED BY <2>1, <2>2, <2>3
<1>5. HasMoney(r)'
  BY <1>1, <1>3, <1>4 DEF HasMoney, Got
<1>6. payment' = payment \/ payment'.pid = req[r].o
  BY DEF CaptureBegin, CaptureDuplicate, CaptureLate, RecordCapture, db
<1>7. Money' = Money
  BY <1>3 DEF Money
<1>8. Genuine(r)
  BY <1>1, <1>2, <1>3, <1>4, <1>5, <1>6 DEF Genuine, Got
<1> QED BY <1>1, <1>2, <1>3, <1>4, <1>7, <1>8 DEF Mute, DecidingPC
LEMMA RefundMute ==
  ASSUME TypeInv, RealInv, NEW r \in Req, RefundClaim(r) \/ RefundMark(r) \/ RefundPay(r)
  PROVE  Mute(r)
<1> USE DoneFrame, GotoFrame DEF GotoOrDone, Idle
<1>1. /\ req[r].pc \in Refunding /\ req[r].o \in RzpOrder /\ Got(req[r].o)
      /\ payment \in [status : PaymentStatus, oid : RzpOrder \cup {NoId}, pid : PayId]
  BY LocalsType
  DEF RefundClaim, RefundMark, RefundPay, At, OrderPC, Refunding, RealInv, HasMoney, WithMoney,
      TypeInv, TypeOK
<1>2. Locking(r) /\ UNCHANGED <<order, coupon>>
  BY LeavesOrder, SameOrder DEF OrderAlone, Refund
<1>3. UNCHANGED <<rzp, confirmed>>
  BY DEF RefundClaim, RefundMark, RefundPay, external
<1>4. /\ req'[r].pc \in Refunding => req'[r].o = req[r].o
      /\ req'[r].pc \in Refunding \cup {"idle", "cancel.final"}
  BY DEF RefundClaim, RefundMark, RefundPay, Refunding
<1>5. HasMoney(r)'
  BY <1>1, <1>3, <1>4 DEF HasMoney, Got, WithMoney, Refunding
<1>6. payment'.status = "CAPTURED" => payment' = payment
  BY <1>1 DEF RefundClaim, RefundMark, RefundPay
<1>7. Money' = Money
  BY <1>3 DEF Money
<1>8. Genuine(r)
  BY <1>2, <1>3, <1>4, <1>5, <1>6 DEF Genuine, Got, Refunding
<1> QED BY <1>1, <1>2, <1>3, <1>4, <1>7, <1>8 DEF Mute, DecidingPC, Refunding

LEMMA CronMute ==
  ASSUME TypeInv, OrderLockInv, NEW r \in Req,
         \/ ExpireLock(r) \/ RecoverStart(r) \/ RecoverFetch(r) \/ RecoverPay(r)
         \/ ExpireCommit(r) /\ order' = order
  PROVE  Mute(r)
<1> USE DoneFrame, GotoFrame, RememberFrame DEF GotoOrDone, Idle
<1>0. /\ payment \in [status : PaymentStatus, oid : RzpOrder \cup {NoId}, pid : PayId]
      /\ coupon \in Nat
  BY DEF TypeInv, TypeOK
<1>1. Locking(r) /\ req[r].pc \notin DecidingPC
  BY CronOrder DEF Cron, DecidingPC, ExpireLock, RecoverStart, RecoverFetch, RecoverPay,
     ExpireCommit, Invoke, At
<1>2. UNCHANGED <<rzp, confirmed>>
  BY DEF ExpireLock, RecoverStart, RecoverFetch, RecoverPay, ExpireCommit, db, external
<1>3. UNCHANGED <<order, coupon>>
  <2>1. CASE ExpireCommit(r) /\ order' = order
    <3>1. order = "PENDING_PAYMENT"
      BY <2>1 DEF ExpireCommit, At, OrderLockInv
    <3> QED BY <2>1, <3>1 DEF ExpireCommit
  <2> QED BY <2>1 DEF ExpireLock, RecoverStart, RecoverFetch, RecoverPay, db
<1>4. req'[r].pc \in {"idle", "expire.commit", "recover.fetch", "recover.pay"}
  <2>1. CASE RecoverStart(r)
    <3>1. PICK o \in RzpOrder : req' = [req EXCEPT ![r] = [Idle EXCEPT
             !.pc = "recover.fetch", !.op = "recover", !.o = o, !.dup = payment.pid # o]]
      BY <2>1 DEF RecoverStart
    <3>2. req'[r].pc = "recover.fetch"
      BY <3>1 DEF TypeInv, TypeOK
    <3> QED BY <3>2
  <2> QED BY <2>1 DEF ExpireLock, RecoverFetch, RecoverPay, ExpireCommit
<1>5. payment'.status = "CAPTURED" => payment' = payment
  BY <1>0 DEF ExpireLock, RecoverStart, RecoverFetch, RecoverPay, ExpireCommit, db
<1>6. Money' = Money
  BY <1>2 DEF Money
<1>7. HasMoney(r)'
  BY <1>4 DEF HasMoney, WithMoney, Refunding
<1>8. Genuine(r)
  BY <1>1, <1>2, <1>3, <1>4, <1>5, <1>7 DEF Genuine, Got
<1> QED BY <1>1, <1>2, <1>3, <1>4, <1>6, <1>8 DEF Mute, DecidingPC

\* What an administrator does before the refund is decided.
LEMMA AdminMute ==
  ASSUME TypeInv, ConfirmInv, OrderLockInv, NEW r \in Req,
         \/ AdminStart(r) \/ AdminLockPayment(r)
         \/ AdminMove(r) /\ order' = order /\ coupon' = coupon
         \/ AdminLockOrder(r) /\ ~(SameStatus(r) /\ Refundable)
  PROVE  Mute(r)
<1> USE DoneFrame, GotoFrame DEF Idle
<1>1. Locking(r) /\ req[r].pc \notin DecidingPC
  BY AdminOrder DEF Admin, DecidingPC, AdminStart, AdminLockPayment, AdminMove, AdminLockOrder,
     Invoke, At
<1>2. UNCHANGED <<rzp, confirmed, payment, order, coupon>>
  BY DEF AdminStart, AdminLockPayment, AdminMove, AdminLockOrder, db, external
<1>3. req'[r].pc \in {"idle", "admin.tx", "admin.locked"}
  <2>1. CASE AdminStart(r)
    <3>1. PICK to \in Transitions(order) : req' = [req EXCEPT ![r] = [Idle EXCEPT
             !.pc = "admin.tx", !.op = "admin", !.saw = order, !.to = to]]
      BY <2>1 DEF AdminStart
    <3>2. req'[r].pc = "admin.tx"
      BY <3>1 DEF TypeInv, TypeOK
    <3> QED BY <3>2
  <2> QED BY <2>1 DEF AdminLockPayment, AdminMove, AdminLockOrder
<1>4. Money' = Money
  BY <1>2 DEF Money
<1>5. HasMoney(r)'
  BY <1>3 DEF HasMoney, WithMoney, Refunding
<1>6. Genuine(r)
  BY <1>1, <1>2, <1>3, <1>5 DEF Genuine, Got
<1> QED BY <1>1, <1>2, <1>3, <1>4, <1>6 DEF Mute, DecidingPC

-----------------------------------------------------------------------------
(* Steps that are one step of the abstract order                             *)

LedgerStep == Ledger!Next \/ UNCHANGED Ledger!ledger

\* Both specifications have the same table of statuses.
LEMMA SameTable ==
  /\ Ledger!PaidStatuses = PaidStatuses /\ Ledger!OrderStatus = OrderStatus
  /\ \A s : Ledger!Transitions(s) = Transitions(s)
  BY DEF Ledger!PaidStatuses, Ledger!OrderStatus, Ledger!Transitions, PaidStatuses,
     OrderStatus, Transitions

LEMMA CaptureStep ==
  ASSUME TypeInv, ConfirmInv, OrderLockInv, MoneyInv, RealInv, NEW r \in Req, CaptureConfirm(r)
  PROVE  Genuine(r) /\ LedgerStep
<1> DEFINE o == req[r].o
<1>1. /\ o \in RzpOrder /\ Got(o) /\ Confirming(r) /\ req'[r] = Idle
      /\ order' = "CONFIRMED" /\ payment'.pid = o
      /\ confirmed' = [confirmed EXCEPT ![o] = @ + 1] /\ UNCHANGED <<rzp, coupon>>
  BY LocalsType, DoneFrame
  DEF CaptureConfirm, RecordCapture, At, Confirming, OrderPC, RealInv, HasMoney, WithMoney,
      external
<1>2. Early /\ NothingConfirmed /\ payLock = r /\ order # "REFUNDED"
  BY <1>1 DEF Early, Confirming, ConfirmInv, RealInv, RevivesOpen
<1>3. Genuine(r)
  <2>1. Locking(r)
    BY OrderShape DEF Capture
  <2>2. HasMoney(r)'
    BY <1>1 DEF HasMoney, WithMoney, Refunding, Idle
  <2> QED BY <1>1, <2>1, <2>2 DEF Genuine, Got, Idle
<1>4. Deciders = {} /\ Deciders' = {}
  <2>1. Deciders = {}
    BY <1>1, <1>2, ReqAssumption DEF Deciders, MoneyInv, Own, AdminKnows, Confirming
  <2>2. Deciders' = Deciders
    BY <1>1, <1>3, SameDeciders DEF Genuine, Locking, Confirming, DecidingPC, Idle
  <2> QED BY <2>1, <2>2
<1>5. Payers = {} /\ Payers' = {o}
  <2>1. \A p \in RzpOrder : confirmed[p] = 0 /\ confirmed'[p] = IF p = o THEN 1 ELSE 0
    BY <1>1, <1>2 DEF NothingConfirmed, TypeInv, TypeOK
  <2> QED BY <1>1, <2>1 DEF Payers
<1>6. Money[o] = "held" /\ Money' = Money
  <2>1. rzp[o] # "refunded"
    BY <1>1, <1>2 DEF RealInv
  <2> QED BY <1>1, <2>1, MoneyOf DEF Got, Money
<1>7. Ledger!Confirm(o)
  BY <1>1, <1>2, <1>4, <1>5, <1>6 DEF Ledger!Confirm
<1> QED BY <1>1, <1>3, <1>7 DEF LedgerStep, Ledger!Next

LEMMA ReturnStep ==
  ASSUME TypeInv, MoneyInv, RealInv, NEW r \in Req, RefundCall(r)
  PROVE  Genuine(r) /\ LedgerStep
<1> USE DoneFrame, GotoFrame
<1> DEFINE o == req[r].o
<1>1. /\ o \in RzpOrder /\ rzp[o] = "captured" /\ req[r].pc = "refund.call"
      /\ rzp' = [rzp EXCEPT ![o] = "refunded"]
      /\ UNCHANGED <<order, payment, coupon, confirmed>>
      /\ req'[r].pc \in {"idle", "refund.mark"}
      /\ req'[r].pc = "refund.mark" => req'[r].o = o
      /\ rzp \in [RzpOrder -> RzpStatus]
  BY LocalsType DEF RefundCall, At, OrderPC, db, Idle, TypeInv, TypeOK
<1>2. ~Early /\ order # "PENDING_PAYMENT"
  BY <1>1 DEF MoneyInv, Rows, Fresh, Untouched, Returning, Refunding, Early
<1>3. Genuine(r)
  <2>1. Locking(r)
    BY LeavesOrder DEF OrderAlone, Refund
  <2>2. HasMoney(r)'
    BY <1>1 DEF HasMoney, WithMoney, Refunding, Got
  <2> QED BY <1>1, <1>2, <2>1, <2>2 DEF Genuine, Got
<1>4. Deciders' = Deciders /\ Payers' = Payers
  BY <1>1, <1>3, SameDeciders DEF Genuine, Locking, DecidingPC, Payers
<1>5. o \in Payers => order \notin PaidStatuses
  BY <1>1 DEF Payers, MoneyInv, Own, ReturnsOther, Returning, Refunding
<1>6. Money[o] = "held" /\ Money' = [Money EXCEPT ![o] = "returned"]
  BY <1>1 DEF Money
<1>7. Ledger!Return(o)
  BY <1>1, <1>2, <1>4, <1>5, <1>6, SameTable DEF Ledger!Return
<1> QED BY <1>1, <1>3, <1>7 DEF LedgerStep, Ledger!Next

LEMMA ExpireStep ==
  ASSUME TypeInv, ConfirmInv, OrderLockInv, CouponInv, NEW r \in Req, ExpireCommit(r)
  PROVE  Genuine(r) /\ LedgerStep
<1>1. CASE order' = order
  BY <1>1, CronMute, MuteStutters DEF Mute, LedgerStep
<1>2. CASE order' # order
  <2>1. /\ order = "PENDING_PAYMENT" /\ ordLock = r /\ req[r].pc = "expire.commit"
        /\ order' = "CANCELLED" /\ coupon' = coupon - 1 /\ req'[r] = Idle
        /\ UNCHANGED <<confirmed, rzp>>
    BY <1>2, DoneFrame DEF ExpireCommit, At, OrderLockInv, HoldsOrder, ReleaseCoupon, external
  <2>0. payment'.status = "CAPTURED" => payment' = payment
    BY DEF ExpireCommit, TypeInv, TypeOK
  <2>2. Genuine(r)
    <3>1. Locking(r)
      BY CronOrder DEF Cron
    <3>2. HasMoney(r)'
      BY <2>1 DEF HasMoney, WithMoney, Refunding, Idle
    <3> QED BY <2>0, <2>1, <3>1, <3>2 DEF Genuine, Got, Idle
  <2>3. Deciders = {} /\ Deciders' = {}
    <3>1. Deciders = {}
      <4>1. r \notin Deciders
        BY <2>1 DEF Deciders
      <4> QED BY <2>1, <4>1, DecidesAlone DEF Deciders
    <3>2. Deciders' = Deciders
      BY <2>1, <2>2, SameDeciders DEF Genuine, Locking, DecidingPC, Idle
    <3> QED BY <3>1, <3>2
  <2>4. Payers' = Payers /\ Money' = Money
    BY <2>1 DEF Payers, Money
  <2>5. "CANCELLED" \in Transitions(order) \ {"REFUNDED"} /\ "CANCELLED" \in OrderStatus
    BY <2>1 DEF Transitions, OrderStatus
  <2>6. Ledger!Move("CANCELLED")
    BY <2>1, <2>3, <2>4, <2>5, SameTable DEF Ledger!Move
  <2> QED BY <2>2, <2>5, <2>6, SameTable DEF LedgerStep, Ledger!Next
<1> QED BY <1>1, <1>2
LEMMA MoveStep ==
  ASSUME TypeInv, ConfirmInv, OrderLockInv, MoneyInv, NEW r \in Req, AdminMove(r)
  PROVE  Genuine(r) /\ LedgerStep
<1>1. CASE order' = order /\ coupon' = coupon
  BY <1>1, AdminMute, MuteStutters DEF Mute, LedgerStep
<1>2. CASE ~(order' = order /\ coupon' = coupon)
  <2> DEFINE to == req[r].to
  <2>1. /\ req[r].pc = "admin.tx" /\ order = req[r].saw /\ order' = to /\ to # "REFUNDED"
        /\ ordLock \in {Nobody, r} /\ req'[r] = Idle
        /\ coupon' = IF order = "PENDING_PAYMENT" /\ to = "CANCELLED" THEN coupon - 1
                     ELSE coupon
        /\ UNCHANGED <<confirmed, rzp, payment>>
    BY <1>2, DoneFrame DEF AdminMove, SameStatus, At, Writable, ReleaseCoupon, external
  <2>2. Genuine(r)
    <3>1. Locking(r)
      BY AdminOrder DEF Admin
    <3>2. HasMoney(r)'
      BY <2>1 DEF HasMoney, WithMoney, Refunding, Idle
    <3> QED BY <2>1, <3>1, <3>2 DEF Genuine, Got, Idle
  <2>3. Deciders = {} /\ Deciders' = {}
    <3>1. Deciders = {}
      <4>1. r \notin Deciders
        BY <2>1 DEF Deciders
      <4> QED BY <2>1, <4>1, DecidesAlone DEF Deciders
    <3>2. Deciders' = Deciders
      BY <2>1, <2>2, SameDeciders DEF Genuine, Locking, DecidingPC, Idle
    <3> QED BY <3>1, <3>2
  <2>4. Payers' = Payers /\ Money' = Money
    BY <2>1 DEF Payers, Money
  <2>5. to \in Transitions(order) \ {"REFUNDED"} /\ to \in OrderStatus
    BY <2>1, LocalsType DEF MoneyInv, Own, AdminKnows
  <2>6. Ledger!Move(to)
    BY <2>1, <2>3, <2>4, <2>5, SameTable DEF Ledger!Move
  <2> QED BY <2>2, <2>5, <2>6, SameTable DEF LedgerStep, Ledger!Next
<1> QED BY <1>1, <1>2

LEMMA DecideStep ==
  ASSUME TypeInv, ConfirmInv, OrderLockInv, MoneyInv, RealInv, NEW r \in Req, AdminLockOrder(r)
  PROVE  Genuine(r) /\ LedgerStep
<1>1. CASE ~(SameStatus(r) /\ Refundable)
  BY <1>1, AdminMute, MuteStutters DEF Mute, LedgerStep
<1>2. CASE SameStatus(r) /\ Refundable
  <2>1. /\ req[r].pc = "admin.locked" /\ order = req[r].saw /\ ordLock \in {Nobody, r}
        /\ payment.pid \in RzpOrder /\ Got(payment.pid)
        /\ req'[r].pc = "admin.refund" /\ req'[r].o = payment.pid
        /\ UNCHANGED <<order, coupon, confirmed, payment, rzp>>
    BY <1>2, TakeFrame
    DEF AdminLockOrder, SameStatus, Refundable, At, Writable, db, external, RealInv, TypeInv
  <2>2. Genuine(r)
    <3>1. Locking(r)
      BY AdminOrder DEF Admin
    <3>2. HasMoney(r)'
      BY <2>1 DEF HasMoney, Got
    <3> QED BY <2>1, <3>1, <3>2 DEF Genuine, Got
  <2>3. Deciders = {}
    <3>1. r \notin Deciders
      BY <2>1 DEF Deciders
    <3> QED BY <2>1, <3>1, DecidesAlone DEF Deciders
  <2>4. r \in Deciders'
    BY <2>1 DEF Deciders
  <2>5. Payers' = Payers /\ Money' = Money
    BY <2>1 DEF Payers, Money
  <2>6. "REFUNDED" \in Transitions(order)
    BY <2>1 DEF MoneyInv, Own, AdminKnows
  <2>7. Ledger!Decide
    BY <2>1, <2>3, <2>4, <2>5, <2>6, SameTable DEF Ledger!Decide
  <2> QED BY <2>2, <2>7 DEF LedgerStep, Ledger!Next
<1> QED BY <1>1, <1>2

\* Whoever leaves a decision leaves it to nobody.
LEMMA DecisionEnds ==
  ASSUME TypeInv, OrderLockInv, NEW r \in Req, Others(r), req[r].pc \in DecidingPC,
         req'[r].pc \notin DecidingPC
  PROVE  Deciders # {} /\ Deciders' = {}
<1>1. r \in Deciders /\ ordLock = r
  BY DEF Deciders, DecidingPC, OrderLockInv, HoldsOrder
<1>2. \A s \in Req : req'[s].pc \notin DecidingPC
  <2> SUFFICES ASSUME NEW s \in Req, s # r
               PROVE  req'[s].pc \notin DecidingPC
    OBVIOUS
  <2>1. s \notin Deciders
    BY <1>1, DecidesAlone
  <2> QED BY <2>1 DEF Deciders, DecidingPC, Others
<1> QED BY <1>1, <1>2 DEF Deciders, DecidingPC

\* The answer comes, is lost, or the refund is refused.
LEMMA AdminRefundStep ==
  ASSUME TypeInv, ConfirmInv, OrderLockInv, MoneyInv, RealInv, NEW r \in Req,
         AdminRefund(r) \/ AdminRefundFails(r)
  PROVE  Genuine(r) /\ LedgerStep
<1> USE DoneFrame, GotoFrame
<1> DEFINE o == req[r].o
<1>1. /\ o \in RzpOrder /\ Got(o) /\ req[r].pc = "admin.refund"
      /\ rzp' = rzp \/ rzp' = [rzp EXCEPT ![o] = "refunded"]
      /\ UNCHANGED <<order, payment, coupon, confirmed>>
      /\ req'[r].pc \in {"idle", "admin.commit"}
      /\ rzp \in [RzpOrder -> RzpStatus]
  BY LocalsType
  DEF AdminRefund, AdminRefundFails, At, OrderPC, db, Idle, TypeInv, TypeOK, RealInv, HasMoney,
      WithMoney
<1>2. ~Early /\ order # "PENDING_PAYMENT"
  BY <1>1 DEF MoneyInv, Rows, Fresh, Untouched, Early
<1>3. Genuine(r)
  <2>1. Locking(r)
    BY AdminOrder DEF Admin
  <2>2. HasMoney(r)'
    BY <1>1 DEF HasMoney, WithMoney, Refunding
  <2> QED BY <1>1, <1>2, <2>1, <2>2 DEF Genuine, Got
<1>4. /\ Deciders # {} /\ Payers' = Payers
      /\ Deciders' = Deciders \/ Deciders' = {}
  <2>1. r \in Deciders /\ Payers' = Payers
    BY <1>1 DEF Deciders, Payers
  <2>2. CASE req'[r].pc = "admin.commit"
    BY <1>1, <1>3, <2>1, <2>2, SameDeciders DEF Genuine, Locking, DecidingPC
  <2>3. CASE req'[r].pc = "idle"
    BY <1>1, <1>3, <2>1, <2>3, DecisionEnds DEF Genuine, Locking, DecidingPC
  <2> QED BY <1>1, <2>1, <2>2, <2>3
<1>5. CASE Money' = Money
  <2>1. CASE Deciders' = Deciders
    BY <1>1, <1>3, <1>4, <1>5, <2>1 DEF LedgerStep, Ledger!ledger
  <2>2. CASE Deciders' = {}
    <3>1. Ledger!GiveUp
      BY <1>1, <1>4, <1>5, <2>2 DEF Ledger!GiveUp
    <3> QED BY <1>3, <3>1 DEF LedgerStep, Ledger!Next
  <2> QED BY <1>3, <1>4, <2>1, <2>2
<1>6. CASE Money' # Money
  <2>1. rzp[o] = "captured" /\ rzp' = [rzp EXCEPT ![o] = "refunded"]
    <3>1. rzp' # rzp
      BY <1>6 DEF Money
    <3> QED BY <1>1, <3>1 DEF Got
  <2>2. Money[o] = "held" /\ Money' = [Money EXCEPT ![o] = "returned"]
    BY <1>1, <2>1 DEF Money
  <2>3. Ledger!Return(o)
    BY <1>1, <1>2, <1>4, <2>2, SameTable DEF Ledger!Return
  <2> QED BY <1>1, <1>3, <2>3 DEF LedgerStep, Ledger!Next
<1> QED BY <1>3, <1>5, <1>6

LEMMA BookRefundStep ==
  ASSUME TypeInv, ConfirmInv, OrderLockInv, MoneyInv, NEW r \in Req, AdminCommit(r)
  PROVE  Genuine(r) /\ LedgerStep
<1>1. /\ req[r].pc = "admin.commit" /\ payLock = r /\ order' = "REFUNDED"
      /\ payment'.status = "REFUNDED" /\ req'[r] = Idle
      /\ UNCHANGED <<coupon, confirmed, rzp>>
      /\ \A o \in RzpOrder : confirmed[o] > 0 => rzp[o] = "refunded"
  BY DoneFrame
  DEF AdminCommit, At, external, MoneyInv, Own, AdminKnows, TypeInv, TypeOK
<1>2. Genuine(r)
  <2>1. Locking(r)
    BY AdminOrder DEF Admin
  <2>2. HasMoney(r)'
    BY <1>1 DEF HasMoney, WithMoney, Refunding, Idle
  <2> QED BY <1>1, <2>1, <2>2 DEF Genuine, Got, Idle
<1>3. Deciders # {} /\ Deciders' = {}
  BY <1>1, <1>2, DecisionEnds DEF Genuine, Locking, DecidingPC, Idle
<1>4. Payers' = Payers /\ Money' = Money /\ \A o \in Payers : Money[o] = "returned"
  BY <1>1, MoneyOf DEF Payers, Money
<1>5. Ledger!Refund
  BY <1>1, <1>3, <1>4 DEF Ledger!Refund
<1> QED BY <1>2, <1>5 DEF LedgerStep, Ledger!Next

LEMMA CrashStep ==
  ASSUME TypeInv, OrderLockInv, NEW r \in Req, Own(r), Crash(r) \/ DeadlockVictim(r)
  PROVE  Genuine(r) /\ LedgerStep
<1>1. CASE req[r].pc \notin DecidingPC
  BY <1>1, OtherMute, MuteStutters DEF Mute, LedgerStep
<1>2. CASE req[r].pc \in DecidingPC
  <2>1. /\ req'[r] = Idle /\ UNCHANGED <<order, payment, coupon, confirmed, rzp>>
    BY DoneFrame DEF Crash, Abandon, DeadlockVictim, db, external
  <2>2. Genuine(r)
    <3>1. Locking(r)
      BY LeavesOrder DEF OrderAlone
    <3>2. HasMoney(r)'
      BY <2>1 DEF HasMoney, WithMoney, Refunding, Idle
    <3> QED BY <2>1, <3>1, <3>2 DEF Genuine, Got, Idle
  <2>3. Deciders # {} /\ Deciders' = {}
    BY <1>2, <2>1, <2>2, DecisionEnds DEF Genuine, Locking, DecidingPC, Idle
  <2>4. Payers' = Payers /\ Money' = Money
    BY <2>1 DEF Payers, Money
  <2>5. Ledger!GiveUp
    BY <2>1, <2>3, <2>4 DEF Ledger!GiveUp
  <2> QED BY <2>2, <2>5 DEF LedgerStep, Ledger!Next
<1> QED BY <1>1, <1>2
-----------------------------------------------------------------------------
(* What happens outside the handlers, the initial state and the theorem       *)

\* Of what Razorpay and the clock do the abstract order sees the payments.
LEMMA PayStep ==
  ASSUME TypeInv, RealInv, NEW o \in RzpOrder, RzpCapture(o)
  PROVE  RealInv' /\ LedgerStep
<1>1. /\ rzp \in [RzpOrder -> RzpStatus] /\ rzp[o] \in {"created", "authorized"}
      /\ rzp' = [rzp EXCEPT ![o] = "captured"]
      /\ UNCHANGED <<order, payment, coupon, confirmed, req>>
  BY DEF RzpCapture, Payable, db, TypeInv, TypeOK
<1>2. RealInv'
  <2>1. \A p \in RzpOrder : /\ Got(p) => rzp'[p] \in {"captured", "refunded"}
                            /\ rzp'[p] = "refunded" => rzp[p] = "refunded"
    BY <1>1 DEF Got
  <2>2. ASSUME NEW r \in Req
        PROVE  HasMoney(r)' /\ RevivesOpen(r)'
    <3>1. req[r].pc \in WithMoney => req[r].o \in RzpOrder
      BY LocalsType DEF WithMoney, Refunding, OrderPC
    <3>2. HasMoney(r) /\ RevivesOpen(r)
      BY DEF RealInv
    <3> QED BY <1>1, <2>1, <3>1, <3>2 DEF HasMoney, Got, RevivesOpen, Confirming
  <2>3. (payment.status = "CAPTURED" => Got(payment.pid))'
    BY <1>1, <2>1 DEF RealInv, TypeInv, Got
  <2>4. (Early => \A p \in RzpOrder : rzp[p] # "refunded")'
    BY <1>1, <2>1 DEF RealInv, Early, Confirming
  <2> QED BY <2>2, <2>3, <2>4 DEF RealInv
<1>3. Money[o] = "none" /\ Money' = [Money EXCEPT ![o] = "held"]
  BY <1>1 DEF Money
<1>4. UNCHANGED <<Payers, Deciders>>
  BY <1>1 DEF Payers, Deciders
<1>5. Ledger!Pay(o)
  BY <1>1, <1>3, <1>4 DEF Ledger!Pay
<1> QED BY <1>2, <1>5 DEF LedgerStep, Ledger!Next

LEMMA OutsideMute ==
  ASSUME TypeInv, RealInv,
         \/ \E o \in RzpOrder : RzpAuthorize(o) \/ RzpFail(o)
         \/ CloseWindow \/ RecoverStaleCreation \/ AtRest \/ UNCHANGED vars
  PROVE  RealInv' /\ UNCHANGED Ledger!ledger
<1>1. /\ UNCHANGED <<order, coupon, confirmed, req>>
      /\ payment' = payment \/ payment'.status # "CAPTURED"
      /\ \A o \in RzpOrder :
           rzp'[o] = rzp[o] \/ {rzp[o], rzp'[o]} \subseteq {"created", "authorized"}
  BY DEF RzpAuthorize, RzpFail, CloseWindow, RecoverStaleCreation, Payable, EndCreating,
     AtRest, db, locks, external, vars, TypeInv, TypeOK
<1>2. \A o \in RzpOrder : /\ Got(o) => rzp'[o] \in {"captured", "refunded"}
                          /\ rzp'[o] = "refunded" => rzp[o] = "refunded"
  BY <1>1 DEF Got
<1>3. ASSUME NEW r \in Req
      PROVE  HasMoney(r)' /\ RevivesOpen(r)'
  <2>1. req[r].pc \in WithMoney => req[r].o \in RzpOrder
    BY LocalsType DEF WithMoney, Refunding, OrderPC
  <2>2. HasMoney(r) /\ RevivesOpen(r)
    BY DEF RealInv
  <2> QED BY <1>1, <1>2, <2>1, <2>2 DEF HasMoney, Got, RevivesOpen, Confirming
<1>4. (payment.status = "CAPTURED" => Got(payment.pid))'
  BY <1>1, <1>2 DEF RealInv, TypeInv, Got
<1>5. (Early => \A o \in RzpOrder : rzp[o] # "refunded")'
  BY <1>1, <1>2 DEF RealInv, Early, Confirming
<1>6. Money' = Money
  BY <1>1, SameMoney DEF Money
<1>7. UNCHANGED <<Payers, Deciders>>
  BY <1>1 DEF Payers, Deciders
<1> QED BY <1>1, <1>3, <1>4, <1>5, <1>6, <1>7 DEF RealInv, Ledger!ledger

LEMMA HandlerLedger ==
  ASSUME TypeInv, ConfirmInv, OrderLockInv, MoneyInv, CouponInv, RealInv, NEW r \in Req,
         \/ Create(r) \/ Capture(r) \/ Refund(r) \/ Notify(r) \/ Cron(r) \/ Admin(r)
         \/ Crash(r) \/ DeadlockVictim(r)
  PROVE  Genuine(r) /\ LedgerStep
<1>0. Own(r) /\ (Mute(r) => Genuine(r) /\ LedgerStep)
  BY MuteStutters DEF MoneyInv, Mute, LedgerStep
<1>1. CASE Create(r)
  BY <1>0, <1>1, CreateMute
<1>2. CASE Notify(r)
  BY <1>0, <1>2, NotifyMute
<1>3. CASE Capture(r)
  <2>1. CASE CaptureNothing(r)
    <3>1. req[r].pc \notin DecidingPC
      BY <2>1 DEF CaptureNothing, At, DecidingPC
    <3> QED BY <1>0, <2>1, <3>1, OtherMute
  <2> QED BY <1>0, <1>3, <2>1, CaptureMute, CaptureStep DEF Capture
<1>4. CASE Refund(r)
  <2>1. CASE RefundCallFails(r)
    <3>1. req[r].pc \notin DecidingPC
      BY <2>1 DEF RefundCallFails, At, DecidingPC
    <3> QED BY <1>0, <2>1, <3>1, OtherMute
  <2> QED BY <1>0, <1>4, <2>1, RefundMute, ReturnStep DEF Refund
<1>5. CASE Cron(r)
  <2>1. CASE ExpireStart(r) \/ ExpireFetch(r)
    <3>1. req[r].pc \notin DecidingPC
      BY <2>1 DEF ExpireStart, ExpireFetch, Invoke, At, DecidingPC
    <3> QED BY <1>0, <2>1, <3>1, OtherMute
  <2> QED BY <1>0, <1>5, <2>1, CronMute, ExpireStep DEF Cron
<1>6. CASE Admin(r)
  BY <1>0, <1>6, AdminMute, MoveStep, DecideStep, AdminRefundStep, BookRefundStep DEF Admin
<1>7. CASE Crash(r) \/ DeadlockVictim(r)
  BY <1>0, <1>7, CrashStep
<1> QED BY <1>1, <1>2, <1>3, <1>4, <1>5, <1>6, <1>7

LEMMA LedgerNext ==
  ASSUME WithoutRetry, WithoutCancel
  PROVE  /\ TypeInv /\ ConfirmInv /\ OrderLockInv /\ MoneyInv /\ CouponInv /\ RealInv
         /\ [Next]_vars
         => RealInv' /\ [Ledger!Next]_(Ledger!ledger)
<1> SUFFICES ASSUME TypeInv, ConfirmInv, OrderLockInv, MoneyInv, CouponInv, RealInv,
                    [Next]_vars
             PROVE  RealInv' /\ LedgerStep
  BY DEF LedgerStep
<1>1. \A r \in Req : Own(r) /\ ~Cancel(r)
  BY NobodyCancels DEF MoneyInv, CouponInv
<1>2. CASE \E o \in RzpOrder : RzpCapture(o)
  BY <1>2, PayStep
<1>3. CASE \/ \E o \in RzpOrder : RzpAuthorize(o) \/ RzpFail(o)
           \/ CloseWindow \/ RecoverStaleCreation \/ AtRest \/ UNCHANGED vars
  BY <1>3, OutsideMute DEF LedgerStep
<1>4. CASE \E r \in Req : \/ Create(r) \/ Capture(r) \/ Refund(r) \/ Notify(r) \/ Cron(r)
                          \/ Admin(r) \/ Crash(r) \/ DeadlockVictim(r)
  BY <1>4, HandlerLedger, GenuineReal
<1>5. CASE \E r \in Req : Cancel(r) \/ Retry(r)
  BY <1>1, <1>5, NobodyRetries
<1> QED BY <1>2, <1>3, <1>4, <1>5 DEF Next

LEMMA LedgerInit == Init => RealInv /\ Ledger!Init
<1> SUFFICES ASSUME Init
             PROVE  RealInv /\ Ledger!Init
  OBVIOUS
<1>1. RealInv
  BY DEF Init, Idle, RealInv, HasMoney, WithMoney, Refunding, RevivesOpen, Confirming
<1>2. Money = [o \in RzpOrder |-> "none"]
  BY DEF Init, Money
<1>3. Payers = {} /\ Deciders = {}
  BY DEF Init, Payers, Deciders, Idle
<1> QED BY <1>1, <1>2, <1>3 DEF Init, Ledger!Init

\* Unless the customer cancels or retries, every interleaving of order creation,
\* captures, webhooks, refunds, the crons, administrators, crashes and lost
\* answers moves the order, its coupon and its money as Settlement allows, where
\* a capture, a decision and a cancellation each happen at one moment.
THEOREM OrderImplementsSettlement ==
  ASSUME WithoutRetry, WithoutCancel
  PROVE  Spec => SettledAtOnce
<1>1. /\ TypeInv /\ ConfirmInv /\ OrderLockInv /\ MoneyInv /\ CouponInv /\ RealInv
      /\ [Next]_vars
      => RealInv' /\ [Ledger!Next]_(Ledger!ledger)
  BY LedgerNext
<1>2. Spec => Ledger!Spec
  BY <1>1, LedgerInit, MoneyHolds, CouponHolds, PTL DEF Spec, Ledger!Spec
<1> QED BY <1>2 DEF SettledAtOnce
=============================================================================
