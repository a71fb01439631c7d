---------------------------- MODULE OrderPayment ----------------------------
(***************************************************************************)
(* One order, its Payment row, the PaymentAttempt rows behind it and the   *)
(* Razorpay orders and payments those attempts name, together with every   *)
(* handler of PaymentsService and OrdersService that may touch them while  *)
(* others are in flight: order creation at Razorpay, cancel, retry,        *)
(* verify, the webhooks, the minute cron and the administrator's           *)
(* updateStatus.                                                           *)
(*                                                                         *)
(* A handler is a sequence of steps.  A step is one database transaction,  *)
(* one statement outside a transaction, or one call to Razorpay.  A        *)
(* transaction that reads rows without locking them is two steps, its      *)
(* reads and its writes, since PostgreSQL's READ COMMITTED lets another    *)
(* transaction commit between them; a transaction that holds a row lock    *)
(* across steps says so in payLock or ordLock, and every writer of a row   *)
(* waits for the lock, as UPDATE does.                                     *)
(*                                                                         *)
(* An operator whose name starts with Bug is the operator that follows it  *)
(* with a plausible mistake; no specification uses it.                     *)
(***************************************************************************)
EXTENDS Integers, Orders

CONSTANTS
  Req,          \* handlers and cron ticks that can be in flight together
  Nobody,       \* the owner of a free row lock
  RzpOrder,     \* Razorpay order ids that can be created for this order
  NoId,         \* NULL
  FailedPayId,  \* id of a payment that failed at Razorpay
  Ops,          \* the operations invoked in an instance, and "crash" and
                \* "lost" where processes die or Razorpay's answers get lost
  AdminTargets, \* the statuses an administrator asks for
  OtherUses     \* uses of the order's coupon that belong to other orders

PaymentStatus == {"PENDING", "CREATING", "CAPTURED", "FAILED",
                  "REFUND_PENDING", "REFUNDED"}
AttemptStatus == PaymentStatus \cup {"NONE"}
RzpStatus == {"none", "created", "authorized", "captured", "refunded"}
OpName == {"create", "cancel", "retry", "verify", "hook", "fail", "expire",
           "stale", "recover", "admin", "crash", "lost"}
PayId == RzpOrder \cup {NoId, FailedPayId}

ASSUME ReqAssumption == Nobody \notin Req
ASSUME IdAssumption ==
  NoId \notin RzpOrder /\ FailedPayId \notin RzpOrder /\ NoId # FailedPayId
ASSUME OpsAssumption == Ops \subseteq OpName /\ AdminTargets \subseteq OrderStatus
ASSUME UsesAssumption == OtherUses \in Nat

VARIABLES
  order,       \* Order.status
  payment,     \* the Payment row: status, providerOrderId, providerPaymentId
  attempt,     \* PaymentAttempt.status per Razorpay order, "NONE" without a row
  coupon,      \* Promotion.usageCount of the coupon the order reserved
  confirmed,   \* how often a capture of each Razorpay order has run the
               \* confirmation block: metrics, cart lines, custom request
  payLock,     \* the transaction that holds SELECT ... FOR UPDATE on Payment
  ordLock,     \* the same for Order
  rzp,         \* Razorpay: the order's best payment, at most one captured
  failedEvent, \* Razorpay has a payment.failed event for this order to deliver
  windowOpen,  \* isPaymentWindowOpen(order.createdAt)
  req          \* program counter and locals of every handler

\* The abstract specification of the order's money, and what it sees of the
\* variables: a payment Razorpay only authorized is none, and a refund of the
\* order is decided while an administrator holds it for Razorpay's answer.
Money == [o \in RzpOrder |-> CASE rzp[o] = "captured" -> "held"
                              [] rzp[o] = "refunded" -> "returned"
                              [] OTHER -> "none"]
Payers == {o \in RzpOrder : confirmed[o] > 0}
Deciders == {r \in Req : req[r].pc \in {"admin.refund", "admin.commit"}}
Ledger == INSTANCE Settlement WITH
  status <- order, uses <- coupon, money <- Money, payers <- Payers,
  deciding <- Deciders # {}

db == <<order, payment, attempt, coupon, confirmed>>
locks == <<payLock, ordLock>>
external == <<rzp, failedEvent, windowOpen>>
vars == <<order, payment, attempt, coupon, confirmed, payLock, ordLock,
          rzp, failedEvent, windowOpen, req>>

PC == {"idle", "create.read", "create.claim", "create.call", "create.saveRead",
       "create.saveWrite", "create.release", "cancel.fetch", "cancel.read",
       "cancel.write", "cancel.final", "retry.write", "verify.fetch",
       "capture", "capture.commit", "refund.claim", "refund.call",
       "refund.mark", "refund.pay", "fail.lock", "fail.commit", "expire.fetch",
       "expire.lock", "expire.commit", "recover.fetch", "recover.pay",
       "admin.tx", "admin.locked", "admin.refund", "admin.commit"}

\* pc and op; o, the Razorpay order in hand; saw, a status read earlier and
\* used later; to, the administrator's target; dup, result.duplicatePayment.
Local == [pc : PC, op : OpName \cup {"none"}, o : RzpOrder \cup {NoId},
          saw : OrderStatus \cup AttemptStatus,
          to : OrderStatus, dup : BOOLEAN]
Idle == [pc |-> "idle", op |-> "none", o |-> NoId, saw |-> "NONE",
         to |-> "PENDING_PAYMENT", dup |-> FALSE]

TypeOK ==
  /\ order \in OrderStatus
  /\ payment \in [status : PaymentStatus, oid : RzpOrder \cup {NoId}, pid : PayId]
  /\ attempt \in [RzpOrder -> AttemptStatus]
  /\ coupon \in Nat
  /\ confirmed \in [RzpOrder -> Nat]
  /\ payLock \in Req \cup {Nobody}
  /\ ordLock \in Req \cup {Nobody}
  /\ rzp \in [RzpOrder -> RzpStatus]
  /\ failedEvent \in [RzpOrder -> BOOLEAN]
  /\ windowOpen \in BOOLEAN
  /\ req \in [Req -> Local]

\* The state createFromCart commits: the coupon is reserved, nothing is paid.
Init ==
  /\ order = "PENDING_PAYMENT"
  /\ payment = [status |-> "PENDING", oid |-> NoId, pid |-> NoId]
  /\ attempt = [o \in RzpOrder |-> "NONE"]
  /\ coupon = OtherUses + 1
  /\ confirmed = [o \in RzpOrder |-> 0]
  /\ payLock = Nobody /\ ordLock = Nobody
  /\ rzp = [o \in RzpOrder |-> "none"]
  /\ failedEvent = [o \in RzpOrder |-> FALSE]
  /\ windowOpen = TRUE
  /\ req = [r \in Req |-> Idle]

-----------------------------------------------------------------------------
(* Control of a handler, and the row locks *)

At(r, l) == req[r].pc = l
Invoke(r, name) == name \in Ops /\ At(r, "idle")
Start(r, name, l, o) ==
  req' = [req EXCEPT ![r] = [Idle EXCEPT !.pc = l, !.op = name, !.o = o]]
Goto(r, l) == req' = [req EXCEPT ![r].pc = l]
Take(r, l, o) == req' = [req EXCEPT ![r] = [@ EXCEPT !.pc = l, !.o = o]]
Remember(r, l, s) == req' = [req EXCEPT ![r] = [@ EXCEPT !.pc = l, !.saw = s]]
Done(r) == req' = [req EXCEPT ![r] = Idle]
GotoOrDone(r, c, l) == IF c THEN Goto(r, l) ELSE Done(r)

BugIgnoresLock(lock, r) == TRUE
Writable(lock, r) == lock \in {Nobody, r}
Release(lock, r) == IF lock = r THEN Nobody ELSE lock
ReleaseAll(r) ==
  /\ payLock' = Release(payLock, r)
  /\ ordLock' = Release(ordLock, r)

Attempt(o, s) == attempt' = [attempt EXCEPT ![o] = s]

-----------------------------------------------------------------------------
(* Razorpay and the passage of time *)

\* The customer can pay a Razorpay order only after the shop returned its id.
Payable(o) == attempt[o] # "NONE" /\ rzp[o] \in {"created", "authorized"}

RzpAuthorize(o) ==
  /\ Payable(o) /\ rzp[o] = "created"
  /\ rzp' = [rzp EXCEPT ![o] = "authorized"]
  /\ UNCHANGED <<db, locks, failedEvent, windowOpen, req>>

RzpCapture(o) ==
  /\ Payable(o)
  /\ rzp' = [rzp EXCEPT ![o] = "captured"]
  /\ UNCHANGED <<db, locks, failedEvent, windowOpen, req>>

\* A payment of the order fails; its authorization is void, and the order can
\* be paid again with another payment.  Bound: one failed payment per order.
RzpFail(o) ==
  /\ "fail" \in Ops /\ Payable(o) /\ ~failedEvent[o]
  /\ rzp' = [rzp EXCEPT ![o] = "created"]
  /\ failedEvent' = [failedEvent EXCEPT ![o] = TRUE]
  /\ UNCHANGED <<db, locks, windowOpen, req>>

CloseWindow ==
  /\ windowOpen /\ windowOpen' = FALSE
  /\ UNCHANGED <<db, locks, rzp, failedEvent, req>>

-----------------------------------------------------------------------------
(* createRazorpayOrder *)

\* No live Razorpay order to hand out again and no creation under way.
NeedsRzpOrder ==
  /\ order = "PENDING_PAYMENT" /\ windowOpen
  /\ payment.status # "CREATING"
  /\ payment.oid = NoId \/ payment.status = "FAILED"

CreateStart(r) ==
  /\ Invoke(r, "create") /\ NeedsRzpOrder
  /\ Start(r, "create", "create.claim", NoId)
  /\ UNCHANGED <<db, locks, external>>

\* The call a retry ends with.
CreateRead(r) ==
  /\ At(r, "create.read")
  /\ GotoOrDone(r, NeedsRzpOrder, "create.claim")
  /\ UNCHANGED <<db, locks, external>>

\* The conditional updateMany that claims the row.
CreateClaim(r) ==
  /\ At(r, "create.claim") /\ Writable(payLock, r)
  /\ GotoOrDone(r, payment.status \in {"PENDING", "FAILED"}, "create.call")
  /\ payment' = IF payment.status \in {"PENDING", "FAILED"}
                THEN [status |-> "CREATING", oid |-> NoId, pid |-> NoId]
                ELSE payment
  /\ UNCHANGED <<order, attempt, coupon, confirmed, locks, external>>

CreateCall(r) ==
  /\ At(r, "create.call")
  /\ \E o \in RzpOrder :
       /\ rzp[o] = "none"
       /\ rzp' = [rzp EXCEPT ![o] = "created"]
       /\ Take(r, "create.saveRead", o)
  /\ UNCHANGED <<db, locks, failedEvent, windowOpen>>

EndCreating(s) ==
  payment' = IF payment.status = "CREATING"
             THEN [payment EXCEPT !.status = s] ELSE payment

\* Razorpay is unavailable (PENDING), or answers with another total (FAILED).
CreateCallFails(r) ==
  /\ At(r, "create.call") /\ Writable(payLock, r)
  /\ \E s \in {"PENDING", "FAILED"} : EndCreating(s)
  /\ Done(r)
  /\ UNCHANGED <<order, attempt, coupon, confirmed, locks, external>>

CreateSaveRead(r) ==
  /\ At(r, "create.saveRead")
  /\ Goto(r, IF order = "PENDING_PAYMENT" /\ payment.status = "CREATING"
             THEN "create.saveWrite" ELSE "create.release")
  /\ UNCHANGED <<db, locks, external>>

\* The attempt row and the payment row in one commit, or neither.
CreateSaveWrite(r) ==
  /\ At(r, "create.saveWrite") /\ Writable(payLock, r)
  /\ IF payment.status = "CREATING"
     THEN /\ payment' = [status |-> "PENDING", oid |-> req[r].o, pid |-> NoId]
          /\ Attempt(req[r].o, "PENDING")
          /\ Done(r)
     ELSE /\ Goto(r, "create.release")
          /\ UNCHANGED <<payment, attempt>>
  /\ UNCHANGED <<order, coupon, confirmed, locks, external>>

CreateRelease(r) ==
  /\ At(r, "create.release") /\ Writable(payLock, r)
  /\ EndCreating("FAILED")
  /\ Done(r)
  /\ UNCHANGED <<order, attempt, coupon, confirmed, locks, external>>

\* recoverStaleOrderCreations: the claim is two minutes old, which says nothing
\* about where its owner is.
RecoverStaleCreation ==
  /\ "stale" \in Ops
  /\ payLock = Nobody /\ payment.status = "CREATING"
  /\ EndCreating("FAILED")
  /\ UNCHANGED <<order, attempt, coupon, confirmed, locks, external, req>>

-----------------------------------------------------------------------------
(* applyCapturedPayment, entered at "capture" by verify, webhook, cancel and *)
(* the expiry, and the refund each of them performs on REFUND_REQUIRED       *)

Captured(o) == payment.status = "CAPTURED" /\ payment.pid = o
CapturedOther(o) == payment.status = "CAPTURED" /\ payment.pid # o
BugForgetsCaptured(o) == attempt[o] # "NONE"
NewCapture(o) == payment.status # "CAPTURED" /\ attempt[o] # "NONE"

\* ALREADY_CAPTURED, or NONE for a capture no attempt of ours asked for.  Like
\* CaptureDuplicate it locks the row, reads and commits without writing.
CaptureNothing(r) ==
  /\ At(r, "capture") /\ Writable(payLock, r)
  /\ ~CapturedOther(req[r].o) /\ ~NewCapture(req[r].o)
  /\ Done(r)
  /\ UNCHANGED <<db, locks, external>>

\* REFUND_REQUIRED with duplicatePayment: another payment paid the order.
CaptureDuplicate(r) ==
  /\ At(r, "capture") /\ Writable(payLock, r)
  /\ CapturedOther(req[r].o)
  /\ req' = [req EXCEPT ![r] = [@ EXCEPT !.pc = "refund.claim", !.dup = TRUE]]
  /\ UNCHANGED <<db, locks, external>>

\* SELECT ... FOR UPDATE on Payment; the order is read without a lock.
CaptureBegin(r) ==
  /\ At(r, "capture") /\ Writable(payLock, r)
  /\ NewCapture(req[r].o)
  /\ payLock' = r
  /\ Remember(r, "capture.commit", order)
  /\ UNCHANGED <<db, ordLock, external>>

BugStoresProviderStatus(o) ==
  /\ payment' = [status |-> "captured", oid |-> o, pid |-> o]
  /\ Attempt(o, "CAPTURED")
RecordCapture(o) ==
  /\ payment' = [status |-> "CAPTURED", oid |-> o, pid |-> o]
  /\ Attempt(o, "CAPTURED")

\* REFUND_REQUIRED: the order stopped waiting for this payment.
CaptureLate(r) ==
  /\ At(r, "capture.commit") /\ req[r].saw # "PENDING_PAYMENT"
  /\ RecordCapture(req[r].o)
  /\ ReleaseAll(r)
  /\ Goto(r, "refund.claim")
  /\ UNCHANGED <<order, coupon, confirmed, external>>

\* The order row is written by its id: its status is not looked at again.
CaptureConfirm(r) ==
  /\ At(r, "capture.commit") /\ req[r].saw = "PENDING_PAYMENT"
  /\ Writable(ordLock, r)
  /\ RecordCapture(req[r].o)
  /\ order' = "CONFIRMED"
  /\ confirmed' = [confirmed EXCEPT ![req[r].o] = @ + 1]
  /\ ReleaseAll(r)
  /\ Done(r)
  /\ UNCHANGED <<coupon, external>>

BugForgetsLate == {"PENDING", "FAILED"}
Claimable == {"PENDING", "CAPTURED", "FAILED"}

RefundClaim(r) ==
  /\ At(r, "refund.claim")
  /\ GotoOrDone(r, attempt[req[r].o] \in Claimable, "refund.call")
  /\ attempt' = IF attempt[req[r].o] \in Claimable
                THEN [attempt EXCEPT ![req[r].o] = "REFUND_PENDING"] ELSE attempt
  /\ UNCHANGED <<order, payment, coupon, confirmed, locks, external>>

RefundCall(r) ==
  /\ At(r, "refund.call") /\ rzp[req[r].o] = "captured"
  /\ rzp' = [rzp EXCEPT ![req[r].o] = "refunded"]
  /\ \/ Goto(r, "refund.mark")
     \/ "lost" \in Ops /\ Done(r)       \* the answer is lost
  /\ UNCHANGED <<db, locks, failedEvent, windowOpen>>

\* Razorpay refuses to refund twice, or does not answer.
RefundCallFails(r) ==
  /\ At(r, "refund.call")
  /\ rzp[req[r].o] = "refunded" \/ "lost" \in Ops
  /\ Done(r)
  /\ UNCHANGED <<db, locks, external>>

RefundMark(r) ==
  /\ At(r, "refund.mark")
  /\ attempt' = IF attempt[req[r].o] = "REFUND_PENDING"
                THEN [attempt EXCEPT ![req[r].o] = "REFUNDED"] ELSE attempt
  /\ GotoOrDone(r, ~req[r].dup, "refund.pay")
  /\ UNCHANGED <<order, payment, coupon, confirmed, locks, external>>

RefundPay(r) ==
  /\ At(r, "refund.pay") /\ Writable(payLock, r)
  /\ payment' = [payment EXCEPT !.status = "REFUNDED"]
  /\ GotoOrDone(r, req[r].op = "cancel", "cancel.final")
  /\ UNCHANGED <<order, attempt, coupon, confirmed, locks, external>>

-----------------------------------------------------------------------------
(* verifyRazorpayPayment and the webhooks *)

\* A valid signature names a payment the customer made on this Razorpay order.
VerifyStart(r) ==
  /\ Invoke(r, "verify")
  /\ \E o \in RzpOrder :
       /\ payment.oid = o /\ attempt[o] # "NONE"
       /\ rzp[o] \in {"authorized", "captured", "refunded"}
       /\ Start(r, "verify", "verify.fetch", o)
  /\ UNCHANGED <<db, locks, external>>

VerifyFetch(r) ==
  /\ At(r, "verify.fetch")
  /\ GotoOrDone(r, rzp[req[r].o] = "captured", "capture")
  /\ UNCHANGED <<db, locks, external>>

\* payment.captured or order.paid: Razorpay delivers it late and repeatedly.
HookStart(r) ==
  /\ Invoke(r, "hook")
  /\ \E o \in RzpOrder :
       /\ rzp[o] \in {"captured", "refunded"}
       /\ attempt[o] \notin {"NONE", "REFUNDED"}
       /\ Start(r, "hook", "capture", o)
  /\ UNCHANGED <<db, locks, external>>

\* payment.failed: the first look at the row, before the transaction.
FailStart(r) ==
  /\ Invoke(r, "fail")
  /\ \E o \in RzpOrder :
       /\ failedEvent[o] /\ payment.oid = o /\ payment.status # "CAPTURED"
       /\ Start(r, "fail", "fail.lock", o)
  /\ UNCHANGED <<db, locks, external>>

FailLock(r) ==
  /\ At(r, "fail.lock") /\ Writable(payLock, r)
  /\ payLock' = r
  /\ Remember(r, "fail.commit", attempt[req[r].o])
  /\ UNCHANGED <<db, ordLock, external>>

BugFailsCaptured(o) == payment.oid = o
FailApplies(o) == payment.status # "CAPTURED" /\ payment.oid = o

FailCommit(r) ==
  /\ At(r, "fail.commit")
  /\ attempt' = IF req[r].saw = "PENDING"
                THEN [attempt EXCEPT ![req[r].o] = "FAILED"] ELSE attempt
  /\ payment' = IF FailApplies(req[r].o)
                THEN [payment EXCEPT !.status = "FAILED", !.pid = FailedPayId]
                ELSE payment
  /\ ReleaseAll(r)
  /\ Done(r)
  /\ UNCHANGED <<order, coupon, confirmed, external>>

-----------------------------------------------------------------------------
(* cancelRazorpayPayment *)

ReleaseCoupon == coupon' = IF coupon > 0 THEN coupon - 1 ELSE 0

CancelStart(r) ==
  /\ Invoke(r, "cancel") /\ order = "PENDING_PAYMENT"
  /\ IF payment.oid # NoId
     THEN Start(r, "cancel", "cancel.fetch", payment.oid)
     ELSE Start(r, "cancel", "cancel.read", NoId)
  /\ UNCHANGED <<db, locks, external>>

BugLeavesUnpaid(r, otherwise) ==
  IF rzp[req[r].o] = "captured" THEN Goto(r, "capture") ELSE Done(r)

\* fetchPayments: reconcile a capture, leave an authorization alone.
Fetched(r, otherwise) ==
  CASE rzp[req[r].o] = "captured"   -> Goto(r, "capture")
    [] rzp[req[r].o] = "authorized" -> Done(r)
    [] OTHER                        -> Goto(r, otherwise)

CancelFetch(r) ==
  /\ At(r, "cancel.fetch")
  /\ Fetched(r, "cancel.read")
  /\ UNCHANGED <<db, locks, external>>

\* The closing transaction takes no lock: these are its reads ...
CancelRead(r) ==
  /\ At(r, "cancel.read")
  /\ GotoOrDone(r, order = "PENDING_PAYMENT", "cancel.write")
  /\ UNCHANGED <<db, locks, external>>

\* ... and these its writes; without a coupon use to release it rolls back.
CancelWrite(r) ==
  /\ At(r, "cancel.write")
  /\ Writable(payLock, r) /\ Writable(ordLock, r)
  /\ IF coupon > 0
     THEN /\ ReleaseCoupon
          /\ order' = "CANCELLED"
          /\ payment' = [payment EXCEPT !.status = "FAILED"]
     ELSE UNCHANGED <<coupon, order, payment>>
  /\ Done(r)
  /\ UNCHANGED <<attempt, confirmed, locks, external>>

\* After a refund: one transaction under the Order lock.
CancelFinal(r) ==
  /\ At(r, "cancel.final") /\ Writable(ordLock, r)
  /\ IF order = "PENDING_PAYMENT"
     THEN order' = "CANCELLED" /\ ReleaseCoupon
     ELSE UNCHANGED <<order, coupon>>
  /\ Done(r)
  /\ UNCHANGED <<payment, attempt, confirmed, locks, external>>

-----------------------------------------------------------------------------
(* retryRazorpayPayment: the reads and the writes of its transaction *)

RetryStart(r) ==
  /\ Invoke(r, "retry")
  /\ order = "PENDING_PAYMENT" /\ windowOpen
  /\ \/ payment.status = "FAILED"
     \/ payment.status = "PENDING" /\ payment.oid = NoId
  /\ Start(r, "retry", "retry.write", NoId)
  /\ UNCHANGED <<db, locks, external>>

RetryWrite(r) ==
  /\ At(r, "retry.write") /\ Writable(payLock, r)
  /\ attempt' = [o \in RzpOrder |->
                   IF attempt[o] = "PENDING" THEN "FAILED" ELSE attempt[o]]
  /\ payment' = [status |-> "PENDING", oid |-> NoId, pid |-> NoId]
  /\ Goto(r, "create.read")
  /\ UNCHANGED <<order, coupon, confirmed, locks, external>>

-----------------------------------------------------------------------------
(* expireUnpaidOrders and recoverPendingRefunds, from the minute cron *)

ExpireStart(r) ==
  /\ Invoke(r, "expire")
  /\ ~windowOpen /\ order = "PENDING_PAYMENT"
  /\ IF payment.oid # NoId
     THEN Start(r, "expire", "expire.fetch", payment.oid)
     ELSE Start(r, "expire", "expire.lock", NoId)
  /\ UNCHANGED <<db, locks, external>>

ExpireFetch(r) ==
  /\ At(r, "expire.fetch")
  /\ Fetched(r, "expire.lock")
  /\ UNCHANGED <<db, locks, external>>

BugTrustsFirstRead == TRUE
StillPending == order = "PENDING_PAYMENT"

\* The transaction locks Order, and reads Payment's status without a lock.
ExpireLock(r) ==
  /\ At(r, "expire.lock") /\ Writable(ordLock, r)
  /\ IF StillPending
     THEN /\ ordLock' = r
          /\ Remember(r, "expire.commit", payment.status)
     ELSE /\ Done(r)
          /\ UNCHANGED ordLock
  /\ UNCHANGED <<db, payLock, external>>

FailsPayment(r) == req[r].saw \in {"PENDING", "FAILED"}

\* Rolled back when the coupon has no use left to release.
ExpireCommit(r) ==
  /\ At(r, "expire.commit")
  /\ FailsPayment(r) => Writable(payLock, r)
  /\ IF coupon > 0
     THEN /\ order' = "CANCELLED"
          /\ ReleaseCoupon
          /\ payment' = IF FailsPayment(r)
                        THEN [payment EXCEPT !.status = "FAILED"] ELSE payment
     ELSE UNCHANGED <<order, coupon, payment>>
  /\ ReleaseAll(r)
  /\ Done(r)
  /\ UNCHANGED <<attempt, confirmed, external>>

\* The attempt with its payment, whose providerPaymentId may since have changed.
RecoverStart(r) ==
  /\ Invoke(r, "recover")
  /\ \E o \in RzpOrder :
       /\ attempt[o] = "REFUND_PENDING"
       /\ req' = [req EXCEPT ![r] =
                    [Idle EXCEPT !.pc = "recover.fetch", !.op = "recover",
                                 !.o = o, !.dup = payment.pid # o]]
  /\ UNCHANGED <<db, locks, external>>

BugTrustsClaim(o) == attempt[o] = "REFUND_PENDING"
BugAwaitsCaptured(o) == rzp[o] = "refunded" /\ attempt[o] = "CAPTURED"
Settled(o) == rzp[o] = "refunded" /\ attempt[o] = "REFUND_PENDING"

\* Acts only on a refund Razorpay confirms.
RecoverFetch(r) ==
  LET o == req[r].o IN
  /\ At(r, "recover.fetch")
  /\ attempt' = IF Settled(o) THEN [attempt EXCEPT ![o] = "REFUNDED"] ELSE attempt
  /\ GotoOrDone(r, Settled(o) /\ ~req[r].dup, "recover.pay")
  /\ UNCHANGED <<order, payment, coupon, confirmed, locks, external>>

RecoverPay(r) ==
  /\ At(r, "recover.pay") /\ Writable(payLock, r)
  /\ payment' = IF /\ payment.pid = req[r].o
                   /\ payment.status \in {"CAPTURED", "REFUND_PENDING"}
                THEN [payment EXCEPT !.status = "REFUNDED"] ELSE payment
  /\ Done(r)
  /\ UNCHANGED <<order, attempt, coupon, confirmed, locks, external>>

-----------------------------------------------------------------------------
(* OrdersService.updateStatus, called by an administrator *)

Refundable == payment.status = "CAPTURED" /\ payment.pid # NoId

\* The checks on a read made before the transaction.
AdminStart(r) ==
  /\ Invoke(r, "admin")
  /\ \E to \in AdminTargets \cap Transitions(order) :
       /\ ~(/\ to = "CANCELLED" /\ order \in PaidStatuses
            /\ payment.status = "CAPTURED")
       /\ to = "REFUNDED" => Refundable
       /\ req' = [req EXCEPT ![r] =
                    [Idle EXCEPT !.pc = "admin.tx", !.op = "admin",
                                 !.saw = order, !.to = to]]
  /\ UNCHANGED <<db, locks, external>>

BugTrustsEarlierRead(r) == TRUE
SameStatus(r) == order = req[r].saw

\* Under the Order lock: the status must be the one that was read.
AdminMove(r) ==
  LET releases == req[r].saw = "PENDING_PAYMENT" /\ req[r].to = "CANCELLED" IN
  /\ At(r, "admin.tx") /\ req[r].to # "REFUNDED" /\ Writable(ordLock, r)
  /\ IF SameStatus(r) /\ (releases => coupon > 0)
     THEN /\ order' = req[r].to
          /\ IF releases THEN ReleaseCoupon ELSE UNCHANGED coupon
     ELSE UNCHANGED <<order, coupon>>
  /\ Done(r)
  /\ UNCHANGED <<payment, attempt, confirmed, locks, external>>

\* A refund locks Payment, then Order, and keeps both while Razorpay answers.
AdminLockPayment(r) ==
  /\ At(r, "admin.tx") /\ req[r].to = "REFUNDED" /\ Writable(payLock, r)
  /\ payLock' = r
  /\ Goto(r, "admin.locked")
  /\ UNCHANGED <<db, ordLock, external>>

AdminLockOrder(r) ==
  /\ At(r, "admin.locked") /\ Writable(ordLock, r)
  /\ IF SameStatus(r) /\ Refundable
     THEN /\ ordLock' = r
          /\ Take(r, "admin.refund", payment.pid)
          /\ UNCHANGED payLock
     ELSE /\ ReleaseAll(r)
          /\ Done(r)
  /\ UNCHANGED <<db, external>>

BugRefundsNothing(r) ==
  /\ At(r, "admin.refund")
  /\ Goto(r, "admin.commit")
  /\ UNCHANGED <<db, locks, external>>

\* fetchPayment, then a refund of what remains.
AdminRefund(r) ==
  /\ At(r, "admin.refund")
  /\ rzp' = [rzp EXCEPT ![req[r].o] = "refunded"]
  /\ Goto(r, "admin.commit")
  /\ UNCHANGED <<db, locks, failedEvent, windowOpen>>

AdminRefundFails(r) ==
  /\ At(r, "admin.refund") /\ "lost" \in Ops
  /\ \/ rzp' = [rzp EXCEPT ![req[r].o] = "refunded"]   \* the answer is lost
     \/ UNCHANGED rzp
  /\ ReleaseAll(r)
  /\ Done(r)
  /\ UNCHANGED <<db, failedEvent, windowOpen>>

AdminCommit(r) ==
  /\ At(r, "admin.commit")
  /\ payment' = [payment EXCEPT !.status = "REFUNDED"]
  /\ order' = "REFUNDED"
  /\ ReleaseAll(r)
  /\ Done(r)
  /\ UNCHANGED <<attempt, coupon, confirmed, external>>

-----------------------------------------------------------------------------
(* Failures *)

Abandon(r) ==
  /\ ReleaseAll(r)
  /\ Done(r)
  /\ UNCHANGED <<db, external>>

\* The process dies, the transaction times out, or a call to Razorpay other
\* than a refund fails: nothing of the current step happens, its locks go.
Crash(r) == "crash" \in Ops /\ ~At(r, "idle") /\ Abandon(r)

WaitsForOrder(r, s) ==
  /\ ordLock = s
  /\ \/ At(r, "admin.locked")
     \/ At(r, "capture.commit") /\ req[r].saw = "PENDING_PAYMENT"

WaitsForPayment(r, s) ==
  payLock = s /\ At(r, "expire.commit") /\ FailsPayment(r)

Deadlocked(r, s) ==
  r # s /\ \/ WaitsForOrder(r, s) /\ WaitsForPayment(s, r)
           \/ WaitsForPayment(r, s) /\ WaitsForOrder(s, r)

\* PostgreSQL's deadlock detector rolls one of the two back; the lock it held
\* goes to the other, first in the queue for it.
DeadlockVictim(r) ==
  /\ \E s \in Req :
       /\ Deadlocked(r, s)
       /\ payLock' = IF payLock = r THEN s ELSE payLock
       /\ ordLock' = IF ordLock = r THEN s ELSE ordLock
  /\ Done(r)
  /\ UNCHANGED <<db, external>>

-----------------------------------------------------------------------------

\* Nothing in flight: the shop may stay as it is for ever.  A request in
\* flight that can never finish is a deadlock.
AtRest == (\A r \in Req : At(r, "idle")) /\ UNCHANGED vars

Create(r) == CreateStart(r) \/ CreateRead(r) \/ CreateClaim(r) \/ CreateCall(r)
             \/ CreateCallFails(r) \/ CreateSaveRead(r) \/ CreateSaveWrite(r)
             \/ CreateRelease(r)
Capture(r) == CaptureBegin(r) \/ CaptureNothing(r) \/ CaptureDuplicate(r)
              \/ CaptureLate(r) \/ CaptureConfirm(r)
Refund(r) == RefundClaim(r) \/ RefundCall(r) \/ RefundCallFails(r)
             \/ RefundMark(r) \/ RefundPay(r)
Notify(r) == VerifyStart(r) \/ VerifyFetch(r) \/ HookStart(r) \/ FailStart(r)
             \/ FailLock(r) \/ FailCommit(r)
Cancel(r) == CancelStart(r) \/ CancelFetch(r) \/ CancelRead(r) \/ CancelWrite(r)
             \/ CancelFinal(r)
Retry(r) == RetryStart(r) \/ RetryWrite(r)
Cron(r) == ExpireStart(r) \/ ExpireFetch(r) \/ ExpireLock(r) \/ ExpireCommit(r)
           \/ RecoverStart(r) \/ RecoverFetch(r) \/ RecoverPay(r)
Admin(r) == AdminStart(r) \/ AdminMove(r) \/ AdminLockPayment(r)
            \/ AdminLockOrder(r) \/ AdminRefund(r) \/ AdminRefundFails(r)
            \/ AdminCommit(r)

Next ==
  \/ \E o \in RzpOrder : RzpAuthorize(o) \/ RzpCapture(o) \/ RzpFail(o)
  \/ CloseWindow \/ RecoverStaleCreation \/ AtRest
  \/ \E r \in Req :
       Create(r) \/ Capture(r) \/ Refund(r) \/ Notify(r) \/ Cancel(r) \/ Retry(r)
       \/ Cron(r) \/ Admin(r) \/ Crash(r) \/ DeadlockVictim(r)

Spec == Init /\ [][Next]_vars

-----------------------------------------------------------------------------
(* Fairness.  A handler that has been called runs on: Node resumes it, every  *)
(* transaction has a timeout and PostgreSQL grants a row lock in the order of *)
(* the requests for it, so a step that is enabled again and again is taken.   *)
(* The cron ticks every minute and Razorpay redelivers a captured event until *)
(* it is acknowledged, both whatever else is going on.  Razorpay settles an   *)
(* authorized payment one way or the other.                                   *)

HandlerStep(r) ==
  /\ ~At(r, "idle")
  /\ Create(r) \/ Capture(r) \/ Refund(r) \/ Notify(r) \/ Cancel(r) \/ Retry(r)
     \/ Cron(r) \/ Admin(r)

Fairness ==
  /\ \A r \in Req : SF_vars(HandlerStep(r)) /\ WF_vars(DeadlockVictim(r))
  /\ SF_vars(\E r \in Req : ExpireStart(r))
  /\ SF_vars(\E r \in Req : RecoverStart(r))
  /\ \A r \in Req : SF_vars(RecoverFetch(r))
  /\ SF_vars(\E r \in Req : HookStart(r))
  /\ WF_vars(CloseWindow)
  /\ \A o \in RzpOrder :
       WF_vars(rzp[o] = "authorized" /\ (RzpCapture(o) \/ RzpFail(o)))

FairSpec == Spec /\ Fairness

-----------------------------------------------------------------------------
(* Properties *)

\* However verify, webhook, cancel and expiry race to reconcile a capture, the
\* confirmation block of applyCapturedPayment (purchase metrics, cart lines,
\* custom request) runs at most once in the life of the order.
ConfirmedOnce ==
  \A o, p \in RzpOrder :
    confirmed[o] > 0 /\ confirmed[p] > 0 => o = p /\ confirmed[o] = 1

\* An attempt is booked REFUNDED only when Razorpay has refunded it, whatever
\* answers were lost and whichever handler or cron reconciled them.
RefundsAreReal ==
  \A o \in RzpOrder : attempt[o] = "REFUNDED" => rzp[o] = "refunded"

\* The coupon use that createFromCart reserved is given back at most once by
\* the expiry and the administrator: usageCount never loses another order's use.
CouponReleasedOnce == coupon >= OtherUses

\* A captured payment row leaves CAPTURED only for REFUNDED: no late
\* payment.failed webhook, expiry or order creation overwrites it from what it
\* read before the capture.
CaptureKept ==
  [][payment.status = "CAPTURED" => payment'.status \in {"CAPTURED", "REFUNDED"}]_vars

\* No handler is about to refund the very capture that confirmed an order
\* which is still being fulfilled.
ConfirmedNotRefunded ==
  \A r \in Req : At(r, "refund.call") /\ confirmed[req[r].o] > 0 =>
    order \notin PaidStatuses

InFlight == {r \in Req : ~At(r, "idle")}

\* With nothing in flight, money Razorpay holds for an attempt either backs an
\* order being fulfilled, or is claimed for a refund, or is in a state in which
\* the next delivery of its webhook acts on it.
NoStrandedMoney ==
  InFlight = {} =>
    \A o \in RzpOrder : rzp[o] = "captured" =>
      \/ Captured(o) /\ order \in PaidStatuses
      \/ attempt[o] = "REFUND_PENDING"
      \/ ~Captured(o) /\ attempt[o] \notin {"NONE", "REFUNDED"}

\* An order is REFUNDED only when the payment that confirmed it is.
RefundedOrderReturnsMoney ==
  order = "REFUNDED" =>
    \A o \in RzpOrder : confirmed[o] > 0 => rzp[o] = "refunded"

\* Closing the payment dialog does not cancel an order that a capture confirmed.
DismissKeepsPaidOrder ==
  [][order = "CONFIRMED" /\ (\E o \in RzpOrder : confirmed[o] > 0) =>
       order' # "CANCELLED"]_vars

\* Handlers that read, lock, ask Razorpay and write in separate steps, fail and
\* crash in between, move the order, its coupon and its money as if a capture
\* confirmed the order, an administrator decided and the expiry cancelled at one
\* moment each.
SettledAtOnce == Ledger!Spec

\* Once the payment window has closed, the minute cron gets the order out of
\* PENDING_PAYMENT: confirmed if Razorpay has the money, cancelled otherwise.
WindowIsFinal == ~windowOpen ~> order # "PENDING_PAYMENT"

\* Money captured for a cancelled order goes back, unless a capture that was
\* under way revives the order, or waits for the operator as REFUND_PENDING
\* because Razorpay did not answer the refund.
LateMoneyReturned ==
  \A o \in RzpOrder :
    order = "CANCELLED" /\ rzp[o] = "captured" ~>
      \/ rzp[o] = "refunded"
      \/ attempt[o] = "REFUND_PENDING"
      \/ order \in PaidStatuses

\* A refund whose answer was lost is booked by the cron in the end.
LostAnswerReconciled ==
  \A o \in RzpOrder :
    attempt[o] = "REFUND_PENDING" /\ rzp[o] = "refunded" ~> attempt[o] = "REFUNDED"

=============================================================================
