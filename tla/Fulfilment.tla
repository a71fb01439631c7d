----------------------------- MODULE Fulfilment -----------------------------
(***************************************************************************)
(* A paid order on its way to the customer and back: the administrators'   *)
(* updateStatus, ShipmentsService.update, and ReturnsService, all of them  *)
(* called at any time and by several people at once.                       *)
(*                                                                         *)
(* The order starts CONFIRMED by the capture of its payment; how it gets   *)
(* there is module OrderPayment.  A step is one statement, one call to     *)
(* Razorpay, or one transaction under the row locks it takes.              *)
(*                                                                         *)
(* An operator whose name starts with Bug is the operator that follows it  *)
(* with a plausible mistake; no specification uses it.                     *)
(***************************************************************************)
EXTENDS Naturals, Orders

CONSTANTS
  Req,     \* requests that can be in flight together
  Nobody,  \* the owner of a free row lock
  Faults   \* TRUE where processes die and Razorpay's answers get lost

ASSUME ReqAssumption == Nobody \notin Req
ASSUME FaultsAssumption == Faults \in BOOLEAN

ShipmentStatus == {"PENDING", "LABEL_CREATED", "SHIPPED", "IN_TRANSIT",
                   "DELIVERED", "EXCEPTION"}
ReturnStatus == {"REQUESTED", "APPROVED", "REJECTED", "RECEIVED", "REFUNDED"}

\* RETURN_TRANSITIONS.
ReturnTransitions(s) ==
  CASE s = "REQUESTED" -> {"APPROVED", "REJECTED"}
    [] s = "APPROVED"  -> {"RECEIVED", "REFUNDED", "REJECTED"}
    [] s = "RECEIVED"  -> {"REFUNDED", "REJECTED"}
    [] OTHER           -> {}

\* The order status that a shipment status implies, or "none".
OrderStatusForShipment(s) ==
  CASE s \in {"SHIPPED", "IN_TRANSIT"} -> "SHIPPED"
    [] s = "DELIVERED"                 -> "DELIVERED"
    [] OTHER                           -> "none"

ShippableFrom == {"CONFIRMED", "PROCESSING", "READY_TO_SHIP"}
DeliverableFrom == ShippableFrom \cup {"SHIPPED"}

VARIABLES
  order,     \* Order.status
  payment,   \* Payment.status
  shipment,  \* Shipment.status
  ret,       \* ReturnRequest.status, or "none" without a request
  money,     \* the captured money: "held", or which flow had Razorpay return
             \* it, "order" or "return"
  payLock,   \* the transaction that holds SELECT ... FOR UPDATE on Payment
  ordLock,   \* the same for Order
  req        \* program counter and locals of every request

\* The abstract specification of a paid order; it does not see who returned the
\* money.
Promised == INSTANCE PaidOrder WITH
  status <- order, parcel <- shipment, claim <- ret,
  money <- IF money = "held" THEN "held" ELSE "returned"

vars == <<order, payment, shipment, ret, money, payLock, ordLock, req>>
rows == <<order, payment, shipment, ret>>
locks == <<payLock, ordLock>>

PC == {"idle", "admin.check", "admin.tx", "admin.locked", "admin.fetch",
       "admin.refund", "admin.commit", "return.create", "return.claim",
       "return.payment", "return.fetch", "return.refund", "return.book"}

\* saw, a status read earlier; to, the status that is asked for.
Local == [pc : PC, saw : OrderStatus \cup ReturnStatus,
          to : OrderStatus \cup ReturnStatus]
Idle == [pc |-> "idle", saw |-> "CONFIRMED", to |-> "CONFIRMED"]

TypeOK ==
  /\ order \in OrderStatus
  /\ payment \in {"CAPTURED", "REFUNDED"}
  /\ shipment \in ShipmentStatus
  /\ ret \in ReturnStatus \cup {"none"}
  /\ money \in {"held", "order", "return"}
  /\ payLock \in Req \cup {Nobody}
  /\ ordLock \in Req \cup {Nobody}
  /\ req \in [Req -> Local]

\* What createFromCart and applyCapturedPayment leave behind.
Init ==
  /\ order = "CONFIRMED" /\ payment = "CAPTURED" /\ shipment = "PENDING"
  /\ ret = "none" /\ money = "held"
  /\ payLock = Nobody /\ ordLock = Nobody
  /\ req = [r \in Req |-> Idle]

-----------------------------------------------------------------------------
(* Control and locks *)

At(r, l) == req[r].pc = l
Start(r, l, s, t) == req' = [req EXCEPT ![r] = [pc |-> l, saw |-> s, to |-> t]]
Goto(r, l) == req' = [req EXCEPT ![r].pc = l]
Done(r) == req' = [req EXCEPT ![r] = Idle]
GotoOrDone(r, c, l) == IF c THEN Goto(r, l) ELSE Done(r)

Writable(lock, r) == lock \in {Nobody, r}
Release(lock, r) == IF lock = r THEN Nobody ELSE lock
ReleaseAll(r) ==
  /\ payLock' = Release(payLock, r)
  /\ ordLock' = Release(ordLock, r)

-----------------------------------------------------------------------------
(* OrdersService.updateStatus *)

\* findOneAdmin: first the order ...
AdminStart(r) ==
  /\ At(r, "idle")
  /\ \E to \in Transitions(order) : Start(r, "admin.check", order, to)
  /\ UNCHANGED <<rows, money, locks>>

BugCancelsPaid(r) == TRUE
\* Cancelling a paid order would keep the money; it has to be refunded.
MayCancel(r) ==
  ~(req[r].to = "CANCELLED" /\ req[r].saw \in PaidStatuses /\ payment = "CAPTURED")

\* ... then its payment, in a statement of its own.
AdminCheck(r) ==
  /\ At(r, "admin.check")
  /\ GotoOrDone(r, /\ MayCancel(r)
                   /\ req[r].to = "REFUNDED" => payment = "CAPTURED",
                "admin.tx")
  /\ UNCHANGED <<rows, money, locks>>

SameStatus(r) == order = req[r].saw

ShipmentFor(r) ==
  IF req[r].to \in {"SHIPPED", "DELIVERED"} THEN req[r].to ELSE shipment

\* One transaction under the Order lock.
AdminMove(r) ==
  /\ At(r, "admin.tx") /\ req[r].to # "REFUNDED" /\ Writable(ordLock, r)
  /\ IF SameStatus(r)
     THEN order' = req[r].to /\ shipment' = ShipmentFor(r)
     ELSE UNCHANGED <<order, shipment>>
  /\ Done(r)
  /\ UNCHANGED <<payment, ret, money, locks>>

AdminLockPayment(r) ==
  /\ At(r, "admin.tx") /\ req[r].to = "REFUNDED" /\ Writable(payLock, r)
  /\ payLock' = r
  /\ Goto(r, "admin.locked")
  /\ UNCHANGED <<rows, money, ordLock>>

AdminLockOrder(r) ==
  /\ At(r, "admin.locked") /\ Writable(ordLock, r)
  /\ IF SameStatus(r) /\ payment = "CAPTURED"
     THEN /\ ordLock' = r
          /\ Goto(r, "admin.fetch")
          /\ UNCHANGED payLock
     ELSE /\ ReleaseAll(r)
          /\ Done(r)
  /\ UNCHANGED <<rows, money>>

BugNothingRemains == FALSE
\* remainingRefundMinor: what Razorpay has not given back yet.
Remaining == money = "held"

AdminFetch(r) ==
  /\ At(r, "admin.fetch")
  /\ Goto(r, IF Remaining THEN "admin.refund" ELSE "admin.commit")
  /\ UNCHANGED <<rows, money, locks>>

AdminRefund(r) ==
  /\ At(r, "admin.refund") /\ money = "held"
  /\ money' = "order"
  /\ Goto(r, "admin.commit")
  /\ UNCHANGED <<rows, locks>>

\* Razorpay refuses to return more than it holds, or its answer is lost; the
\* transaction is rolled back either way.
AdminRefundFails(r) ==
  /\ At(r, "admin.refund")
  /\ \/ money # "held" /\ UNCHANGED money
     \/ Faults /\ money = "held" /\ money' \in {"held", "order"}
  /\ ReleaseAll(r)
  /\ Done(r)
  /\ UNCHANGED rows

AdminCommit(r) ==
  /\ At(r, "admin.commit")
  /\ payment' = "REFUNDED" /\ order' = "REFUNDED"
  /\ ReleaseAll(r)
  /\ Done(r)
  /\ UNCHANGED <<shipment, ret, money>>

-----------------------------------------------------------------------------
(* ShipmentsService.update: one transaction under the Order lock *)

BugAlwaysAdvances(o, s) == OrderStatusForShipment(s)
BugKeepsOrder(o, s) == o
\* guardShipmentUpdate: the status the order gets, or "reject".
GuardShipmentUpdate(o, s) ==
  LET target == OrderStatusForShipment(s)
      from == IF target = "SHIPPED" THEN ShippableFrom ELSE DeliverableFrom
  IN IF target \in {"none", o} THEN o ELSE IF o \in from THEN target ELSE "reject"

\* A call of a request that is otherwise idle; a rejected update changes nothing.
ShipmentUpdate(r) ==
  /\ At(r, "idle") /\ Writable(ordLock, r)
  /\ \E s \in ShipmentStatus :
       LET next == GuardShipmentUpdate(order, s) IN
       /\ next # "reject"
       /\ shipment' = s
       /\ order' = next
  /\ UNCHANGED <<payment, ret, money, locks, req>>

-----------------------------------------------------------------------------
(* ReturnsService *)

\* create: the order is read ...
ReturnStart(r) ==
  /\ At(r, "idle") /\ order = "DELIVERED"
  /\ Start(r, "return.create", order, "REQUESTED")
  /\ UNCHANGED <<rows, money, locks>>

\* ... and the request inserted, unless the order has one.
ReturnCreate(r) ==
  /\ At(r, "return.create")
  /\ ret' = IF ret = "none" THEN "REQUESTED" ELSE ret
  /\ Done(r)
  /\ UNCHANGED <<order, payment, shipment, money, locks>>

\* updateStatus: the request as it is now decides what may be asked for.
ReturnUpdate(r) ==
  /\ At(r, "idle") /\ ret # "none"
  /\ \E to \in ReturnTransitions(ret) :
       Start(r, IF to = "REFUNDED" THEN "return.payment" ELSE "return.claim",
             ret, to)
  /\ UNCHANGED <<rows, money, locks>>

BugClaimsBlindly(r) == TRUE
\* The where clause of the conditional updateMany.
Unchanged(r) == ret = req[r].saw

ReturnClaim(r) ==
  /\ At(r, "return.claim")
  /\ ret' = IF Unchanged(r) THEN req[r].to ELSE ret
  /\ Done(r)
  /\ UNCHANGED <<order, payment, shipment, money, locks>>

ReturnPayment(r) ==
  /\ At(r, "return.payment")
  /\ GotoOrDone(r, payment = "CAPTURED", "return.fetch")
  /\ UNCHANGED <<rows, money, locks>>

ReturnFetch(r) ==
  /\ At(r, "return.fetch")
  /\ Goto(r, IF Remaining THEN "return.refund" ELSE "return.book")
  /\ UNCHANGED <<rows, money, locks>>

ReturnRefund(r) ==
  /\ At(r, "return.refund") /\ money = "held"
  /\ money' = "return"
  /\ Goto(r, "return.book")
  /\ UNCHANGED <<rows, locks>>

ReturnRefundFails(r) ==
  /\ At(r, "return.refund")
  /\ \/ money # "held" /\ UNCHANGED money
     \/ Faults /\ money = "held" /\ money' \in {"held", "return"}
  /\ Done(r)
  /\ UNCHANGED <<rows, locks>>

\* The claim of the request and both updates by id, or nothing.
ReturnBook(r) ==
  /\ At(r, "return.book") /\ Writable(payLock, r) /\ Writable(ordLock, r)
  /\ IF Unchanged(r)
     THEN ret' = req[r].to /\ payment' = "REFUNDED" /\ order' = "REFUNDED"
     ELSE UNCHANGED <<ret, payment, order>>
  /\ Done(r)
  /\ UNCHANGED <<shipment, money, locks>>

-----------------------------------------------------------------------------

\* The process dies or the transaction times out.
Crash(r) ==
  /\ Faults /\ ~At(r, "idle")
  /\ ReleaseAll(r)
  /\ Done(r)
  /\ UNCHANGED <<rows, money>>

\* Nothing in flight: the order may stay as it is for ever.
AtRest == (\A r \in Req : At(r, "idle")) /\ UNCHANGED vars

Admin(r) == AdminStart(r) \/ AdminCheck(r) \/ AdminMove(r) \/ AdminLockPayment(r)
            \/ AdminLockOrder(r) \/ AdminFetch(r) \/ AdminRefund(r)
            \/ AdminRefundFails(r) \/ AdminCommit(r)
Return(r) == ReturnStart(r) \/ ReturnCreate(r) \/ ReturnUpdate(r) \/ ReturnClaim(r)
             \/ ReturnPayment(r) \/ ReturnFetch(r) \/ ReturnRefund(r)
             \/ ReturnRefundFails(r) \/ ReturnBook(r)

Next ==
  \/ \E r \in Req : Admin(r) \/ ShipmentUpdate(r) \/ Return(r) \/ Crash(r)
  \/ AtRest

Spec == Init /\ [][Next]_vars

-----------------------------------------------------------------------------
(* Properties *)

\* The shipment says shipped or delivered only of an order that is at least as
\* far, whichever of updateStatus and ShipmentsService.update wrote last.
ShipmentTracksOrder ==
  /\ shipment \in {"SHIPPED", "IN_TRANSIT"} =>
       order \in {"SHIPPED", "DELIVERED", "REFUNDED"}
  /\ shipment = "DELIVERED" => order \in {"DELIVERED", "REFUNDED"}

Stage == [PENDING_PAYMENT |-> 0, CONFIRMED |-> 1, PROCESSING |-> 2,
          READY_TO_SHIP |-> 3, SHIPPED |-> 4, DELIVERED |-> 5, REFUNDED |-> 6,
          CANCELLED |-> 6]

\* No writer takes an order back a stage or out of REFUNDED or CANCELLED, those
\* that write it by id after an unlocked read included.
OrderForward == [][order' # order => Stage[order] < Stage[order']]_vars

\* Order, payment and return are booked as refunded together, and only once
\* the money is back.
RefundsAgree ==
  /\ order = "REFUNDED" <=> payment = "REFUNDED"
  /\ ret = "REFUNDED" => order = "REFUNDED"
  /\ order = "REFUNDED" => money # "held"

\* An order whose payment was recorded as captured before any request began is not
\* cancelled with the money kept.  A capture at the same time is not among the
\* steps here: orders.service.ts:467 can miss it.
CancelReturnsMoney == order = "CANCELLED" => money # "held"

\* Money that went back without being booked, because a process died or an
\* answer was lost, can still be booked: the order may be moved to REFUNDED.
MoneyBackIsBookable ==
  money # "held" => order = "REFUNDED" \/ "REFUNDED" \in Transitions(order)

\* Administrators, the carrier and the customer, who read, lock, ask Razorpay and
\* write in separate steps and are interrupted in between, move the order, its
\* parcel, its return and its money as if each acted at one moment.
HandledAtOnce == Promised!Spec

\* The refund of a return is issued for an approved return only: none that was
\* rejected has been refunded.
RejectedReturnKeepsMoney == ret = "REJECTED" => money # "return"
=============================================================================
