-------------------------- MODULE Fulfilment_proofs --------------------------
(* Theorems about module Fulfilment, for any number of requests.             *)
EXTENDS Fulfilment, TLAPS

AdminLocked == {"admin.fetch", "admin.refund", "admin.commit"}
ReturnRefunding == {"return.payment", "return.fetch", "return.refund", "return.book"}

\* A paid order is never cancelled.
OrderIsPaid == order \in PaidStatuses \cup {"REFUNDED"}

\* What holds of an administrator's request at each of its steps.  A status
\* that was read may be stale, but the move is one the table had for it, and a
\* cancellation passed its check only because the order had been refunded.
AdminInv ==
  \A r \in Req :
    /\ req[r].pc \in {"admin.check", "admin.tx"} =>
         /\ req[r].saw \in PaidStatuses
         /\ req[r].to \in Transitions(req[r].saw)
    /\ req[r].pc = "admin.tx" /\ req[r].to = "CANCELLED" => order = "REFUNDED"
    /\ req[r].pc = "admin.locked" => payLock = r
    /\ req[r].pc \in AdminLocked =>
         payLock = r /\ ordLock = r /\ payment = "CAPTURED"
    /\ req[r].pc = "admin.commit" => money # "held"

\* Returns are of delivered orders, and a return is booked with the money back.
ReturnInv ==
  /\ ret # "none" => order \in {"DELIVERED", "REFUNDED"}
  /\ \A r \in Req :
       /\ req[r].pc \in ReturnRefunding \cup {"return.create", "return.claim"} =>
            order \in {"DELIVERED", "REFUNDED"}
       /\ req[r].pc = "return.claim" => req[r].to \in ReturnStatus \ {"REFUNDED"}
       /\ req[r].pc \in ReturnRefunding => req[r].to = "REFUNDED"
       /\ req[r].pc = "return.book" => money # "held"

IInv == /\ TypeOK /\ OrderIsPaid /\ ShipmentTracksOrder /\ RefundsAgree
        /\ AdminInv /\ ReturnInv

USE DEF At, Writable, Release, ReleaseAll, AdminLocked, ReturnRefunding

\* The table of moves, and of return moves, in the form the proofs use.
LEMMA TransitionsOfPaid ==
  ASSUME NEW s \in PaidStatuses, NEW t \in Transitions(s)
  PROVE  /\ t \in OrderStatus
         /\ t # "CANCELLED" => t \in PaidStatuses \cup {"REFUNDED"} /\ Stage[s] < Stage[t]
  BY DEF Transitions, PaidStatuses, OrderStatus, Stage

LEMMA TransitionsOfReturns ==
  ASSUME NEW s \in ReturnStatus, NEW t \in ReturnTransitions(s)
  PROVE  t \in ReturnStatus
  BY DEF ReturnTransitions, ReturnStatus

LEMMA InitIInv == Init => IInv
  BY DEF Init, IInv, TypeOK, OrderIsPaid, ShipmentTracksOrder, RefundsAgree,
         AdminInv, ReturnInv, Idle, Local, PC, OrderStatus, PaidStatuses,
         ShipmentStatus, ReturnStatus

\* The steps of updateStatus preserve the invariant.
LEMMA AdminStep ==
  ASSUME IInv, NEW r \in Req, Admin(r)
  PROVE  IInv'
<1> USE ReqAssumption
    DEF IInv, TypeOK, AdminInv, ReturnInv, rows, locks, Start, Goto, Done,
        GotoOrDone, Idle, Local
<1>1. CASE AdminStart(r)
  <2>1. PICK to \in Transitions(order) : Start(r, "admin.check", order, to)
    BY <1>1 DEF AdminStart
  <2>2. order \in PaidStatuses
    BY <2>1 DEF OrderIsPaid, Transitions
  <2>3. to \in OrderStatus
    BY <2>1, <2>2, TransitionsOfPaid
  <2>4. TypeOK'
    BY <1>1, <2>1, <2>3 DEF AdminStart, PC
  <2>5. OrderIsPaid' /\ ShipmentTracksOrder' /\ RefundsAgree'
    BY <1>1 DEF AdminStart, OrderIsPaid, ShipmentTracksOrder, RefundsAgree
  <2>6. AdminInv' /\ ReturnInv'
    BY <1>1, <2>1, <2>2 DEF AdminStart
  <2> QED
    BY <2>4, <2>5, <2>6
<1>2. CASE AdminCheck(r)
  <2>1. TypeOK'
    BY <1>2 DEF AdminCheck, PC, OrderStatus, MayCancel, PaidStatuses
  <2>2. OrderIsPaid' /\ ShipmentTracksOrder' /\ RefundsAgree'
    BY <1>2 DEF AdminCheck, OrderIsPaid, ShipmentTracksOrder, RefundsAgree, MayCancel, PaidStatuses
  <2>3. AdminInv' /\ ReturnInv'
    BY <1>2 DEF AdminCheck, OrderIsPaid, RefundsAgree, MayCancel, PaidStatuses
  <2> QED
    BY <2>1, <2>2, <2>3
<1>3. CASE AdminMove(r)
  <2>1. CASE ~SameStatus(r)
    <3>1. TypeOK'
      BY <1>3, <2>1 DEF AdminMove, PC, OrderStatus
    <3>2. OrderIsPaid' /\ ShipmentTracksOrder' /\ RefundsAgree'
      BY <1>3, <2>1 DEF AdminMove, OrderIsPaid, ShipmentTracksOrder, RefundsAgree
    <3>3. AdminInv' /\ ReturnInv'
      BY <1>3, <2>1 DEF AdminMove
    <3> QED
      BY <3>1, <3>2, <3>3
  <2>2. CASE SameStatus(r)
    <3>1. order \in PaidStatuses /\ req[r].to \in Transitions(order)
      BY <1>3, <2>2 DEF AdminMove, SameStatus
    <3>2. req[r].to # "CANCELLED"
      BY <1>3, <3>1 DEF AdminMove, PaidStatuses
    <3>3. /\ req[r].to \in PaidStatuses
          /\ Stage[order] < Stage[req[r].to]
      BY <1>3, <3>1, <3>2, TransitionsOfPaid DEF AdminMove
    <3>4. order' = req[r].to /\ shipment' = ShipmentFor(r)
      BY <1>3, <2>2 DEF AdminMove
    <3>5. TypeOK'
      BY <1>3, <3>3, <3>4
      DEF AdminMove, PC, ShipmentFor, PaidStatuses, OrderStatus, ShipmentStatus
    <3>6. OrderIsPaid' /\ RefundsAgree'
      BY <1>3, <3>1, <3>3, <3>4 DEF AdminMove, OrderIsPaid, RefundsAgree, PaidStatuses
    <3>7. ShipmentTracksOrder'
      BY <1>3, <3>1, <3>3, <3>4
      DEF AdminMove, ShipmentTracksOrder, ShipmentFor, Stage, PaidStatuses
    <3>8. order \notin {"DELIVERED", "REFUNDED"}
      BY <3>1, <3>3 DEF Stage, PaidStatuses
    <3>9. AdminInv' /\ ReturnInv'
      BY <1>3, <3>8 DEF AdminMove
    <3> QED
      BY <3>5, <3>6, <3>7, <3>9
  <2> QED
    BY <2>1, <2>2
<1>4. CASE AdminLockPayment(r)
  <2>1. TypeOK'
    BY <1>4 DEF AdminLockPayment, PC, OrderStatus
  <2>2. OrderIsPaid' /\ ShipmentTracksOrder' /\ RefundsAgree'
    BY <1>4 DEF AdminLockPayment, OrderIsPaid, ShipmentTracksOrder, RefundsAgree
  <2>3. AdminInv' /\ ReturnInv'
    BY <1>4 DEF AdminLockPayment, OrderIsPaid, RefundsAgree
  <2> QED
    BY <2>1, <2>2, <2>3
<1>5. CASE AdminLockOrder(r)
  <2>1. TypeOK'
    BY <1>5 DEF AdminLockOrder, PC, OrderStatus, SameStatus
  <2>2. OrderIsPaid' /\ ShipmentTracksOrder' /\ RefundsAgree'
    BY <1>5 DEF AdminLockOrder, OrderIsPaid, ShipmentTracksOrder, RefundsAgree, SameStatus
  <2>3. AdminInv' /\ ReturnInv'
    BY <1>5 DEF AdminLockOrder, OrderIsPaid, RefundsAgree, SameStatus
  <2> QED
    BY <2>1, <2>2, <2>3
<1>6. CASE AdminFetch(r)
  <2>1. TypeOK'
    BY <1>6 DEF AdminFetch, PC, OrderStatus, Remaining
  <2>2. OrderIsPaid' /\ ShipmentTracksOrder' /\ RefundsAgree'
    BY <1>6 DEF AdminFetch, OrderIsPaid, ShipmentTracksOrder, RefundsAgree, Remaining
  <2>3. AdminInv' /\ ReturnInv'
    BY <1>6 DEF AdminFetch, OrderIsPaid, RefundsAgree, Remaining
  <2> QED
    BY <2>1, <2>2, <2>3
<1>7. CASE AdminRefund(r)
  <2>1. TypeOK'
    BY <1>7 DEF AdminRefund, PC, OrderStatus
  <2>2. OrderIsPaid' /\ ShipmentTracksOrder' /\ RefundsAgree'
    BY <1>7 DEF AdminRefund, OrderIsPaid, ShipmentTracksOrder, RefundsAgree
  <2>3. AdminInv' /\ ReturnInv'
    BY <1>7 DEF AdminRefund, OrderIsPaid, RefundsAgree
  <2> QED
    BY <2>1, <2>2, <2>3
<1>8. CASE AdminRefundFails(r)
  <2>1. TypeOK'
    BY <1>8 DEF AdminRefundFails, PC, OrderStatus
  <2>2. OrderIsPaid' /\ ShipmentTracksOrder' /\ RefundsAgree'
    BY <1>8 DEF AdminRefundFails, OrderIsPaid, ShipmentTracksOrder, RefundsAgree
  <2>3. AdminInv' /\ ReturnInv'
    BY <1>8 DEF AdminRefundFails, OrderIsPaid, RefundsAgree
  <2> QED
    BY <2>1, <2>2, <2>3
<1>9. CASE AdminCommit(r)
  <2>1. TypeOK'
    BY <1>9 DEF AdminCommit, PC, OrderStatus
  <2>2. OrderIsPaid' /\ ShipmentTracksOrder' /\ RefundsAgree'
    BY <1>9 DEF AdminCommit, OrderIsPaid, ShipmentTracksOrder, RefundsAgree
  <2>3. AdminInv' /\ ReturnInv'
    BY <1>9 DEF AdminCommit, OrderIsPaid, RefundsAgree
  <2> QED
    BY <2>1, <2>2, <2>3
<1> QED
  BY <1>1, <1>2, <1>3, <1>4, <1>5, <1>6, <1>7, <1>8, <1>9 DEF Admin

\* The steps of ReturnsService preserve the invariant.
LEMMA ReturnStep ==
  ASSUME IInv, NEW r \in Req, Return(r)
  PROVE  IInv'
<1> USE ReqAssumption
    DEF IInv, TypeOK, AdminInv, ReturnInv, rows, locks, Start, Goto, Done,
        GotoOrDone, Idle, Local
<1>1. CASE ReturnStart(r)
  <2>1. TypeOK'
    BY <1>1 DEF ReturnStart, PC, OrderStatus, ReturnStatus
  <2>2. OrderIsPaid' /\ ShipmentTracksOrder' /\ RefundsAgree'
    BY <1>1 DEF ReturnStart, OrderIsPaid, ShipmentTracksOrder, RefundsAgree
  <2>3. AdminInv' /\ ReturnInv'
    BY <1>1 DEF ReturnStart, OrderIsPaid, RefundsAgree
  <2> QED
    BY <2>1, <2>2, <2>3
<1>2. CASE ReturnCreate(r)
  <2>1. TypeOK'
    BY <1>2 DEF ReturnCreate, PC, OrderStatus, ReturnStatus
  <2>2. OrderIsPaid' /\ ShipmentTracksOrder' /\ RefundsAgree'
    BY <1>2 DEF ReturnCreate, OrderIsPaid, ShipmentTracksOrder, RefundsAgree
  <2>3. AdminInv' /\ ReturnInv'
    BY <1>2 DEF ReturnCreate, OrderIsPaid, RefundsAgree
  <2> QED
    BY <2>1, <2>2, <2>3
<1>3. CASE ReturnUpdate(r)
  <2>1. PICK to \in ReturnTransitions(ret) :
          Start(r, IF to = "REFUNDED" THEN "return.payment" ELSE "return.claim",
                ret, to)
    BY <1>3 DEF ReturnUpdate
  <2>2. ret \in ReturnStatus /\ to \in ReturnStatus
    BY <1>3, <2>1, TransitionsOfReturns DEF ReturnUpdate
  <2>3. TypeOK'
    BY <1>3, <2>1, <2>2 DEF ReturnUpdate, PC
  <2>4. OrderIsPaid' /\ ShipmentTracksOrder' /\ RefundsAgree'
    BY <1>3 DEF ReturnUpdate, OrderIsPaid, ShipmentTracksOrder, RefundsAgree
  <2>5. AdminInv' /\ ReturnInv'
    BY <1>3, <2>1, <2>2 DEF ReturnUpdate
  <2> QED
    BY <2>3, <2>4, <2>5
<1>4. CASE ReturnClaim(r)
  <2>1. TypeOK'
    BY <1>4 DEF ReturnClaim, PC, OrderStatus, ReturnStatus, Unchanged
  <2>2. OrderIsPaid' /\ ShipmentTracksOrder' /\ RefundsAgree'
    BY <1>4 DEF ReturnClaim, OrderIsPaid, ShipmentTracksOrder, RefundsAgree, Unchanged
  <2>3. AdminInv' /\ ReturnInv'
    BY <1>4 DEF ReturnClaim, OrderIsPaid, RefundsAgree, Unchanged
  <2> QED
    BY <2>1, <2>2, <2>3
<1>5. CASE ReturnPayment(r)
  <2>1. TypeOK'
    BY <1>5 DEF ReturnPayment, PC, OrderStatus, ReturnStatus
  <2>2. OrderIsPaid' /\ ShipmentTracksOrder' /\ RefundsAgree'
    BY <1>5 DEF ReturnPayment, OrderIsPaid, ShipmentTracksOrder, RefundsAgree
  <2>3. AdminInv' /\ ReturnInv'
    BY <1>5 DEF ReturnPayment, OrderIsPaid, RefundsAgree
  <2> QED
    BY <2>1, <2>2, <2>3
<1>6. CASE ReturnFetch(r)
  <2>1. TypeOK'
    BY <1>6 DEF ReturnFetch, PC, OrderStatus, ReturnStatus, Remaining
  <2>2. OrderIsPaid' /\ ShipmentTracksOrder' /\ RefundsAgree'
    BY <1>6 DEF ReturnFetch, OrderIsPaid, ShipmentTracksOrder, RefundsAgree, Remaining
  <2>3. AdminInv' /\ ReturnInv'
    BY <1>6 DEF ReturnFetch, OrderIsPaid, RefundsAgree, Remaining
  <2> QED
    BY <2>1, <2>2, <2>3
<1>7. CASE ReturnRefund(r)
  <2>1. TypeOK'
    BY <1>7 DEF ReturnRefund, PC, OrderStatus, ReturnStatus
  <2>2. OrderIsPaid' /\ ShipmentTracksOrder' /\ RefundsAgree'
    BY <1>7 DEF ReturnRefund, OrderIsPaid, ShipmentTracksOrder, RefundsAgree
  <2>3. AdminInv' /\ ReturnInv'
    BY <1>7 DEF ReturnRefund, OrderIsPaid, RefundsAgree
  <2> QED
    BY <2>1, <2>2, <2>3
<1>8. CASE ReturnRefundFails(r)
  <2>1. TypeOK'
    BY <1>8 DEF ReturnRefundFails, PC, OrderStatus, ReturnStatus
  <2>2. OrderIsPaid' /\ ShipmentTracksOrder' /\ RefundsAgree'
    BY <1>8 DEF ReturnRefundFails, OrderIsPaid, ShipmentTracksOrder, RefundsAgree
  <2>3. AdminInv' /\ ReturnInv'
    BY <1>8 DEF ReturnRefundFails, OrderIsPaid, RefundsAgree
  <2> QED
    BY <2>1, <2>2, <2>3
<1>9. CASE ReturnBook(r)
  <2>1. TypeOK'
    BY <1>9 DEF ReturnBook, PC, OrderStatus, ReturnStatus, Unchanged
  <2>2. OrderIsPaid' /\ ShipmentTracksOrder' /\ RefundsAgree'
    BY <1>9 DEF ReturnBook, OrderIsPaid, ShipmentTracksOrder, RefundsAgree, Unchanged
  <2>3. AdminInv' /\ ReturnInv'
    BY <1>9 DEF ReturnBook, OrderIsPaid, RefundsAgree, Unchanged
  <2> QED
    BY <2>1, <2>2, <2>3
<1> QED
  BY <1>1, <1>2, <1>3, <1>4, <1>5, <1>6, <1>7, <1>8, <1>9 DEF Return

\* An update of the shipment takes the order forward, and never out of REFUNDED.
LEMMA ShipmentGuard ==
  ASSUME NEW o \in PaidStatuses \cup {"REFUNDED"}, NEW s \in ShipmentStatus,
         GuardShipmentUpdate(o, s) # "reject"
  PROVE  /\ \/ GuardShipmentUpdate(o, s) = o
            \/ /\ GuardShipmentUpdate(o, s) \in PaidStatuses
               /\ o # "REFUNDED"
               /\ Stage[o] < Stage[GuardShipmentUpdate(o, s)]
         /\ s \in {"SHIPPED", "IN_TRANSIT"} => GuardShipmentUpdate(o, s) = "SHIPPED"
         /\ s = "DELIVERED" => GuardShipmentUpdate(o, s) = "DELIVERED"
<1> USE DEF GuardShipmentUpdate, OrderStatusForShipment, ShippableFrom,
            DeliverableFrom, PaidStatuses, Stage
<1>1. CASE s \in {"SHIPPED", "IN_TRANSIT"}
  <2>1. OrderStatusForShipment(s) = "SHIPPED"
    BY <1>1
  <2>2. CASE o = "SHIPPED"
    BY <1>1, <2>1, <2>2
  <2>3. CASE o \in ShippableFrom
    BY <1>1, <2>1, <2>3
  <2> QED
    BY <2>1, <2>2, <2>3
<1>2. CASE s = "DELIVERED"
  BY <1>2
<1>3. CASE s \in {"PENDING", "LABEL_CREATED", "EXCEPTION"}
  BY <1>3
<1> QED
  BY <1>1, <1>2, <1>3 DEF ShipmentStatus

LEMMA ShipmentStep ==
  ASSUME IInv, NEW r \in Req, ShipmentUpdate(r)
  PROVE  IInv'
<1>1. PICK s \in ShipmentStatus :
        /\ GuardShipmentUpdate(order, s) # "reject"
        /\ shipment' = s
        /\ order' = GuardShipmentUpdate(order, s)
  BY DEF ShipmentUpdate
<1>2. order \in PaidStatuses \cup {"REFUNDED"}
  BY DEF IInv, OrderIsPaid
<1>3. /\ \/ order' = order
         \/ /\ order' \in PaidStatuses /\ order # "REFUNDED"
            /\ Stage[order] < Stage[order']
      /\ shipment' \in {"SHIPPED", "IN_TRANSIT"} => order' = "SHIPPED"
      /\ shipment' = "DELIVERED" => order' = "DELIVERED"
  BY <1>1, <1>2, ShipmentGuard
<1> USE DEF IInv, TypeOK, AdminInv, ReturnInv, locks
<1>4. TypeOK'
  BY <1>1, <1>3 DEF ShipmentUpdate, PaidStatuses, OrderStatus
<1>5. OrderIsPaid' /\ RefundsAgree'
  BY <1>3 DEF ShipmentUpdate, OrderIsPaid, RefundsAgree, PaidStatuses
<1>6. ShipmentTracksOrder'
  BY <1>3 DEF ShipmentTracksOrder
<1>7. order \in {"DELIVERED", "REFUNDED"} => order' = order
  BY <1>3 DEF Stage, PaidStatuses
<1>8. AdminInv' /\ ReturnInv'
  BY <1>3, <1>7 DEF ShipmentUpdate
<1> QED
  BY <1>4, <1>5, <1>6, <1>8

LEMMA CrashStep ==
  ASSUME IInv, NEW r \in Req, Crash(r)
  PROVE  IInv'
<1> USE ReqAssumption
    DEF IInv, TypeOK, AdminInv, ReturnInv, rows, Crash, Done, Idle, Local
<1>1. TypeOK'
  BY DEF PC, OrderStatus
<1>2. OrderIsPaid' /\ ShipmentTracksOrder' /\ RefundsAgree'
  BY DEF OrderIsPaid, ShipmentTracksOrder, RefundsAgree
<1>3. AdminInv' /\ ReturnInv'
  OBVIOUS
<1> QED
  BY <1>1, <1>2, <1>3

LEMMA NextIInv == IInv /\ [Next]_vars => IInv'
<1> SUFFICES ASSUME IInv, [Next]_vars
             PROVE  IInv'
  OBVIOUS
<1>1. CASE UNCHANGED vars
  BY <1>1
  DEF vars, IInv, TypeOK, OrderIsPaid, ShipmentTracksOrder, RefundsAgree,
      AdminInv, ReturnInv
<1>2. ASSUME NEW r \in Req, Admin(r) \/ ShipmentUpdate(r) \/ Return(r) \/ Crash(r)
      PROVE  IInv'
  BY <1>2, AdminStep, ShipmentStep, ReturnStep, CrashStep
<1> QED
  BY <1>1, <1>2 DEF Next, AtRest

\* The inductive invariant holds in every behaviour.
THEOREM Invariance == Spec => []IInv
  BY InitIInv, NextIInv, PTL DEF Spec

\* Every variable keeps its type.
THEOREM TypeCorrect == Spec => []TypeOK
  BY Invariance, PTL DEF IInv

\* updateStatus and ShipmentsService.update keep the shipment behind the order.
THEOREM ShipmentsTrackOrders == Spec => []ShipmentTracksOrder
  BY Invariance, PTL DEF IInv

\* Order, payment and return are booked as refunded together, with the money back.
THEOREM RefundsAreAgreed == Spec => []RefundsAgree
  BY Invariance, PTL DEF IInv

\* No request of any number, in any order of their steps, cancels an order whose
\* payment was recorded as captured before they began, and keeps the money.
THEOREM CancellationsReturnMoney == Spec => []CancelReturnsMoney
<1>1. IInv => CancelReturnsMoney
  BY DEF IInv, OrderIsPaid, CancelReturnsMoney, PaidStatuses
<1> QED
  BY <1>1, Invariance, PTL

\* Wherever a refund is left unbooked, an administrator can still book it.
THEOREM MoneyBackCanBeBooked == Spec => []MoneyBackIsBookable
<1>1. IInv => MoneyBackIsBookable
  BY DEF IInv, OrderIsPaid, MoneyBackIsBookable, PaidStatuses, Transitions
<1> QED
  BY <1>1, Invariance, PTL

\* No step takes the order back.
LEMMA StepForward ==
  ASSUME IInv, [Next]_vars, order' # order
  PROVE  Stage[order] < Stage[order']
<1>1. PICK r \in Req : AdminMove(r) \/ AdminCommit(r) \/ ShipmentUpdate(r) \/ ReturnBook(r)
  BY DEF Next, vars, rows, AtRest, Admin, Return, Crash, AdminStart, AdminCheck,
     AdminLockPayment, AdminLockOrder, AdminFetch, AdminRefund, AdminRefundFails,
     ReturnStart, ReturnCreate, ReturnUpdate, ReturnClaim, ReturnPayment,
     ReturnFetch, ReturnRefund, ReturnRefundFails
<1>2. CASE AdminMove(r)
  <2>1. /\ order = req[r].saw /\ order' = req[r].to
        /\ req[r].saw \in PaidStatuses /\ req[r].to \in Transitions(req[r].saw)
    BY <1>2 DEF AdminMove, SameStatus, IInv, AdminInv
  <2>2. req[r].to # "CANCELLED"
    BY <1>2, <2>1 DEF AdminMove, IInv, AdminInv, PaidStatuses
  <2> QED
    BY <2>1, <2>2, TransitionsOfPaid
<1>3. CASE AdminCommit(r) \/ ReturnBook(r)
  BY <1>3 DEF AdminCommit, ReturnBook, IInv, OrderIsPaid, PaidStatuses, Stage
<1>4. CASE ShipmentUpdate(r)
  BY <1>4, ShipmentGuard DEF ShipmentUpdate, IInv, OrderIsPaid
<1> QED
  BY <1>1, <1>2, <1>3, <1>4

\* The order moves forward, whoever writes it and however old its read.
THEOREM OrdersMoveForward == Spec => OrderForward
<1>1. IInv /\ [Next]_vars => [order' # order => Stage[order] < Stage[order']]_vars
  BY StepForward
<1> QED
  BY <1>1, Invariance, PTL DEF Spec, OrderForward
-----------------------------------------------------------------------------
(* The refinement of PaidOrder                                               *)

\* A request about a return asks for a move that the table had for what it read.
Asks(r) ==
  req[r].pc \in ReturnRefunding \cup {"return.claim"} =>
    /\ req[r].saw \in ReturnStatus
    /\ req[r].to \in ReturnTransitions(req[r].saw)
Asked == \A r \in Req : Asks(r)

\* The table of returns is that of PaidOrder.
LEMMA Rulings ==
  ASSUME NEW s \in ReturnStatus, NEW t \in ReturnTransitions(s)
  PROVE  IF t = "REFUNDED" THEN s \in Promised!Accepted
         ELSE <<s, t>> \in Promised!Rulings /\ t \in {"APPROVED", "RECEIVED", "REJECTED"}
<1>1. CASE s = "REQUESTED"
  BY <1>1 DEF ReturnTransitions, Promised!Accepted, Promised!Rulings
<1>2. CASE s = "APPROVED"
  BY <1>2 DEF ReturnTransitions, Promised!Accepted, Promised!Rulings
<1>3. CASE s = "RECEIVED"
  BY <1>3 DEF ReturnTransitions, Promised!Accepted, Promised!Rulings
<1> QED
  BY <1>1, <1>2, <1>3 DEF ReturnTransitions, ReturnStatus

LEMMA AskedInit == Init => Asked
  BY DEF Init, Idle, Asked, Asks

LEMMA AskedNext == IInv /\ Asked /\ [Next]_vars => Asked'
<1> SUFFICES ASSUME IInv, Asked, [Next]_vars
             PROVE  Asked'
  OBVIOUS
<1> USE DEF Asked, Asks
<1>1. CASE UNCHANGED vars
  BY <1>1 DEF vars
<1>2. ASSUME NEW r \in Req, ReturnUpdate(r)
      PROVE  Asked'
  <2>1. PICK to \in ReturnTransitions(ret) :
          Start(r, IF to = "REFUNDED" THEN "return.payment" ELSE "return.claim", ret, to)
    BY <1>2 DEF ReturnUpdate
  <2>2. ret \in ReturnStatus
    BY <1>2 DEF ReturnUpdate, IInv, TypeOK
  <2> QED
    BY <2>1, <2>2 DEF Start, IInv, TypeOK
<1>3. ASSUME NEW r \in Req,
             \/ Admin(r) \/ ShipmentUpdate(r) \/ Crash(r)
             \/ ReturnStart(r) \/ ReturnCreate(r) \/ ReturnClaim(r) \/ ReturnPayment(r)
             \/ ReturnFetch(r) \/ ReturnRefund(r) \/ ReturnRefundFails(r) \/ ReturnBook(r)
      PROVE  Asked'
  <2>1. /\ \A s \in Req : s # r => req'[s] = req[s]
        /\ \/ req'[r].pc \notin ReturnRefunding \cup {"return.claim"}
           \/ /\ req[r].pc \in ReturnRefunding
              /\ req'[r].saw = req[r].saw /\ req'[r].to = req[r].to
    BY <1>3
    DEF Admin, AdminStart, AdminCheck, AdminMove, AdminLockPayment, AdminLockOrder,
        AdminFetch, AdminRefund, AdminRefundFails, AdminCommit, ShipmentUpdate, Crash,
        ReturnStart, ReturnCreate, ReturnClaim, ReturnPayment, ReturnFetch, ReturnRefund,
        ReturnRefundFails, ReturnBook, Start, Goto, Done, GotoOrDone, Idle,
        IInv, TypeOK, Local
  <2> QED
    BY <2>1
<1> QED
  BY <1>1, <1>2, <1>3 DEF Next, AtRest, Return

\* Steps that PaidOrder does not see.
LEMMA Unseen ==
  ASSUME UNCHANGED <<order, shipment, ret, money>>
  PROVE  UNCHANGED Promised!promise
  BY DEF Promised!promise

PromiseStep == Promised!Next \/ UNCHANGED Promised!promise

\* An order that goes from one paid status to a later one moves forward.
LEMMA GoesForward ==
  ASSUME NEW s \in PaidStatuses, NEW t \in PaidStatuses, Stage[s] < Stage[t]
  PROVE  Promised!Way[s] < Promised!Way[t]
  BY DEF PaidStatuses, Stage, Promised!Way

\* What a parcel says.
LEMMA ParcelSays ==
  \A p \in ShipmentStatus :
    /\ p \in Promised!Parcels
    /\ Promised!Says[p] = OrderStatusForShipment(p)
  BY DEF ShipmentStatus, Promised!Parcels, Promised!Says, OrderStatusForShipment

LEMMA SameStatuses ==
  Promised!PaidStatuses = PaidStatuses /\ Promised!OrderStatus = OrderStatus
  BY DEF Promised!PaidStatuses, Promised!OrderStatus, PaidStatuses, OrderStatus
LEMMA MoveSends ==
  ASSUME IInv, NEW r \in Req, AdminMove(r)
  PROVE  PromiseStep
<1>1. CASE ~SameStatus(r)
  BY <1>1, Unseen DEF AdminMove, PromiseStep
<1>2. CASE SameStatus(r)
  <2> DEFINE to == req[r].to
  <2>1. /\ order = req[r].saw /\ order' = to /\ shipment' = ShipmentFor(r)
        /\ order \in PaidStatuses /\ to \in Transitions(order) /\ to # "REFUNDED"
        /\ UNCHANGED <<ret, money>>
    BY <1>2 DEF AdminMove, SameStatus, IInv, AdminInv
  <2>2. to # "CANCELLED"
    BY <2>1 DEF AdminMove, IInv, AdminInv, PaidStatuses
  <2>3. to \in PaidStatuses /\ Promised!Way[order] < Promised!Way[to]
    BY <2>1, <2>2, TransitionsOfPaid, GoesForward
  <2>4. shipment' \in ShipmentStatus /\ OrderStatusForShipment(shipment') \in {"none", to}
    <3>1. CASE to \in {"SHIPPED", "DELIVERED"}
      BY <2>1, <3>1 DEF ShipmentFor, ShipmentStatus, OrderStatusForShipment
    <3>2. CASE to \notin {"SHIPPED", "DELIVERED"}
      <4>1. shipment' = shipment /\ shipment \in ShipmentStatus
        BY <2>1, <3>2 DEF ShipmentFor, IInv, TypeOK
      <4>2. order \notin {"SHIPPED", "DELIVERED", "REFUNDED"}
        BY <2>1, <3>2 DEF Transitions, PaidStatuses
      <4> QED
        BY <4>1, <4>2
        DEF IInv, ShipmentTracksOrder, ShipmentStatus, OrderStatusForShipment
    <3> QED
      BY <3>1, <3>2
  <2>5. Promised!Send(to, shipment')
    BY <2>1, <2>3, <2>4, ParcelSays, SameStatuses DEF Promised!Send, Promised!Forward
  <2> QED
    BY <2>3, <2>4, <2>5, ParcelSays, SameStatuses
    DEF PromiseStep, Promised!Next, PaidStatuses, OrderStatus
<1> QED
  BY <1>1, <1>2

LEMMA ParcelSends ==
  ASSUME IInv, NEW r \in Req, ShipmentUpdate(r)
  PROVE  PromiseStep
<1>1. PICK s \in ShipmentStatus :
        /\ GuardShipmentUpdate(order, s) # "reject"
        /\ shipment' = s
        /\ order' = GuardShipmentUpdate(order, s)
  BY DEF ShipmentUpdate
<1>2. order \in PaidStatuses \cup {"REFUNDED"} /\ UNCHANGED <<ret, money>>
  BY DEF IInv, OrderIsPaid, ShipmentUpdate
<1>3. \/ order' = order
      \/ order' \in PaidStatuses /\ order \in PaidStatuses /\ Stage[order] < Stage[order']
  BY <1>1, <1>2, ShipmentGuard
<1>4. order' = order \/ Promised!Forward(order')
  BY <1>3, GoesForward, SameStatuses DEF Promised!Forward
<1>5. OrderStatusForShipment(s) \in {"none", order'}
  BY <1>1, <1>2, ShipmentGuard DEF OrderStatusForShipment, ShipmentStatus
<1>6. Promised!Send(order', shipment')
  BY <1>1, <1>2, <1>4, <1>5, ParcelSays DEF Promised!Send
<1>7. order' \in OrderStatus
  BY <1>2, <1>3 DEF PaidStatuses, OrderStatus
<1> QED
  BY <1>1, <1>6, <1>7, ParcelSays, SameStatuses DEF PromiseStep, Promised!Next

\* A refund, with or without an answer.
LEMMA RefundGivesBack ==
  ASSUME IInv, NEW r \in Req,
         AdminRefund(r) \/ AdminRefundFails(r) \/ ReturnRefund(r) \/ ReturnRefundFails(r)
  PROVE  PromiseStep
<1>1. /\ UNCHANGED rows
      /\ money' = money \/ (money = "held" /\ money' \in {"order", "return"})
  BY DEF AdminRefund, AdminRefundFails, ReturnRefund, ReturnRefundFails
<1>2. CASE money' = money
  BY <1>1, <1>2, Unseen DEF rows, PromiseStep
<1>3. CASE money = "held" /\ money' \in {"order", "return"}
  <2>1. order \in PaidStatuses
    BY <1>3 DEF IInv, OrderIsPaid, RefundsAgree
  <2>2. Promised!GiveBack
    BY <1>1, <1>3, <2>1, SameStatuses DEF Promised!GiveBack, rows
  <2> QED
    BY <2>2 DEF PromiseStep, Promised!Next
<1> QED
  BY <1>1, <1>2, <1>3

LEMMA CommitBooks ==
  ASSUME IInv, NEW r \in Req, AdminCommit(r)
  PROVE  PromiseStep
<1>1. /\ money # "held" /\ order \in PaidStatuses \cup {"REFUNDED"}
      /\ order' = "REFUNDED" /\ UNCHANGED <<shipment, ret, money>>
  BY DEF AdminCommit, IInv, AdminInv, OrderIsPaid
<1>2. Promised!Book
  BY <1>1, SameStatuses DEF Promised!Book
<1> QED
  BY <1>2 DEF PromiseStep, Promised!Next

LEMMA ReturnSteps ==
  ASSUME IInv, Asked, NEW r \in Req, ReturnCreate(r) \/ ReturnClaim(r) \/ ReturnBook(r)
  PROVE  PromiseStep
<1>1. CASE ret' = ret /\ order' = order
  BY <1>1, Unseen DEF ReturnCreate, ReturnClaim, ReturnBook, PromiseStep
<1>2. CASE ReturnCreate(r) /\ ret' # ret
  <2>1. Promised!Request
    BY <1>2 DEF ReturnCreate, IInv, ReturnInv, Promised!Request
  <2> QED
    BY <2>1 DEF PromiseStep, Promised!Next
<1>3. CASE ReturnClaim(r) /\ ret' # ret
  <2>1. /\ ret = req[r].saw /\ ret' = req[r].to /\ ret \in ReturnStatus
        /\ ret' \in ReturnTransitions(ret) /\ ret' # "REFUNDED"
        /\ UNCHANGED <<order, shipment, money>>
    BY <1>3 DEF ReturnClaim, Unchanged, IInv, ReturnInv, Asked, Asks
  <2>2. <<ret, ret'>> \in Promised!Rulings /\ ret' \in {"APPROVED", "RECEIVED", "REJECTED"}
    BY <2>1, Rulings
  <2>3. Promised!Rule(ret')
    BY <2>1, <2>2 DEF Promised!Rule
  <2> QED
    BY <2>2, <2>3 DEF PromiseStep, Promised!Next
<1>4. CASE ReturnBook(r) /\ ~(ret' = ret /\ order' = order)
  <2>1. /\ ret = req[r].saw /\ ret' = "REFUNDED" /\ ret \in ReturnStatus
        /\ "REFUNDED" \in ReturnTransitions(ret) /\ money # "held"
        /\ order \in PaidStatuses \cup {"REFUNDED"} /\ order' = "REFUNDED"
        /\ UNCHANGED <<shipment, money>>
    BY <1>4 DEF ReturnBook, Unchanged, IInv, OrderIsPaid, ReturnInv, Asked, Asks
  <2>2. ret \in Promised!Accepted
    BY <2>1, Rulings
  <2>3. Promised!Book
    BY <2>1, <2>2, SameStatuses DEF Promised!Book
  <2> QED
    BY <2>3 DEF PromiseStep, Promised!Next
<1> QED
  BY <1>1, <1>2, <1>3, <1>4 DEF ReturnCreate, ReturnClaim

LEMMA StepKeepsPromise ==
  ASSUME IInv, Asked, [Next]_vars
  PROVE  PromiseStep
<1>1. CASE UNCHANGED vars
  BY <1>1, Unseen DEF vars, PromiseStep
<1>2. ASSUME NEW r \in Req,
             \/ AdminStart(r) \/ AdminCheck(r) \/ AdminLockPayment(r) \/ AdminLockOrder(r)
             \/ AdminFetch(r) \/ Crash(r)
             \/ ReturnStart(r) \/ ReturnUpdate(r) \/ ReturnPayment(r) \/ ReturnFetch(r)
      PROVE  PromiseStep
  BY <1>2, Unseen
  DEF AdminStart, AdminCheck, AdminLockPayment, AdminLockOrder, AdminFetch, Crash,
      ReturnStart, ReturnUpdate, ReturnPayment, ReturnFetch, rows, PromiseStep
<1>3. ASSUME NEW r \in Req,
             \/ AdminMove(r) \/ AdminRefund(r) \/ AdminRefundFails(r) \/ AdminCommit(r)
             \/ ShipmentUpdate(r) \/ ReturnCreate(r) \/ ReturnClaim(r) \/ ReturnRefund(r)
             \/ ReturnRefundFails(r) \/ ReturnBook(r)
      PROVE  PromiseStep
  BY <1>3, MoveSends, ParcelSends, RefundGivesBack, CommitBooks, ReturnSteps
<1> QED
  BY <1>1, <1>2, <1>3 DEF Next, Admin, Return, AtRest

\* updateStatus, ShipmentsService.update and ReturnsService, any number of them at
\* once and interrupted anywhere, implement PaidOrder: whatever they read too
\* early, each of their writes is one that somebody could have made at that moment.
THEOREM FulfilmentKeepsPromise == Spec => HandledAtOnce
<1>1. Init => Promised!Init
  BY DEF Init, Promised!Init
<1>2. IInv /\ Asked /\ [Next]_vars => [Promised!Next]_(Promised!promise)
  BY StepKeepsPromise DEF PromiseStep
<1>3. Spec => Promised!Spec
  BY <1>1, <1>2, AskedInit, AskedNext, Invariance, PTL DEF Spec, Promised!Spec
<1> QED
  BY <1>3 DEF HandledAtOnce
=============================================================================
