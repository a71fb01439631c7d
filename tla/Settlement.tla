----------------------------- MODULE Settlement -----------------------------
(***************************************************************************)
(* What the shop promises about the money of one order, as if each capture *)
(* and each decision were booked at one moment: an order is confirmed once *)
(* with money the shop holds, moves as the table of statuses allows and    *)
(* gives its coupon use back as it is cancelled unpaid; the money that     *)
(* confirmed it goes back only if the order is not being fulfilled or an   *)
(* administrator has decided to refund it, which keeps the order as it is  *)
(* meanwhile.  There are no handlers, locks, payment rows or attempts.     *)
(* Module OrderPayment is shown to implement it where nobody cancels or    *)
(* retries a payment.                                                      *)
(***************************************************************************)
EXTENDS Integers, Orders

CONSTANTS
  RzpOrder,     \* the payments a customer can make for the order
  OtherUses     \* uses of the order's coupon that belong to other orders

VARIABLES
  status,       \* of the order
  uses,         \* of the coupon
  money,        \* of each payment: "none", "held" by the shop, or "returned"
  payers,       \* the payments that confirmed the order
  deciding      \* a refund of the order is decided and not yet booked

ledger == <<status, uses, money, payers, deciding>>

Init ==
  /\ status = "PENDING_PAYMENT" /\ uses = OtherUses + 1
  /\ money = [o \in RzpOrder |-> "none"]
  /\ payers = {} /\ ~deciding

Pay(o) ==
  /\ money[o] = "none"
  /\ money' = [money EXCEPT ![o] = "held"]
  /\ UNCHANGED <<status, uses, payers, deciding>>

\* A capture that was under way may revive an order cancelled meanwhile, but
\* not one that has been refunded.
Confirm(o) ==
  /\ payers = {} /\ money[o] = "held" /\ ~deciding /\ status # "REFUNDED"
  /\ status' = "CONFIRMED" /\ payers' = {o}
  /\ UNCHANGED <<uses, money, deciding>>

Move(s) ==
  /\ ~deciding /\ s \in Transitions(status) \ {"REFUNDED"}
  /\ status' = s
  /\ uses' = IF status = "PENDING_PAYMENT" /\ s = "CANCELLED" THEN uses - 1 ELSE uses
  /\ UNCHANGED <<money, payers, deciding>>

Decide ==
  /\ ~deciding /\ "REFUNDED" \in Transitions(status)
  /\ deciding' = TRUE
  /\ UNCHANGED <<status, uses, money, payers>>

GiveUp ==
  /\ deciding /\ deciding' = FALSE
  /\ UNCHANGED <<status, uses, money, payers>>

\* The decision may be lost as soon as the money has gone.
Return(o) ==
  /\ money[o] = "held" /\ status # "PENDING_PAYMENT"
  /\ o \in payers /\ status \in PaidStatuses => deciding
  /\ money' = [money EXCEPT ![o] = "returned"]
  /\ deciding' \in {deciding, FALSE}
  /\ UNCHANGED <<status, uses, payers>>

Refund ==
  /\ deciding /\ \A o \in payers : money[o] = "returned"
  /\ status' = "REFUNDED" /\ deciding' = FALSE
  /\ UNCHANGED <<uses, money, payers>>

Next ==
  \/ \E o \in RzpOrder : Pay(o) \/ Confirm(o) \/ Return(o)
  \/ \E s \in OrderStatus : Move(s)
  \/ Decide \/ GiveUp \/ Refund

Spec == Init /\ [][Next]_ledger
=============================================================================
