----------------------------- MODULE PaidOrder ------------------------------
(***************************************************************************)
(* What the shop promises about an order that has been paid, as if each    *)
(* administrator, carrier and customer acted at one moment: the order only *)
(* moves forward, its parcel is never ahead of it, a return follows its    *)
(* table, the money goes back once and before the order is booked as       *)
(* refunded, and nothing cancels the order.  There are no locks, no reads  *)
(* that age and no payment row.  Module Fulfilment is shown to implement   *)
(* it.                                                                     *)
(***************************************************************************)
EXTENDS Naturals, Orders

VARIABLES
  status,   \* of the order
  parcel,   \* of the shipment
  claim,    \* of the return, or "none"
  money     \* "held" by the shop or "returned"

promise == <<status, parcel, claim, money>>

Parcels == {"PENDING", "LABEL_CREATED", "SHIPPED", "IN_TRANSIT", "DELIVERED", "EXCEPTION"}

\* How far an order is, and the order that a parcel speaks of.
Way == [CONFIRMED |-> 1, PROCESSING |-> 2, READY_TO_SHIP |-> 3, SHIPPED |-> 4, DELIVERED |-> 5]
Says == [p \in Parcels |-> CASE p \in {"SHIPPED", "IN_TRANSIT"} -> "SHIPPED"
                             [] p = "DELIVERED" -> "DELIVERED"
                             [] OTHER -> "none"]

\* What may become of a return without a refund, and from where it is refunded.
Rulings == {<<"REQUESTED", "APPROVED">>, <<"APPROVED", "RECEIVED">>} \cup
           {"REQUESTED", "APPROVED", "RECEIVED"} \X {"REJECTED"}
Accepted == {"APPROVED", "RECEIVED"}

Init == status = "CONFIRMED" /\ parcel = "PENDING" /\ claim = "none" /\ money = "held"

Forward(s) == {status, s} \subseteq PaidStatuses /\ Way[status] < Way[s]

\* By an administrator or the carrier; the order may also stay as it is.
Send(s, p) ==
  /\ s = status \/ Forward(s)
  /\ Says[p] \in {"none", s}
  /\ status' = s /\ parcel' = p
  /\ UNCHANGED <<claim, money>>

\* The order may be refunded while the customer is asking.
Request ==
  /\ claim = "none" /\ status \in {"DELIVERED", "REFUNDED"}
  /\ claim' = "REQUESTED"
  /\ UNCHANGED <<status, parcel, money>>

Rule(c) ==
  /\ <<claim, c>> \in Rulings
  /\ claim' = c
  /\ UNCHANGED <<status, parcel, money>>

\* An administrator's refund, or that of a return, which may be rejected at the
\* same time; it is booked later, or not, when its answer is lost.
GiveBack ==
  /\ money = "held" /\ status \in PaidStatuses
  /\ money' = "returned"
  /\ UNCHANGED <<status, parcel, claim>>

Book ==
  /\ money = "returned" /\ status \in PaidStatuses \cup {"REFUNDED"}
  /\ status' = "REFUNDED"
  /\ claim' = claim \/ (claim \in Accepted /\ claim' = "REFUNDED")
  /\ UNCHANGED <<parcel, money>>

Next ==
  \/ \E s \in OrderStatus, p \in Parcels : Send(s, p)
  \/ Request \/ GiveBack \/ Book
  \/ \E c \in {"APPROVED", "RECEIVED", "REJECTED"} : Rule(c)

Spec == Init /\ [][Next]_promise
=============================================================================
