----------------------------- MODULE CouponBook -----------------------------
(***************************************************************************)
(* What createFromCart promises about the orders that claim the shop's one *)
(* coupon, as if one order were placed at a time: a customer has one order *)
(* under an idempotency key, and an order gets the coupon only while its   *)
(* limits, counted over the orders there are at that moment, leave a use.  *)
(* There is no counter, no lock and no call that is half way through.      *)
(*                                                                         *)
(* An order does not always stay what it was placed as.  A capture may     *)
(* revive a cancelled order, which no limit then counts, and the payment   *)
(* dialog may end an order in any status and give its use back again.      *)
(* Both are part of the book, because nothing in the code prevents them.   *)
(* Module Checkout is shown to implement it.                               *)
(***************************************************************************)
EXTENDS Naturals, FiniteSets

CONSTANTS
  Customer,
  Key,          \* idempotency keys
  OrderId,      \* the ids of the orders that can be created
  None,         \* no key, no order
  UsageLimit,   \* Promotion.usageLimit
  UsageLimitPerUser

VARIABLES
  book,      \* the orders, None where an id is free
  returned,  \* the orders that gave their use of the coupon back
  strays,    \* how often a use was given back once more
  revived    \* the orders confirmed after they were cancelled

history == <<returned, strays, revived>>
vars == <<book, returned, strays, revived>>

Kept == {o \in OrderId : book[o] # None}
Redeeming == {o \in Kept : book[o].coupon}

\* The orders that stand against the limit of a customer.
Standing(c) ==
  {o \in Redeeming \ revived : /\ book[o].customer = c
                               /\ book[o].status \notin {"CANCELLED", "REFUNDED"}}

Init ==
  /\ book = [o \in OrderId |-> None]
  /\ returned = {} /\ strays = 0 /\ revived = {}

KeyIsFree(c, k) ==
  k # None => \A o \in Kept : ~(book[o].customer = c /\ book[o].key = k)

\* What was given back once more can be used once more.
UseIsLeft(c) ==
  /\ Cardinality(Redeeming \ returned) < UsageLimit + strays
  /\ Cardinality(Standing(c)) < UsageLimitPerUser

NewOrder == [customer : Customer, key : Key \cup {None}, coupon : BOOLEAN,
             status : {"PENDING_PAYMENT"}]

Place(o) ==
  /\ o \notin Kept
  /\ book'[o] \in NewOrder
  /\ KeyIsFree(book'[o].customer, book'[o].key)
  /\ book'[o].coupon => UseIsLeft(book'[o].customer)
  /\ book' = [book EXCEPT ![o] = book'[o]]
  /\ UNCHANGED history

Move(o, s) == book' = [book EXCEPT ![o].status = s]

\* An order ends and gives its use back: an unpaid one, or, by a payment dialog
\* that saw it unpaid, one in any status, which may have given it back before.
Cancel(o) ==
  /\ Move(o, "CANCELLED")
  /\ IF book[o].coupon
     THEN /\ returned' = returned \cup {o}
          /\ strays' = IF o \in returned THEN strays + 1 ELSE strays
     ELSE UNCHANGED <<returned, strays>>
  /\ UNCHANGED revived

\* A confirmed order ends and keeps its use.
End(o) ==
  /\ book[o].status = "CONFIRMED"
  /\ Move(o, "CANCELLED") \/ Move(o, "REFUNDED")
  /\ UNCHANGED history

\* A cancelled order can be revived by a capture that came too late to see it.
Confirm(o) ==
  /\ book[o].status # "REFUNDED"
  /\ Move(o, "CONFIRMED")
  /\ revived' = IF book[o].status = "CANCELLED" THEN revived \cup {o} ELSE revived
  /\ UNCHANGED <<returned, strays>>

Next ==
  \E o \in OrderId :
    \/ Place(o)
    \/ o \in Kept /\ (Cancel(o) \/ End(o) \/ Confirm(o))

Spec == Init /\ [][Next]_vars
=============================================================================
