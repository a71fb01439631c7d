------------------------------ MODULE Checkout ------------------------------
(***************************************************************************)
(* OrdersService.createFromCart, called by several customers at once and   *)
(* more than once with the same idempotency key, with and without the      *)
(* shop's one coupon; and what happens to an order afterwards, by a        *)
(* capture, the payment dialog, the expiry or an administrator, as far as  *)
(* the coupon is concerned.                                                *)
(*                                                                         *)
(* A step is one statement, or the statements of the transaction that run  *)
(* under a lock taken in an earlier step up to the commit.  What the       *)
(* transaction writes shows at its commit only.  A capture and the payment *)
(* dialog write an order by its id, after a read that takes no lock.       *)
(*                                                                         *)
(* An operator whose name starts with Bug is the operator that follows it  *)
(* with a plausible mistake; no specification uses it.                     *)
(***************************************************************************)
EXTENDS Naturals, FiniteSets

CONSTANTS
  Req,          \* calls that can be in flight together
  Customer,
  Key,          \* idempotency keys
  OrderId,      \* the ids of the orders that can be created
  None,         \* no key, no order, no holder of a lock, nobody's call
  UsageLimit,   \* Promotion.usageLimit
  UsageLimitPerUser

ASSUME NoneAssumption == None \notin Req \cup Customer \cup Key
ASSUME LimitAssumption == UsageLimit \in Nat /\ UsageLimitPerUser \in Nat

VARIABLES
  orders,     \* the committed orders, None where an id is free
  usage,      \* Promotion.usageCount
  promoLock,  \* the transaction that holds SELECT ... FOR UPDATE on Promotion
  req,        \* program counter and arguments of every call
  returned,   \* history: the orders whose use has been given back
  strays,     \* history: uses given back once more for an order that had
  revived     \* history: the orders confirmed after they were cancelled

history == <<returned, strays, revived>>
vars == <<orders, usage, promoLock, req, returned, strays, revived>>

\* The abstract specification that the orders are shown to implement.
Book == INSTANCE CouponBook WITH book <- orders

\* CONFIRMED stands for every status from CONFIRMED to DELIVERED.
Status == {"PENDING_PAYMENT", "CONFIRMED", "CANCELLED", "REFUNDED"}
Order == [customer : Customer, key : Key \cup {None}, coupon : BOOLEAN,
          status : Status]
ASSUME OrderAssumption == None \notin Order

PC == {"idle", "find", "quote", "quote.uses", "tx", "tx.find", "lock", "count",
       "place", "collided", "refused", "capture", "dismiss"}
Local == [pc : PC, customer : Customer \cup {None}, key : Key \cup {None},
          coupon : BOOLEAN, order : OrderId \cup {None}]
Idle == [pc |-> "idle", customer |-> None, key |-> None, coupon |-> FALSE,
         order |-> None]

TypeOK ==
  /\ orders \in [OrderId -> Order \cup {None}]
  /\ usage \in Nat
  /\ promoLock \in Req \cup {None}
  /\ req \in [Req -> Local]
  /\ returned \subseteq OrderId
  /\ strays \in Nat
  /\ revived \subseteq OrderId

Init ==
  /\ orders = [o \in OrderId |-> None]
  /\ usage = 0
  /\ promoLock = None
  /\ req = [r \in Req |-> Idle]
  /\ returned = {} /\ strays = 0 /\ revived = {}

-----------------------------------------------------------------------------

At(r, l) == req[r].pc = l
Goto(r, l) == req' = [req EXCEPT ![r].pc = l]
Done(r) == req' = [req EXCEPT ![r] = Idle]
Writable(r) == promoLock \in {None, r}
Unlock(r) == promoLock' = IF promoLock = r THEN None ELSE promoLock

Placed == {o \in OrderId : orders[o] # None}
WithCoupon == {o \in Placed : orders[o].coupon}
Uses == {o \in WithCoupon : orders[o].status # "CANCELLED"}
UsesOf(c) ==
  {o \in WithCoupon : /\ orders[o].customer = c
                      /\ orders[o].status \notin {"CANCELLED", "REFUNDED"}}

\* The customer's order under this key, which (userId, idempotencyKey) makes
\* unique.
Same(r) ==
  {o \in Placed : /\ req[r].key # None
                  /\ orders[o].key = req[r].key
                  /\ orders[o].customer = req[r].customer}

\* order.count over the customer's orders with the coupon.
CustomerUses(r) == Cardinality(UsesOf(req[r].customer))

\* The call answers: with an order, or with an error that is not about the
\* coupon (another total than quoted, an empty or changed cart, an address or a
\* coupon that is gone).  A transaction that answers an error is rolled back.
Answer(r) == Done(r) /\ Unlock(r)
TurnedAway(r) ==
  /\ req[r].pc \in {"quote", "quote.uses", "tx", "place"}
  /\ Answer(r)
  /\ UNCHANGED <<orders, usage, history>>

-----------------------------------------------------------------------------
(* createFromCart *)

Start(r) ==
  /\ At(r, "idle")
  /\ \E c \in Customer, k \in Key \cup {None}, b \in BOOLEAN :
       req' = [req EXCEPT ![r] =
                 [pc |-> IF k = None THEN "quote" ELSE "find", customer |-> c,
                  key |-> k, coupon |-> b, order |-> None]]
  /\ UNCHANGED <<orders, usage, promoLock, history>>

Find(r) ==
  /\ At(r, "find")
  /\ IF Same(r) # {} THEN Done(r) ELSE Goto(r, "quote")
  /\ UNCHANGED <<orders, usage, promoLock, history>>

\* PricingService.calculate: the coupon's own limit, then the customer's.
Quote(r) ==
  /\ At(r, "quote")
  /\ Goto(r, IF ~req[r].coupon THEN "tx"
             ELSE IF usage >= UsageLimit THEN "refused" ELSE "quote.uses")
  /\ UNCHANGED <<orders, usage, promoLock, history>>

QuoteUses(r) ==
  /\ At(r, "quote.uses")
  /\ Goto(r, IF CustomerUses(r) >= UsageLimitPerUser THEN "refused" ELSE "tx")
  /\ UNCHANGED <<orders, usage, promoLock, history>>

\* A use of the coupon is claimed under the Promotion lock.
Claiming(r) == IF req[r].coupon THEN "lock" ELSE "place"

\* The cart and the address are read again ...
Tx(r) ==
  /\ At(r, "tx")
  /\ Goto(r, IF req[r].key # None THEN "tx.find" ELSE Claiming(r))
  /\ UNCHANGED <<orders, usage, promoLock, history>>

\* ... and the key is looked for again.
TxFind(r) ==
  /\ At(r, "tx.find")
  /\ IF Same(r) # {} THEN Done(r) ELSE Goto(r, Claiming(r))
  /\ UNCHANGED <<orders, usage, promoLock, history>>

BugReadsWithoutLock(r) == Goto(r, "count") /\ UNCHANGED promoLock
TakeLock(r) == promoLock = None /\ promoLock' = r /\ Goto(r, "count")

LockPromotion(r) ==
  /\ At(r, "lock")
  /\ TakeLock(r)
  /\ UNCHANGED <<orders, usage, history>>

Count(r) ==
  /\ At(r, "count")
  /\ IF CustomerUses(r) >= UsageLimitPerUser
     THEN Goto(r, "refused") /\ Unlock(r)
     ELSE Goto(r, "place") /\ UNCHANGED promoLock
  /\ UNCHANGED <<orders, usage, history>>

BugNoLimit(r) == TRUE
\* The where clause of the claim.
UseLeft(r) == usage < UsageLimit

BugKeepsClaim(r) == usage' = IF req[r].coupon THEN usage + 1 ELSE usage
RollBack(r) == UNCHANGED usage

BugUnchecked(r) == FALSE
BugSharedKey(r) == \E o \in Placed : orders[o].key = req[r].key /\ req[r].key # None
Collides(r) == Same(r) # {}

\* The conditional claim of a use, the insertion with its unique key, the
\* commit.
Place(r) ==
  /\ At(r, "place") /\ (req[r].coupon => UseLeft(r) /\ Writable(r)) /\ ~Collides(r)
  /\ \E o \in OrderId \ Placed :
       orders' = [orders EXCEPT ![o] =
                    [customer |-> req[r].customer, key |-> req[r].key,
                     coupon |-> req[r].coupon, status |-> "PENDING_PAYMENT"]]
  /\ usage' = IF req[r].coupon THEN usage + 1 ELSE usage
  /\ Answer(r)
  /\ UNCHANGED history

PlaceUsedUp(r) ==
  /\ At(r, "place") /\ req[r].coupon /\ ~UseLeft(r)
  /\ Goto(r, "refused") /\ Unlock(r)
  /\ UNCHANGED <<orders, usage, history>>

\* P2002: everything is rolled back ...
PlaceCollides(r) ==
  /\ At(r, "place") /\ (req[r].coupon => UseLeft(r) /\ Writable(r)) /\ Collides(r)
  /\ RollBack(r)
  /\ Goto(r, "collided") /\ Unlock(r)
  /\ UNCHANGED <<orders, history>>

\* ... and the order of the other call is the answer.
FindCollided(r) ==
  /\ At(r, "collided") /\ Same(r) # {}
  /\ Done(r)
  /\ UNCHANGED <<orders, usage, promoLock, history>>

\* The answer that the coupon is used up, by this customer or by all.
Refuse(r) ==
  /\ At(r, "refused")
  /\ Done(r)
  /\ UNCHANGED <<orders, usage, promoLock, history>>

\* The process dies or the transaction times out.
Crash(r) ==
  /\ ~At(r, "idle")
  /\ Answer(r)
  /\ UNCHANGED <<orders, usage, history>>

-----------------------------------------------------------------------------
(* What happens to an order, as far as the coupon sees it.  Whether there is  *)
(* money behind it is the matter of module OrderPayment, so a step here is    *)
(* one that some payment allows.                                              *)

SetStatus(o, s) == orders' = [orders EXCEPT ![o].status = s]

BugReleasesAlways(o) == usage' = usage - 1 /\ UNCHANGED <<returned, strays>>
\* releasePromotionUsage; without a use to give back it throws, and the
\* cancellation is rolled back.
ReleaseUse(o) ==
  IF orders[o].coupon
  THEN /\ usage > 0 /\ usage' = usage - 1
       /\ returned' = returned \cup {o}
       /\ strays' = IF o \in returned THEN strays + 1 ELSE strays
  ELSE UNCHANGED <<usage, returned, strays>>

\* The transaction of expireUnpaidOrders or of updateStatus that cancels an
\* unpaid order under its row lock; it waits for a call that claims a use.
Cancel(o) ==
  /\ orders[o].status = "PENDING_PAYMENT"
  /\ orders[o].coupon => promoLock = None
  /\ SetStatus(o, "CANCELLED")
  /\ ReleaseUse(o)
  /\ UNCHANGED <<promoLock, req, revived>>

\* updateStatus cancels an order that was confirmed by hand and is not paid; it
\* gives a use back from PENDING_PAYMENT only.
Withdraw(o) ==
  /\ orders[o].status = "CONFIRMED"
  /\ SetStatus(o, "CANCELLED")
  /\ UNCHANGED <<usage, promoLock, req, history>>

\* updateStatus, under the row lock.
ConfirmByHand(o) ==
  /\ orders[o].status = "PENDING_PAYMENT"
  /\ SetStatus(o, "CONFIRMED")
  /\ UNCHANGED <<usage, promoLock, req, history>>

\* Captures of one order follow each other: each holds the lock on its payment.
Capturing(o) == \E r \in Req : At(r, "capture") /\ req[r].order = o

\* A paid order keeps the use when its money is returned; the refund waits for
\* the lock on the payment.
Refund(o) ==
  /\ orders[o].status = "CONFIRMED" /\ ~Capturing(o)
  /\ SetStatus(o, "REFUNDED")
  /\ UNCHANGED <<usage, promoLock, req, history>>

Handle(r, l, o) == req' = [req EXCEPT ![r] = [Idle EXCEPT !.pc = l, !.order = o]]

\* applyCapturedPayment reads the order without a lock ...
CaptureRead(r) ==
  /\ At(r, "idle")
  /\ \E o \in Placed : /\ orders[o].status = "PENDING_PAYMENT" /\ ~Capturing(o)
                       /\ Handle(r, "capture", o)
  /\ UNCHANGED <<orders, usage, promoLock, history>>

\* ... and writes it by id, over a cancellation that committed meanwhile.
CaptureWrite(r) ==
  LET o == req[r].order IN
  /\ At(r, "capture")
  /\ SetStatus(o, "CONFIRMED")
  /\ revived' = IF orders[o].status = "CANCELLED" THEN revived \cup {o} ELSE revived
  /\ Done(r)
  /\ UNCHANGED <<usage, promoLock, returned, strays>>

\* The closing transaction of cancelRazorpayPayment: its unlocked read ...
DismissRead(r) ==
  /\ At(r, "idle")
  /\ \E o \in Placed : /\ orders[o].status = "PENDING_PAYMENT"
                       /\ Handle(r, "dismiss", o)
  /\ UNCHANGED <<orders, usage, promoLock, history>>

\* ... and its writes, by id.  The last of them waits for a capture, which waits
\* for the order: one of the two is rolled back.
DismissWrite(r) ==
  LET o == req[r].order IN
  /\ At(r, "dismiss")
  /\ orders[o].coupon => promoLock = None
  /\ ~Capturing(o)
  /\ ReleaseUse(o)
  /\ SetStatus(o, "CANCELLED")
  /\ Done(r)
  /\ UNCHANGED <<promoLock, revived>>

-----------------------------------------------------------------------------

Call(r) == Start(r) \/ Find(r) \/ Quote(r) \/ QuoteUses(r) \/ Tx(r) \/ TxFind(r)
           \/ LockPromotion(r) \/ Count(r) \/ Place(r) \/ PlaceUsedUp(r)
           \/ PlaceCollides(r) \/ FindCollided(r) \/ Refuse(r) \/ TurnedAway(r)
           \/ Crash(r)
Handler(r) == CaptureRead(r) \/ CaptureWrite(r) \/ DismissRead(r) \/ DismissWrite(r)
Life(o) == Cancel(o) \/ Withdraw(o) \/ ConfirmByHand(o) \/ Refund(o)

Next == (\E r \in Req : Call(r) \/ Handler(r)) \/ (\E o \in Placed : Life(o))

Spec == Init /\ [][Next]_vars

-----------------------------------------------------------------------------
(* Properties *)

\* Every use that is counted belongs to an order that was placed with the coupon
\* and has not given its use back, except those that the payment dialog gave back
\* once more.  No call that fails half way keeps a use.
UsesAreCounted == usage + strays = Cardinality(WithCoupon \ returned)

\* The orders with the coupon that are not cancelled are never more than its
\* limit, whichever calls claim the last use, but for those that a capture
\* revived, and one for every use that the payment dialog gave back once more.
LimitHolds == Cardinality(Uses \ revived) <= UsageLimit + strays

\* No customer has more orders with the coupon than one may have, but for those
\* that a capture revived, although the count and the insertion are two
\* statements.
CustomerLimitHolds ==
  \A c \in Customer : Cardinality(UsesOf(c) \ revived) <= UsageLimitPerUser

\* A call that lost the race for its key finds one order to answer with, the
\* winner's, so that no duplicate is reported to the client.
LoserFindsOrder ==
  \A r \in Req : At(r, "collided") => \E o \in Placed : Same(r) = {o}

\* Calls that read, wait for the lock, claim and insert in separate statements,
\* fail, crash and retry, change the orders as if each order were placed at one
\* moment, at which its key is free and both limits leave it a use; and captures
\* and dialogs that write what they read earlier, as if they acted at once.
PlacedAtOnce == Book!Spec

=============================================================================
