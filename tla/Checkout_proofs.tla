--------------------------- MODULE Checkout_proofs ---------------------------
(* Theorems about module Checkout, for any number of calls, customers, keys   *)
(* and orders, and any limits of the coupon.                                  *)
EXTENDS Checkout, FiniteSetTheorems, TLAPS

\* The order under a key is one order.
KeysAreUnique ==
  \A o, p \in Placed :
    /\ orders[o].key # None
    /\ orders[o].key = orders[p].key
    /\ orders[o].customer = orders[p].customer
    => o = p

\* An order that gave its use back is cancelled, or it was and a capture revived
\* it; an unpaid order still has its use.
ReturnedEnds ==
  \A o \in returned :
    /\ o \in WithCoupon
    /\ \/ orders[o].status = "CANCELLED"
       \/ o \in revived /\ orders[o].status # "PENDING_PAYMENT"

\* The orders of a customer that count against what one may have.
CountedOf(c) == UsesOf(c) \ revived

\* A call that has counted the uses of its customer still holds the lock under
\* which it did, so the customer still has a use left when it places the order.
\* A capture under way keeps its order from a refund.
CallInv ==
  \A r \in Req :
    /\ req[r].pc \notin {"idle", "capture", "dismiss"} => req[r].customer \in Customer
    /\ req[r].pc \in {"capture", "dismiss"} => req[r].order \in Placed
    /\ At(r, "capture") => orders[req[r].order].status # "REFUNDED"
    /\ At(r, "lock") => req[r].coupon
    /\ At(r, "count") => req[r].coupon /\ promoLock = r
    /\ At(r, "place") /\ req[r].coupon =>
         /\ promoLock = r
         /\ Cardinality(CountedOf(req[r].customer)) < UsageLimitPerUser

\* The counter itself is never above the limit.
CounterInLimit == usage <= UsageLimit

IInv == /\ TypeOK /\ IsFiniteSet(WithCoupon) /\ UsesAreCounted /\ CounterInLimit
        /\ ReturnedEnds /\ CustomerLimitHolds /\ KeysAreUnique /\ LoserFindsOrder
        /\ CallInv

\* The uses of one customer are among the orders with the coupon.
LEMMA UsesOfFinite ==
  ASSUME IsFiniteSet(WithCoupon), NEW c
  PROVE  /\ IsFiniteSet(UsesOf(c)) /\ IsFiniteSet(CountedOf(c))
         /\ Cardinality(UsesOf(c)) \in Nat /\ Cardinality(CountedOf(c)) \in Nat
         /\ Cardinality(CountedOf(c)) <= Cardinality(UsesOf(c))
<1>1. UsesOf(c) \subseteq WithCoupon /\ CountedOf(c) \subseteq UsesOf(c)
  BY DEF UsesOf, CountedOf
<1> QED
  BY <1>1, FS_Subset, FS_CardinalityType

LEMMA InitIInv == Init => IInv
<1> SUFFICES ASSUME Init PROVE IInv
  OBVIOUS
<1>1. Placed = {} /\ returned = {}
  BY DEF Init, Placed
<1>2. /\ WithCoupon = {} /\ WithCoupon \ returned = {}
      /\ \A c \in Customer : UsesOf(c) \ revived = {}
  BY <1>1 DEF UsesOf, WithCoupon
<1>3. IsFiniteSet({}) /\ Cardinality({}) = 0
  BY FS_EmptySet
<1>4. TypeOK
  BY DEF Init, TypeOK, Idle, Local, PC
<1>5. UsesAreCounted /\ CounterInLimit /\ CustomerLimitHolds
  BY <1>2, <1>3, LimitAssumption
     DEF Init, UsesAreCounted, CounterInLimit, CustomerLimitHolds
<1>6. KeysAreUnique /\ LoserFindsOrder /\ CallInv /\ ReturnedEnds
  BY <1>1 DEF Init, KeysAreUnique, LoserFindsOrder, CallInv, ReturnedEnds, At, Idle
<1> QED
  BY <1>2, <1>3, <1>4, <1>5, <1>6 DEF IInv

\* A step of a call that writes no order and counts no use.
LEMMA QuietStep ==
  ASSUME IInv, UNCHANGED <<orders, usage, history>>, TypeOK', CallInv', LoserFindsOrder'
  PROVE  IInv'
<1>1. /\ Placed' = Placed /\ WithCoupon' = WithCoupon
      /\ \A c \in Customer : UsesOf(c)' = UsesOf(c)
  BY DEF Placed, UsesOf, WithCoupon
<1> QED
  BY <1>1 DEF IInv, UsesAreCounted, CounterInLimit, CustomerLimitHolds,
              KeysAreUnique, ReturnedEnds, history

\* The steps that read, take the lock, or end a call without an order.
LEMMA ReadStep ==
  ASSUME IInv, NEW r \in Req,
         \/ Start(r) \/ Find(r) \/ Quote(r) \/ QuoteUses(r) \/ Tx(r) \/ TxFind(r)
         \/ LockPromotion(r) \/ Count(r) \/ PlaceUsedUp(r) \/ FindCollided(r)
         \/ Refuse(r) \/ TurnedAway(r) \/ Crash(r) \/ CaptureRead(r) \/ DismissRead(r)
  PROVE  IInv'
<1> USE NoneAssumption
    DEF IInv, TypeOK, CallInv, LoserFindsOrder, At, Goto, Done, Unlock, Answer,
        Local, PC, Handle, history
<1>0. /\ Placed' = Placed /\ orders' = orders /\ UNCHANGED <<usage, history>>
      /\ \A c : UsesOf(c)' = UsesOf(c) /\ CountedOf(c)' = CountedOf(c)
  <2>1. orders' = orders /\ UNCHANGED <<usage, history>>
    BY DEF Start, Find, Quote, QuoteUses, Tx, TxFind, LockPromotion, Count,
           PlaceUsedUp, FindCollided, Refuse, TurnedAway, Crash, CaptureRead, DismissRead
  <2> QED
    BY <2>1 DEF Placed, UsesOf, CountedOf, WithCoupon
<1>1. TypeOK'
  <2>1. req[r] \in Local /\ req \in [Req -> Local] /\ Idle \in Local
    BY DEF Idle
  <2>2. promoLock' \in Req \cup {None}
    <3>1. promoLock' \in {promoLock, None, r}
      BY DEF Start, Find, Quote, QuoteUses, Tx, TxFind, LockPromotion, Count,
             PlaceUsedUp, FindCollided, Refuse, TurnedAway, Crash, TakeLock,
             CaptureRead, DismissRead
    <3> QED
      BY <3>1
  <2>3. CASE Start(r)
    BY <1>0, <2>2, <2>3 DEF Start
  <2>4. CASE Done(r)
    BY <1>0, <2>1, <2>2, <2>4
  <2>5. ASSUME NEW l \in PC, Goto(r, l)
        PROVE  req' \in [Req -> Local]
    BY <2>1, <2>5
  <2>6. ASSUME NEW l \in PC, NEW o \in Placed, Handle(r, l, o)
        PROVE  req' \in [Req -> Local]
    <3>1. [Idle EXCEPT !.pc = l, !.order = o] \in Local
      BY <2>1, <2>6 DEF Placed
    <3> QED
      BY <2>1, <2>6, <3>1
  <2>7. \/ Start(r) \/ Done(r) \/ \E l \in PC : Goto(r, l)
        \/ \E l \in PC, o \in Placed : Handle(r, l, o)
    BY DEF Find, Quote, QuoteUses, Tx, TxFind, LockPromotion, Count, CaptureRead,
           DismissRead, PlaceUsedUp, FindCollided, Refuse, TurnedAway, Crash,
           TakeLock, Claiming
  <2> QED
    BY <1>0, <2>2, <2>3, <2>4, <2>5, <2>6, <2>7
<1>2. \A q \in Req \ {r} : req'[q] = req[q]
  BY DEF Start, Find, Quote, QuoteUses, Tx, TxFind, LockPromotion, Count, CaptureRead,
         DismissRead, PlaceUsedUp, FindCollided, Refuse, TurnedAway, Crash, TakeLock
<1>3. \A q \in Req \ {r} : promoLock = q => promoLock' = q
  BY DEF Start, Find, Quote, QuoteUses, Tx, TxFind, LockPromotion, Count, CaptureRead,
         DismissRead, PlaceUsedUp, FindCollided, Refuse, TurnedAway, Crash, TakeLock
<1>4. CASE CaptureRead(r) \/ DismissRead(r)
  <2>1. PICK l \in {"capture", "dismiss"}, o \in Placed :
          orders[o].status = "PENDING_PAYMENT" /\ Handle(r, l, o)
    BY <1>4 DEF CaptureRead, DismissRead
  <2>2. req'[r].pc = l /\ req'[r].order = o
    BY <2>1 DEF Idle
  <2>3. promoLock' = promoLock
    BY <1>4 DEF CaptureRead, DismissRead
  <2>4. LoserFindsOrder'
    BY <1>0, <1>2, <2>2 DEF Same
  <2>5. CallInv'
    BY <1>0, <1>2, <2>1, <2>2, <2>3
  <2> QED
    BY <1>0, <1>1, <2>4, <2>5, QuietStep
<1>5. CASE ~(CaptureRead(r) \/ DismissRead(r))
  <2>1. req'[r].pc \notin {"collided", "capture", "dismiss"}
    BY <1>5 DEF Start, Find, Quote, QuoteUses, Tx, TxFind, LockPromotion, Count,
       PlaceUsedUp, FindCollided, Refuse, TurnedAway, Crash, TakeLock, Claiming, Idle
  <2>2. LoserFindsOrder'
    BY <1>0, <1>2, <2>1 DEF Same
  <2>3. /\ req'[r].pc # "idle" => req'[r].customer \in Customer
        /\ req'[r].pc = "lock" => req'[r].coupon
        /\ req'[r].pc = "count" => req'[r].coupon /\ promoLock' = r
    BY <1>5 DEF Start, Find, Quote, QuoteUses, Tx, TxFind, LockPromotion, Count,
       PlaceUsedUp, FindCollided, Refuse, TurnedAway, Crash, TakeLock, Claiming, Idle
  <2>4. ASSUME req'[r].pc = "place", req'[r].coupon
        PROVE  /\ promoLock' = r
               /\ Cardinality(CountedOf(req[r].customer))' < UsageLimitPerUser
    <3>1. Count(r)
      BY <1>5, <2>4 DEF Start, Find, Quote, QuoteUses, Tx, TxFind, LockPromotion,
         Count, PlaceUsedUp, FindCollided, Refuse, TurnedAway, Crash, TakeLock,
         Claiming, Idle
    <3>2. /\ ~(CustomerUses(r) >= UsageLimitPerUser)
          /\ promoLock' = promoLock /\ req'[r].customer = req[r].customer
          /\ promoLock = r
      BY <2>4, <3>1 DEF Count
    <3>3. Cardinality(CountedOf(req[r].customer)) <= CustomerUses(r)
      BY UsesOfFinite DEF CustomerUses
    <3>4. CustomerUses(r) \in Nat /\ Cardinality(CountedOf(req[r].customer)) \in Nat
      BY UsesOfFinite DEF CustomerUses
    <3>5. Cardinality(CountedOf(req[r].customer)) < UsageLimitPerUser
      BY <3>2, <3>3, <3>4, LimitAssumption
    <3>6. CountedOf(req[r].customer)' = CountedOf(req[r].customer)
      BY <1>0, <3>2
    <3> QED
      BY <3>2, <3>5, <3>6
  <2>5. CallInv'
    BY <1>0, <1>2, <1>3, <2>1, <2>3, <2>4
  <2> QED
    BY <1>0, <1>1, <2>2, <2>5, QuietStep
<1> QED
  BY <1>4, <1>5

\* Losing the race for a key changes nothing but the call.
LEMMA CollideStep ==
  ASSUME IInv, NEW r \in Req, PlaceCollides(r)
  PROVE  IInv'
<1> USE NoneAssumption DEF IInv, TypeOK, PlaceCollides, At, Goto, Unlock, RollBack
<1>1. /\ orders' = orders /\ UNCHANGED <<usage, history>>
      /\ req' = [req EXCEPT ![r].pc = "collided"]
      /\ promoLock' = IF promoLock = r THEN None ELSE promoLock
  OBVIOUS
<1>2. TypeOK'
  BY <1>1 DEF Local, PC, history
<1>3. PICK o \in Placed : o \in Same(r)
  BY DEF Collides, Same
<1>4. Same(r) = {o}
  BY <1>3 DEF Same, KeysAreUnique
<1>5. /\ Placed' = Placed
      /\ \A c : CountedOf(c)' = CountedOf(c)
      /\ \A q \in Req : Same(q)' = Same(q)
  <2>1. \A q \in Req : req'[q].key = req[q].key /\ req'[q].customer = req[q].customer
    BY <1>1 DEF Local
  <2>2. Placed' = Placed /\ \A c : CountedOf(c)' = CountedOf(c)
    BY <1>1 DEF Placed, UsesOf, CountedOf, WithCoupon, history
  <2> QED
    BY <1>1, <2>1, <2>2 DEF Same
<1>6. LoserFindsOrder'
  BY <1>1, <1>4, <1>5 DEF LoserFindsOrder, Local
<1>7. CallInv'
  BY <1>1, <1>5 DEF CallInv, Local
<1> QED
  BY <1>1, <1>2, <1>6, <1>7, QuietStep

\* A new order is under no lock but its own call's, and under a key that no
\* other order of the customer has.
LEMMA PlaceStep ==
  ASSUME IInv, NEW r \in Req, Place(r)
  PROVE  IInv'
<1> DEFINE rec == [customer |-> req[r].customer, key |-> req[r].key,
                   coupon |-> req[r].coupon, status |-> "PENDING_PAYMENT"]
<1>1. PICK o \in OrderId \ Placed : orders' = [orders EXCEPT ![o] = rec]
  BY DEF Place
<1>2. /\ orders \in [OrderId -> Order \cup {None}]
      /\ req[r] \in Local /\ req[r].pc = "place" /\ req[r].customer \in Customer
  BY DEF IInv, TypeOK, Place, At, CallInv
<1>3. rec \in Order /\ rec # None
  BY <1>2, OrderAssumption DEF Order, Local, Status
<1>4. Placed' = Placed \cup {o} /\ o \notin Placed
  BY <1>1, <1>2, <1>3 DEF Placed
<1>5. /\ req' = [req EXCEPT ![r] = Idle]
      /\ promoLock' = IF promoLock = r THEN None ELSE promoLock
      /\ usage' = IF req[r].coupon THEN usage + 1 ELSE usage
      /\ req[r].coupon => usage < UsageLimit
      /\ Same(r) = {}
      /\ returned' = returned /\ strays' = strays /\ revived' = revived
  BY DEF Place, Answer, Done, Unlock, UseLeft, Collides, history
<1>6. orders'[o] = rec /\ \A p \in Placed : orders'[p] = orders[p]
  BY <1>1, <1>2, <1>4
<1>7. TypeOK'
  BY <1>1, <1>2, <1>3, <1>5 DEF IInv, TypeOK, Idle, Local, PC
<1>8. WithCoupon' = IF req[r].coupon THEN WithCoupon \cup {o} ELSE WithCoupon
  BY <1>4, <1>6 DEF WithCoupon
<1>9. \A c : CountedOf(c)' = IF req[r].coupon /\ req[r].customer = c
                             THEN (UsesOf(c) \cup {o}) \ revived ELSE CountedOf(c)
  BY <1>4, <1>5, <1>6 DEF CountedOf, UsesOf, WithCoupon
<1>10. o \notin WithCoupon /\ o \notin returned /\ \A c : o \notin UsesOf(c)
  BY <1>4 DEF UsesOf, WithCoupon, IInv, ReturnedEnds
<1>11. IsFiniteSet(WithCoupon)' /\ UsesAreCounted' /\ CounterInLimit'
  <2> DEFINE S == WithCoupon \ returned
  <2>1. /\ IsFiniteSet(WithCoupon) /\ usage + strays = Cardinality(S)
        /\ usage <= UsageLimit /\ usage \in Nat /\ strays \in Nat
    BY DEF IInv, UsesAreCounted, CounterInLimit, TypeOK
  <2>2. IsFiniteSet(S) /\ IsFiniteSet(WithCoupon \cup {o})
    BY <2>1, FS_Subset, FS_AddElement
  <2>3. Cardinality(S \cup {o}) = Cardinality(S) + 1
    BY <1>10, <2>2, FS_AddElement
  <2>4. (WithCoupon \ returned)' = IF req[r].coupon THEN S \cup {o} ELSE S
    BY <1>5, <1>8, <1>10
  <2>5. Cardinality(S) \in Nat
    BY <2>2, FS_CardinalityType
  <2>6. CounterInLimit'
    BY <1>5, <2>1, LimitAssumption DEF CounterInLimit
  <2>7. UsesAreCounted'
    <3>1. CASE req[r].coupon
      <4>1. Cardinality((WithCoupon \ returned)') = Cardinality(S) + 1
        BY <2>3, <2>4, <3>1
      <4> QED
        BY <1>5, <2>1, <2>5, <3>1, <4>1 DEF UsesAreCounted
    <3>2. CASE ~req[r].coupon
      BY <1>5, <2>1, <2>4, <3>2 DEF UsesAreCounted
    <3> QED
      BY <3>1, <3>2
  <2> QED
    BY <1>8, <2>1, <2>2, <2>6, <2>7
<1>12. CustomerLimitHolds'
  <2> SUFFICES ASSUME NEW c \in Customer
               PROVE  Cardinality(CountedOf(c)') <= UsageLimitPerUser
    BY DEF CustomerLimitHolds, CountedOf
  <2>1. /\ IsFiniteSet(CountedOf(c)) /\ Cardinality(CountedOf(c)) \in Nat
        /\ Cardinality(CountedOf(c)) <= UsageLimitPerUser
    BY UsesOfFinite DEF IInv, CustomerLimitHolds, CountedOf
  <2>2. CASE req[r].coupon /\ req[r].customer = c
    <3>1. Cardinality(CountedOf(c)) < UsageLimitPerUser
      BY <1>2, <2>2 DEF IInv, CallInv, At
    <3>2. Cardinality(CountedOf(c) \cup {o}) = Cardinality(CountedOf(c)) + 1
      BY <1>10, <2>1, FS_AddElement DEF CountedOf
    <3>3. CountedOf(c)' \in {CountedOf(c), CountedOf(c) \cup {o}}
      BY <1>9, <2>2 DEF CountedOf
    <3> QED
      BY <2>1, <3>1, <3>2, <3>3, LimitAssumption
  <2>3. CASE ~(req[r].coupon /\ req[r].customer = c)
    BY <1>9, <2>1, <2>3
  <2> QED
    BY <2>2, <2>3
<1>13. KeysAreUnique'
  <2>1. \A p \in Placed : ~(/\ orders[p].key # None
                            /\ orders[p].key = rec.key
                            /\ orders[p].customer = rec.customer)
    BY <1>5 DEF Same
  <2> QED
    BY <1>4, <1>6, <2>1 DEF IInv, KeysAreUnique
<1>14. \A q \in Req \ {r} : req'[q] = req[q]
  BY <1>5 DEF IInv, TypeOK
<1>15. req'[r] = Idle
  BY <1>5 DEF IInv, TypeOK
<1>16. LoserFindsOrder'
  <2> SUFFICES ASSUME NEW q \in Req, req'[q].pc = "collided"
               PROVE  \E p \in Placed' : Same(q)' = {p}
    BY DEF LoserFindsOrder, At
  <2>1. q # r
    BY <1>15 DEF Idle
  <2>2. PICK p \in Placed : Same(q) = {p}
    BY <1>14, <2>1 DEF IInv, LoserFindsOrder, At
  <2>3. p \in Same(q)'
    BY <1>4, <1>6, <1>14, <2>1, <2>2 DEF Same
  <2>4. \A s \in Same(q)' : s = p
    BY <1>13, <2>3 DEF Same, KeysAreUnique
  <2> QED
    BY <1>4, <2>3, <2>4
<1>17. CallInv'
  <2>1. ASSUME NEW q \in Req \ {r}, req[q].pc = "place", req[q].coupon
        PROVE  CountedOf(req[q].customer)' = CountedOf(req[q].customer)
    <3>1. ~req[r].coupon
      BY <1>2, <2>1 DEF IInv, CallInv, At
    <3>2. req'[q].customer = req[q].customer
      BY <1>14
    <3> QED
      BY <1>9, <3>1, <3>2
  <2>2. \A q \in Req \ {r} : promoLock = q => promoLock' = q
    BY <1>5
  <2>3. ASSUME NEW q \in Req \ {r}, req[q].pc \in {"capture", "dismiss"}
        PROVE  /\ req'[q].order \in Placed'
               /\ orders'[req'[q].order] = orders[req[q].order]
    BY <1>4, <1>6, <1>14, <2>3 DEF IInv, CallInv
  <2> QED
    BY <1>14, <1>15, <2>1, <2>2, <2>3 DEF IInv, CallInv, At, Idle
<1>18. ReturnedEnds'
  BY <1>4, <1>5, <1>6, <1>8 DEF IInv, ReturnedEnds, WithCoupon
<1> QED
  BY <1>7, <1>11, <1>12, <1>13, <1>16, <1>17, <1>18 DEF IInv

-----------------------------------------------------------------------------
(* The writes to an order that was placed are of three kinds, whoever makes   *)
(* them.                                                                      *)

GivesBack(o) ==
  SetStatus(o, "CANCELLED") /\ ReleaseUse(o) /\ revived' = revived

Keeps(o) ==
  /\ orders[o].status = "CONFIRMED"
  /\ \/ SetStatus(o, "CANCELLED")
     \/ SetStatus(o, "REFUNDED") /\ ~Capturing(o)
  /\ UNCHANGED <<usage, returned, strays, revived>>

Confirms(o) ==
  /\ orders[o].status # "REFUNDED"
  /\ SetStatus(o, "CONFIRMED")
  /\ revived' = IF orders[o].status = "CANCELLED" THEN revived \cup {o} ELSE revived
  /\ UNCHANGED <<usage, returned, strays>>

LEMMA WriteStep ==
  ASSUME IInv, NEW o \in Placed, GivesBack(o) \/ Keeps(o) \/ Confirms(o),
         promoLock' = promoLock, req' \in [Req -> Local],
         \A q \in Req : req'[q] \in {req[q], Idle}
  PROVE  IInv'
<1>1. orders \in [OrderId -> Order \cup {None}] /\ o \in OrderId /\ orders[o] \in Order
  BY DEF IInv, TypeOK, Placed
<1>2. PICK s \in {"CANCELLED", "CONFIRMED", "REFUNDED"} :
        orders' = [orders EXCEPT ![o].status = s]
  BY DEF GivesBack, Keeps, Confirms, SetStatus
<1>3. /\ orders' \in [OrderId -> Order \cup {None}]
      /\ orders'[o] \in Order /\ orders'[o].status = s
      /\ orders'[o].customer = orders[o].customer
      /\ orders'[o].key = orders[o].key /\ orders'[o].coupon = orders[o].coupon
      /\ \A p \in OrderId \ {o} : orders'[p] = orders[p]
  BY <1>1, <1>2 DEF Order, Status
<1>4. Placed' = Placed /\ WithCoupon' = WithCoupon
  BY <1>1, <1>3, OrderAssumption DEF Placed, WithCoupon
<1>5. KeysAreUnique'
  BY <1>3, <1>4 DEF IInv, KeysAreUnique, Placed
<1>6. LoserFindsOrder'
  <2> SUFFICES ASSUME NEW q \in Req, req'[q].pc = "collided"
               PROVE  \E p \in Placed : Same(q)' = {p}
    BY <1>4 DEF LoserFindsOrder, At
  <2>1. req'[q] = req[q]
    BY DEF Idle
  <2>2. Same(q)' = Same(q)
    BY <1>3, <1>4, <2>1 DEF Same, Placed
  <2> QED
    BY <2>1, <2>2 DEF IInv, LoserFindsOrder, At
<1>7. /\ usage \in Nat /\ strays \in Nat /\ usage <= UsageLimit
      /\ usage + strays = Cardinality(WithCoupon \ returned)
      /\ IsFiniteSet(WithCoupon) /\ returned \subseteq OrderId /\ revived \subseteq OrderId
  BY DEF IInv, TypeOK, UsesAreCounted, CounterInLimit
<1>8. /\ usage' \in Nat /\ strays' \in Nat /\ usage' <= UsageLimit
      /\ usage' + strays' = Cardinality(WithCoupon \ returned')
      /\ returned' \subseteq OrderId
  <2> DEFINE S == WithCoupon \ returned
  <2>1. CASE GivesBack(o) /\ orders[o].coupon /\ o \notin returned
    <3>1. o \in S /\ WithCoupon \ returned' = S \ {o}
      BY <2>1 DEF GivesBack, ReleaseUse, WithCoupon
    <3>2. Cardinality(S \ {o}) = Cardinality(S) - 1
      BY <1>7, <3>1, FS_Subset, FS_RemoveElement
    <3>3. usage > 0 /\ usage' = usage - 1 /\ strays' = strays
          /\ returned' = returned \cup {o}
      BY <2>1 DEF GivesBack, ReleaseUse
    <3>4. usage' \in Nat /\ strays' \in Nat /\ usage' <= UsageLimit
      BY <1>7, <3>3, LimitAssumption
    <3>5. usage' + strays' = Cardinality(S) - 1
      BY <1>7, <3>3
    <3> QED
      BY <1>1, <1>7, <3>1, <3>2, <3>3, <3>4, <3>5
  <2>2. CASE GivesBack(o) /\ orders[o].coupon /\ o \in returned
    <3>1. usage > 0 /\ usage' = usage - 1 /\ strays' = strays + 1
          /\ returned' = returned
      BY <2>2 DEF GivesBack, ReleaseUse
    <3> QED
      BY <1>7, <3>1, LimitAssumption
  <2>3. CASE UNCHANGED <<usage, returned, strays>>
    BY <1>7, <2>3
  <2> QED
    BY <2>1, <2>2, <2>3 DEF GivesBack, ReleaseUse, Keeps, Confirms
<1>9. revived \subseteq revived' /\ revived' \subseteq OrderId
  BY <1>1, <1>7 DEF GivesBack, Keeps, Confirms
<1>10. TypeOK'
  BY <1>3, <1>8, <1>9 DEF IInv, TypeOK
<1>11. ReturnedEnds'
  <2> SUFFICES ASSUME NEW p \in returned'
               PROVE  /\ p \in WithCoupon
                      /\ \/ orders'[p].status = "CANCELLED"
                         \/ p \in revived' /\ orders'[p].status # "PENDING_PAYMENT"
    BY <1>4 DEF ReturnedEnds
  <2>1. CASE p # o
    <3>1. p \in returned
      BY <2>1 DEF GivesBack, ReleaseUse, Keeps, Confirms
    <3> QED
      BY <1>3, <1>7, <1>9, <2>1, <3>1 DEF IInv, ReturnedEnds
  <2>2. CASE p = o
    <3>1. CASE GivesBack(o)
      <4>1. orders[o].coupon \/ o \in returned
        BY <2>2, <3>1 DEF GivesBack, ReleaseUse
      <4>2. o \in WithCoupon
        BY <4>1 DEF IInv, ReturnedEnds, WithCoupon
      <4> QED
        BY <1>1, <2>2, <3>1, <4>2 DEF GivesBack, SetStatus
    <3>2. CASE Keeps(o) \/ Confirms(o)
      <4>1. o \in returned
        BY <2>2, <3>2 DEF Keeps, Confirms
      <4>2. /\ o \in WithCoupon
            /\ \/ orders[o].status = "CANCELLED"
               \/ o \in revived /\ orders[o].status # "PENDING_PAYMENT"
        BY <4>1 DEF IInv, ReturnedEnds
      <4>3. o \in revived'
        BY <3>2, <4>2 DEF Keeps, Confirms
      <4> QED
        BY <1>3, <2>2, <4>2, <4>3
    <3> QED
      BY <3>1, <3>2
  <2> QED
    BY <2>1, <2>2
<1>12. \A c : CountedOf(c)' \subseteq CountedOf(c)
  <2> SUFFICES ASSUME NEW c, NEW p \in CountedOf(c)' PROVE p \in CountedOf(c)
    OBVIOUS
  <2>1. /\ p \in WithCoupon /\ p \notin revived' /\ orders'[p].customer = c
        /\ orders'[p].status \notin {"CANCELLED", "REFUNDED"}
    BY <1>4 DEF CountedOf, UsesOf
  <2>2. p \notin revived
    BY <1>9, <2>1
  <2>3. CASE p # o
    BY <1>3, <2>1, <2>2, <2>3 DEF CountedOf, UsesOf, WithCoupon, Placed
  <2>4. CASE p = o
    <3>1. Confirms(o)
      <4>1. ~SetStatus(o, "CANCELLED") /\ ~SetStatus(o, "REFUNDED")
        BY <1>1, <2>1, <2>4 DEF SetStatus, Order
      <4> QED
        BY <4>1 DEF GivesBack, Keeps
    <3>2. orders[o].status \notin {"CANCELLED", "REFUNDED"}
      BY <2>1, <2>4, <3>1 DEF Confirms
    <3> QED
      BY <1>3, <2>1, <2>2, <2>4, <3>2 DEF CountedOf, UsesOf
  <2> QED
    BY <2>3, <2>4
<1>13. \A c : /\ Cardinality(CountedOf(c)) \in Nat /\ Cardinality(CountedOf(c)') \in Nat
              /\ Cardinality(CountedOf(c)') <= Cardinality(CountedOf(c))
  BY <1>7, <1>12, UsesOfFinite, FS_Subset, FS_CardinalityType
<1>14. CustomerLimitHolds'
  <2> SUFFICES ASSUME NEW c \in Customer
               PROVE  Cardinality(CountedOf(c)') <= UsageLimitPerUser
    BY DEF CustomerLimitHolds, CountedOf
  <2>1. Cardinality(CountedOf(c)) <= UsageLimitPerUser
    BY DEF IInv, CustomerLimitHolds, CountedOf
  <2> QED
    BY <1>13, <2>1, LimitAssumption
<1>15. CallInv'
  <2> SUFFICES ASSUME NEW q \in Req, req'[q] = req[q]
               PROVE  /\ req[q].pc \notin {"idle", "capture", "dismiss"} =>
                           req[q].customer \in Customer
                      /\ req[q].pc \in {"capture", "dismiss"} => req[q].order \in Placed
                      /\ req[q].pc = "capture" => orders'[req[q].order].status # "REFUNDED"
                      /\ req[q].pc = "lock" => req[q].coupon
                      /\ req[q].pc = "count" => req[q].coupon /\ promoLock = q
                      /\ req[q].pc = "place" /\ req[q].coupon =>
                           /\ promoLock = q
                           /\ Cardinality(CountedOf(req[q].customer)')
                                < UsageLimitPerUser
    BY <1>4 DEF CallInv, At, Idle
  <2>1. ASSUME req[q].pc = "capture"
        PROVE  orders'[req[q].order].status # "REFUNDED"
    <3>1. req[q].order \in Placed /\ orders[req[q].order].status # "REFUNDED"
      BY <2>1 DEF IInv, CallInv, At
    <3>2. CASE req[q].order # o
      BY <1>3, <3>1, <3>2 DEF Placed
    <3>3. CASE req[q].order = o
      <4>1. ~(SetStatus(o, "REFUNDED") /\ ~Capturing(o))
        BY <2>1, <3>3 DEF Capturing, At
      <4>2. SetStatus(o, "CANCELLED") \/ SetStatus(o, "CONFIRMED")
        BY <4>1 DEF GivesBack, Keeps, Confirms
      <4> QED
        BY <1>1, <3>3, <4>2 DEF SetStatus, Order
    <3> QED
      BY <3>2, <3>3
  <2>2. ASSUME req[q].pc = "place", req[q].coupon
        PROVE  Cardinality(CountedOf(req[q].customer)') < UsageLimitPerUser
    <3>1. Cardinality(CountedOf(req[q].customer)) < UsageLimitPerUser
      BY <2>2 DEF IInv, CallInv, At
    <3> QED
      BY <1>13, <3>1, LimitAssumption
  <2> QED
    BY <2>1, <2>2 DEF IInv, CallInv, At
<1>16. IsFiniteSet(WithCoupon)' /\ UsesAreCounted' /\ CounterInLimit'
  BY <1>4, <1>7, <1>8 DEF UsesAreCounted, CounterInLimit
<1> QED
  BY <1>5, <1>6, <1>10, <1>11, <1>14, <1>15, <1>16 DEF IInv

\* The steps that change an order after it was placed.
LEMMA LifeWrites ==
  ASSUME NEW o \in Placed, Life(o)
  PROVE  /\ GivesBack(o) \/ Keeps(o) \/ Confirms(o)
         /\ promoLock' = promoLock /\ req' = req
BY DEF Life, Cancel, Withdraw, ConfirmByHand, Refund, GivesBack, Keeps, Confirms, history

\* The steps of a capture and of a payment dialog that write what they read.
LEMMA HandlerWrites ==
  ASSUME IInv, NEW r \in Req, CaptureWrite(r) \/ DismissWrite(r)
  PROVE  /\ \E o \in Placed : GivesBack(o) \/ Confirms(o)
         /\ promoLock' = promoLock /\ Done(r)
<1> DEFINE o == req[r].order
<1>1. o \in Placed
  BY DEF IInv, CallInv, At, CaptureWrite, DismissWrite
<1>2. CaptureWrite(r) => orders[o].status # "REFUNDED"
  BY DEF IInv, CallInv, At, CaptureWrite
<1>3. GivesBack(o) \/ Confirms(o)
  BY <1>2 DEF CaptureWrite, DismissWrite, GivesBack, Confirms
<1> QED
  BY <1>1, <1>3 DEF CaptureWrite, DismissWrite

LEMMA AfterStep ==
  ASSUME IInv,
         \/ \E o \in Placed : Life(o)
         \/ \E r \in Req : CaptureWrite(r) \/ DismissWrite(r)
  PROVE  IInv'
<1>1. req \in [Req -> Local] /\ Idle \in Local
  BY NoneAssumption DEF IInv, TypeOK, Idle, Local, PC
<1>2. CASE \E o \in Placed : Life(o)
  BY <1>1, <1>2, LifeWrites, WriteStep
<1>3. CASE \E r \in Req : CaptureWrite(r) \/ DismissWrite(r)
  <2>1. PICK r \in Req : CaptureWrite(r) \/ DismissWrite(r)
    BY <1>3
  <2>2. Done(r) /\ promoLock' = promoLock
    BY <2>1, HandlerWrites
  <2>3. PICK o \in Placed : GivesBack(o) \/ Confirms(o)
    BY <2>1, HandlerWrites
  <2>4. req' \in [Req -> Local] /\ \A q \in Req : req'[q] \in {req[q], Idle}
    BY <1>1, <2>2 DEF Done
  <2> QED
    BY <2>2, <2>3, <2>4, WriteStep
<1> QED
  BY <1>2, <1>3

-----------------------------------------------------------------------------

\* The invariant that every property below follows from.
THEOREM Invariance == Spec => []IInv
<1>1. ASSUME IInv, [Next]_vars
      PROVE  IInv'
  <2>1. CASE \E r \in Req : Call(r)
    BY <1>1, <2>1, ReadStep, CollideStep, PlaceStep DEF Call
  <2>2. CASE \E r \in Req : Handler(r)
    BY <1>1, <2>2, ReadStep, AfterStep DEF Handler
  <2>3. CASE \E o \in Placed : Life(o)
    BY <1>1, <2>3, AfterStep
  <2>4. CASE UNCHANGED vars
    BY <1>1, <2>4
       DEF vars, IInv, TypeOK, UsesAreCounted, CounterInLimit, CustomerLimitHolds,
           ReturnedEnds, KeysAreUnique, LoserFindsOrder, CallInv, UsesOf, CountedOf,
           WithCoupon, Placed, Same, At
  <2> QED
    BY <1>1, <2>1, <2>2, <2>3, <2>4 DEF Next
<1> QED
  BY <1>1, InitIInv, PTL DEF Spec

\* Every variable keeps its type; the count of uses does not go below zero.
THEOREM TypeCorrect == Spec => []TypeOK
<1>1. IInv => TypeOK
  BY DEF IInv
<1> QED
  BY <1>1, Invariance, PTL

\* Promotion.usageCount is the number of orders that have a use, less the uses
\* that the payment dialog gave back once more.
THEOREM UsesCounted == Spec => []UsesAreCounted
<1>1. IInv => UsesAreCounted
  BY DEF IInv
<1> QED
  BY <1>1, Invariance, PTL

\* The coupon is used more often than its limit only by orders that a capture
\* revived and for uses that the payment dialog gave back once more.
THEOREM LimitIsKept == Spec => []LimitHolds
<1>1. IInv => LimitHolds
  <2> SUFFICES ASSUME IInv PROVE LimitHolds
    OBVIOUS
  <2>1. Uses \ revived \subseteq WithCoupon \ returned
    BY DEF IInv, ReturnedEnds, Uses
  <2>2. IsFiniteSet(WithCoupon \ returned)
    BY FS_Subset DEF IInv
  <2>3. /\ Cardinality(Uses \ revived) <= Cardinality(WithCoupon \ returned)
        /\ Cardinality(Uses \ revived) \in Nat
    BY <2>1, <2>2, FS_Subset, FS_CardinalityType
  <2> QED
    BY <2>3, LimitAssumption
       DEF IInv, TypeOK, UsesAreCounted, CounterInLimit, LimitHolds
<1> QED
  BY <1>1, Invariance, PTL

\* And a customer more often than one may only by orders that a capture revived:
\* the count is taken under the lock.
THEOREM CustomerLimitIsKept == Spec => []CustomerLimitHolds
<1>1. IInv => CustomerLimitHolds
  BY DEF IInv
<1> QED
  BY <1>1, Invariance, PTL

\* A use is given back twice by the payment dialog only: neither the expiry nor
\* an administrator gives back the use of an order that has.
THEOREM DialogsGiveBackTwice ==
  Spec => [][strays' # strays => \E r \in Req : DismissWrite(r)]_vars
<1>1. ASSUME IInv, [Next]_vars, strays' # strays
      PROVE  \E r \in Req : DismissWrite(r)
  <2>1. ASSUME NEW o \in Placed, Life(o) PROVE FALSE
    <3>1. Cancel(o) /\ o \in returned
      BY <1>1, <2>1 DEF Life, Cancel, Withdraw, ConfirmByHand, Refund, ReleaseUse, history
    <3> QED
      BY <1>1, <3>1 DEF IInv, ReturnedEnds, Cancel
  <2>2. ASSUME NEW r \in Req, Call(r) \/ Handler(r), ~DismissWrite(r) PROVE FALSE
    BY <1>1, <2>2 DEF Call, Handler, Start, Find, Quote, QuoteUses, Tx, TxFind,
       LockPromotion, Count, Place, PlaceUsedUp, PlaceCollides, FindCollided, Refuse,
       TurnedAway, Crash, CaptureRead, CaptureWrite, DismissRead, history
  <2> QED
    BY <1>1, <2>1, <2>2 DEF Next, vars
<1> QED
  BY <1>1, Invariance, PTL DEF Spec

\* A call that runs into the unique key finds the one order to answer with.
THEOREM LosersFindTheOrder == Spec => []LoserFindsOrder
<1>1. IInv => LoserFindsOrder
  BY DEF IInv
<1> QED
  BY <1>1, Invariance, PTL
-----------------------------------------------------------------------------
(* The refinement of CouponBook.  Only Place and the three kinds of writes    *)
(* change orders; what IInv knows of a call about to place is what the book   *)
(* asks.                                                                      *)

\* An instance has a copy of its own of the operators it extends.
LEMMA BookCounts == \A S : Book!Cardinality(S) = Cardinality(S)
BY DEF Book!Cardinality, Cardinality

LEMMA PlaceIsPlace ==
  ASSUME IInv, NEW r \in Req, Place(r)
  PROVE  \E o \in OrderId : Book!Place(o)
<1> DEFINE rec == [customer |-> req[r].customer, key |-> req[r].key,
                   coupon |-> req[r].coupon, status |-> "PENDING_PAYMENT"]
<1>1. PICK o \in OrderId \ Placed : orders' = [orders EXCEPT ![o] = rec]
  BY DEF Place
<1>2. /\ orders \in [OrderId -> Order \cup {None}]
      /\ req[r] \in Local /\ req[r].pc = "place" /\ req[r].customer \in Customer
  BY DEF IInv, TypeOK, Place, At, CallInv
<1>3. orders'[o] = rec /\ Book!Kept = Placed
  BY <1>1, <1>2 DEF Book!Kept, Placed
<1>4. rec \in Book!NewOrder
  BY <1>2 DEF Local, Book!NewOrder
<1>5. Book!KeyIsFree(rec.customer, rec.key)
  BY <1>3 DEF Place, Collides, Same, Book!KeyIsFree
<1>6. ASSUME rec.coupon
      PROVE  Book!UseIsLeft(rec.customer)
  <2>1. Book!Redeeming = WithCoupon
    BY <1>3 DEF Book!Redeeming, WithCoupon
  <2>2. Book!Standing(rec.customer) = CountedOf(rec.customer)
    BY <2>1 DEF Book!Standing, CountedOf, UsesOf
  <2>3. Cardinality(WithCoupon \ returned) < UsageLimit + strays
    BY <1>6, LimitAssumption DEF IInv, TypeOK, UsesAreCounted, Place, UseLeft
  <2>4. Cardinality(CountedOf(rec.customer)) < UsageLimitPerUser
    BY <1>2, <1>6 DEF IInv, CallInv, At
  <2> QED
    BY <2>1, <2>2, <2>3, <2>4, BookCounts DEF Book!UseIsLeft
<1>7. UNCHANGED Book!history
  BY DEF Place, history, Book!history
<1> QED
  BY <1>1, <1>3, <1>4, <1>5, <1>6, <1>7 DEF Book!Place

LEMMA WriteIsInBook ==
  ASSUME NEW o \in Placed, GivesBack(o) \/ Keeps(o) \/ Confirms(o)
  PROVE  Book!Next
<1>1. o \in OrderId /\ o \in Book!Kept
  BY DEF Placed, Book!Kept
<1>2. GivesBack(o) => Book!Cancel(o)
  BY DEF GivesBack, ReleaseUse, SetStatus, Book!Cancel, Book!Move
<1>3. Keeps(o) => Book!End(o)
  BY DEF Keeps, SetStatus, Book!End, Book!Move, Book!history
<1>4. Confirms(o) => Book!Confirm(o)
  BY DEF Confirms, SetStatus, Book!Confirm, Book!Move
<1> QED
  BY <1>1, <1>2, <1>3, <1>4 DEF Book!Next

LEMMA BookStep ==
  ASSUME IInv, [Next]_vars
  PROVE  [Book!Next]_(Book!vars)
<1>1. ASSUME NEW r \in Req, Call(r) \/ CaptureRead(r) \/ DismissRead(r), ~Place(r)
      PROVE  UNCHANGED <<orders, returned, strays, revived>>
  BY <1>1 DEF Call, Start, Find, Quote, QuoteUses, Tx, TxFind, LockPromotion, Count,
     PlaceUsedUp, PlaceCollides, FindCollided, Refuse, TurnedAway, Crash, CaptureRead,
     DismissRead, history
<1>2. CASE \E r \in Req : Call(r) \/ CaptureRead(r) \/ DismissRead(r)
  BY <1>1, <1>2, PlaceIsPlace DEF Book!Next, Book!vars
<1>3. CASE \E r \in Req : CaptureWrite(r) \/ DismissWrite(r)
  BY <1>3, HandlerWrites, WriteIsInBook
<1>4. CASE \E o \in Placed : Life(o)
  BY <1>4, LifeWrites, WriteIsInBook
<1>5. CASE UNCHANGED vars
  BY <1>5 DEF vars, Book!vars
<1> QED
  BY <1>2, <1>3, <1>4, <1>5 DEF Next, Handler

\* createFromCart implements CouponBook: customers who place orders at the same
\* time, retry and are interrupted see what they would if each order were placed
\* at one moment, with its key free and its use of the coupon still left; and a
\* capture or a dialog that writes what it read earlier acts as if at once.
THEOREM OrdersRefineBook == Spec => PlacedAtOnce
<1>1. Init => Book!Init
  BY DEF Init, Book!Init
<1>2. IInv /\ [Next]_vars => [Book!Next]_(Book!vars)
  BY BookStep
<1>3. Spec => Book!Spec
  BY <1>1, <1>2, Invariance, PTL DEF Spec, Book!Spec
<1> QED
  BY <1>3 DEF PlacedAtOnce
=============================================================================
