----------------------------- MODULE MCCheckout -----------------------------
(* Checkout for TLC.  Calls, customers, keys and order ids are only compared  *)
(* for equality.                                                              *)
EXTENDS Checkout, TLC

\* Bounds: either an order without the coupon, which matters for its key only, or
\* an order that a stale write revived or gave back again; and no call that has
\* neither a key nor the coupon to race for.
Few == /\ Cardinality(Placed \ WithCoupon) + strays + Cardinality(revived) <= 1
       /\ \A r \in Req : req[r].customer # None => req[r].coupon \/ req[r].key # None

Alike == Permutations(Req) \cup Permutations(Customer) \cup Permutations(OrderId)
=============================================================================
