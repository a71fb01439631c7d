--------------------------- MODULE MCOrderPayment ---------------------------
(* OrderPayment for TLC: handlers and Razorpay orders are model values, and *)
(* both sets are symmetric, since no definition compares their members      *)
(* except for equality.                                                     *)
EXTENDS OrderPayment, TLC

HandlersAlike == Permutations(Req)
AllAlike == Permutations(Req) \cup Permutations(RzpOrder)
=============================================================================
