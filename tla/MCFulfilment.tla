---------------------------- MODULE MCFulfilment ----------------------------
(* Fulfilment for TLC.  Requests are interchangeable: no definition compares  *)
(* them except for equality.                                                  *)
EXTENDS Fulfilment, TLC

RequestsAlike == Permutations(Req)
=============================================================================
