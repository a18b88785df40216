------------------------------ MODULE MCPayments ------------------------------
(* Instances of Payments: three farmers, two of whom share a puzzle hash.  *)
EXTENDS Payments, TLC

CONSTANTS c1, c2, c3, f1, f2, f3, a, b, pool

Rows == <<f1, f2, f3>>
TwoAddresses == (f1 :> a @@ f2 :> b @@ f3 :> a)
ThreeOwners == (c1 :> f1 @@ c2 :> f2 @@ c3 :> f3)
TwoOwners == (c1 :> f1 @@ c2 :> f2)
ThreeWeights == (c1 :> 1 @@ c2 :> 2 @@ c3 :> 1)
TwoWeights == (c1 :> 1 @@ c2 :> 2)
===============================================================================
