--------------------------- MODULE MCPartialPoints ---------------------------
(* Instances of PartialPoints: two requests carry the same proof.          *)
EXTENDS PartialPoints, TLC

CONSTANTS r1, r2, f1, p1, p2, s1

TwoProofs == (r1 :> p1 @@ r2 :> p2)
OneSender == (r1 :> f1 @@ r2 :> f1)
SameProof == (r1 :> p1 @@ r2 :> p1)
OneSP == (p1 :> s1 @@ p2 :> s1)
Qualities == (p1 :> 2 @@ p2 :> 1)
==============================================================================
