--------------------------- MODULE MCFarmerRecords ---------------------------
(* Instances of FarmerRecords: what requests may ask for.                  *)
EXTENDS FarmerRecords

CONSTANTS k0, k1, a0, a1, po1, po2, pu1, pu2, co1

Ask(k, a, d) == [key |-> k, payout |-> a, difficulty |-> d]

\* Register; change the key; change the payout and the difficulty.
FewAsks == {Ask(k0, a0, None), Ask(k1, None, None), Ask(None, a1, 3)}
=============================================================================
