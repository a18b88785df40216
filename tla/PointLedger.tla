----------------------------- MODULE PointLedger -----------------------------
(***************************************************************************)
(* What the pool promises its farmers about points, whatever the           *)
(* interleaving of HTTP handlers, confirmation tasks, payouts and process  *)
(* restarts: a proof of space earns points at most once, points stay in    *)
(* the ledger until a payout settles them, and a payout settles exactly    *)
(* the points that are on the ledger at that moment.                       *)
(*                                                                         *)
(* A credit is one confirmed partial; ProofOf names the proof it carries.  *)
(***************************************************************************)

CONSTANTS
  Credits,   \* the partials that may be credited
  ProofOf    \* ProofOf[c]: the proof of space that credit c stands for

VARIABLES
  unpaid,    \* credits counted in some farmer's points
  settled    \* credits that a payout has taken off the ledger

ledgerVars == <<unpaid, settled>>

Init ==
  /\ unpaid = {}
  /\ settled = {}

\* A confirmed partial is credited; its proof has never been credited before.
Earn(c) ==
  /\ \A d \in unpaid \cup settled : ProofOf[d] # ProofOf[c]
  /\ unpaid' = unpaid \cup {c}
  /\ UNCHANGED settled

\* A payout takes every unpaid credit, and nothing else.
Settle ==
  /\ settled' = settled \cup unpaid
  /\ unpaid' = {}

Next == (\E c \in Credits : Earn(c)) \/ Settle

Spec == Init /\ [][Next]_ledgerVars
==============================================================================
