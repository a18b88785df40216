-------------------------- MODULE MCRewardCollector --------------------------
\* Two farmers.  The first is leaving the pool; it may finish doing so at any time,
\* even before it registers, and may come back.  It is not active: it need not send
\* partials, so that its stored tip may grow old.  The second stays.
EXTENDS RewardCollector

MCFarmerRows == <<"idle", "busy">>
MCKnown == {}
MCBefore == [f \in {"idle", "busy"} |-> IF f = "idle" THEN "leaving" ELSE "farming"]
MCActive == {"busy"}
MCMaxMoves == [f \in {"idle", "busy"} |-> IF f = "idle" THEN 2 ELSE 0]

OwnerIn(coins) == [c \in coins |-> IF c = "a" THEN "idle" ELSE "busy"]
KindIn(coins) == [c \in coins |-> IF c = "x" THEN "farmer" ELSE "pool"]

MCCoins == {"a", "b"}
MCOwner == OwnerIn(MCCoins)
MCKind == KindIn(MCCoins)

\* For liveness: both are registered, and the first may begin to leave.  Coin "x" is
\* the farmer's share of a block, which nobody can absorb.
LiveKnown == {"idle", "busy"}
LiveBefore == [f \in {"idle", "busy"} |-> "farming"]
LiveMaxMoves == [f \in {"idle", "busy"} |-> IF f = "idle" THEN 1 ELSE 0]
LiveCoins == {"a", "b", "x"}
LiveOwner == OwnerIn(LiveCoins)
LiveKind == KindIn(LiveCoins)
==============================================================================
