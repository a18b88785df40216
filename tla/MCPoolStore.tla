----------------------------- MODULE MCPoolStore -----------------------------
\* Two partials, one more than a login asks for, and a payout under the lock, a
\* difficulty that is adjusted under the lock and one that is changed later without
\* it, and others.
EXTENDS PoolStore

MCCalls == {"credit", "next", "payout", "adjust", "later", "login", "register"}
MCLocked == {"credit", "next", "payout", "adjust", "register"}
MCOp == [c \in MCCalls |->
  CASE c \in {"credit", "next"} -> "partial" [] c = "payout" -> "clear" [] c = "login" -> "login"
    [] c = "register" -> "farmer" [] OTHER -> "difficulty"]
==============================================================================
