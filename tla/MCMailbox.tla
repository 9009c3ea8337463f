------------------------------ MODULE MCMailbox ------------------------------
(* Bounded instances of Mailbox for TLC: two Bots that share one Agent.     *)
EXTENDS Mailbox, TLC

CONSTANTS b1, b2, a1, c1, c2

SharedAgent == (b1 :> a1) @@ (b2 :> a1)
OneCall == c1 :> b1
CallsOfBoth == (c1 :> b1) @@ (c2 :> b2)
=============================================================================
