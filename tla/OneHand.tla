------------------------------ MODULE OneHand ------------------------------
(***************************************************************************)
(* What the Computer Broker promises about a Bot Screen: at most one hand  *)
(* is on it, and it passes from the Bot to the user, or back, only after   *)
(* it was let go.                                                          *)
(***************************************************************************)
VARIABLE hands

Hands == {"agent", "human"}

Init == hands = {}

Grasp(h) == /\ hands = {}
            /\ hands' = {h}

LetGo == hands' = {}

Next == LetGo \/ \E h \in Hands : Grasp(h)

Spec == Init /\ [][Next]_hands
=============================================================================
