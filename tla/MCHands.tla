------------------------------ MODULE MCHands ------------------------------
(* Who controls a Screen, and who has the seat all Screens share: the two   *)
(* components are independent of each other, so that an instance runs one   *)
(* of them, the part, and leaves the other in its initial state.            *)
EXTENDS ComputerControl, InputSeat, TLC

VARIABLE part

HandsInit == ControlInit /\ SeatInit /\ part \in {"control", "seat"}

HandsNext ==
  \/ part = "control" /\ ControlNext /\ UNCHANGED <<part, seatVars>>
  \/ part = "seat" /\ SeatNext /\ UNCHANGED <<part, controlVars>>

\* The fairness of ControlFairSpec and SeatSpec, for the part that runs.
HandsFairness ==
  /\ WF_controlVars(part = "control" /\ Continue)
  /\ WF_controlVars(part = "control" /\ OperationEnds)
  /\ WF_controlVars(part = "control" /\ \E c \in Calls : Recorded(c))
  /\ \A s \in Surfaces : WF_seatVars(part = "seat" /\ Progress(s))

HandsSpec == HandsInit /\ [][HandsNext]_<<controlVars, seatVars, part>> /\ HandsFairness
=============================================================================
