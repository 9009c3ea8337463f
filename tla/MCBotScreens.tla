---------------------------- MODULE MCBotScreens ----------------------------
(* A bounded instance of BotScreens for TLC, in two parts: one deletes a Bot *)
(* and lets a stop reject, the other restarts the daemon.                    *)
EXTENDS BotScreens

VARIABLE part

ScreensInit == Init /\ part \in {"deletion", "restart"}

\* Bounds of the deletions: one Bot is deleted, one Screen starts twice.
ScreensNext ==
  /\ Next /\ UNCHANGED part
  /\ IF part = "deletion"
     THEN /\ starts' = 0
          /\ Cardinality({s \in Surfaces : deletion'[s] # "none" \/ life'[s] = "gone"}) <= 1
          /\ Cardinality({s \in Surfaces : gen'[s] > 1}) <= 1
     ELSE /\ errors' = 0
          /\ \A s \in Surfaces : deletion'[s] = "none"

ScreensSpec == ScreensInit /\ [][ScreensNext]_<<vars, part>> /\ Fairness

\* The restarts show what is real: a deletion removes the processes of a
\* Screen under its row, and a stop that rejects may keep a handle of a
\* runtime that ends by itself, which is why only this part is asked.
RecoveredIsReal == part = "restart" => ShownIsReal
=============================================================================
