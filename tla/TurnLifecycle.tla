---------------------------- MODULE TurnLifecycle ----------------------------
(***************************************************************************)
(* What the daemon promises about Turns (packages/domain/src/turn.ts and   *)
(* the comments of TurnService), whatever workers, timers, crashes and     *)
(* aborts do: a user's Turn begins in a Thread without an active one, and  *)
(* mail once in the Thread of its delivery; a Turn ends completed or       *)
(* cancelled only as its worker reported, otherwise failed; an outcome is  *)
(* only ever replaced by "failed", for mail, when the daemon starts.       *)
(***************************************************************************)
CONSTANTS Turns, Threads

VARIABLES status, thread, mail, verdict

lifecycle == <<status, thread, mail, verdict>>

Init ==
  /\ status = [t \in Turns |-> "none"]
  /\ thread = [t \in Turns |-> 0]
  /\ mail = {}
  /\ verdict = [t \in Turns |-> "none"]

Begin(t, th) ==
  /\ status[t] = "none"
  /\ status' = [status EXCEPT ![t] = "working"]
  /\ thread' = [thread EXCEPT ![t] = th]
  /\ \/ /\ \A u \in Turns : thread[u] = th => status[u] # "working"
        /\ UNCHANGED mail
     \/ /\ \A u \in mail : thread[u] # th
        /\ mail' = mail \cup {t}
  /\ UNCHANGED verdict

(* The worker reports the end of the Turn's prompt, the first time.        *)
Report(t, e) ==
  /\ verdict[t] = "none"
  /\ verdict' = [verdict EXCEPT ![t] = e]
  /\ UNCHANGED <<status, thread, mail>>

(* Working Turns end: one with its worker's report, several with a worker, *)
(* a quarantine or the daemon.                                             *)
End ==
  /\ \E T \in SUBSET {t \in Turns : status[t] = "working"} :
     \E ends \in [T -> {"completed", "cancelled", "failed"}] :
       /\ \A t \in T : ends[t] \in {"failed", verdict[t]}
       /\ status' = [t \in Turns |-> IF t \in T THEN ends[t] ELSE status[t]]
  /\ UNCHANGED <<thread, mail, verdict>>

(* The daemon starts: no Turn works on, and mail of which it does not know *)
(* whether its worker accepted it has failed.                              *)
Recover ==
  /\ \E unsure \in SUBSET {t \in mail : status[t] # "none"} :
       status' = [t \in Turns |-> IF status[t] = "working" \/ t \in unsure THEN "failed"
                                  ELSE status[t]]
  /\ UNCHANGED <<thread, mail, verdict>>

Next ==
  \/ \E t \in Turns, th \in Threads : Begin(t, th)
  \/ \E t \in Turns, e \in {"completed", "cancelled", "error"} : Report(t, e)
  \/ End
  \/ Recover

Spec == Init /\ [][Next]_lifecycle
=============================================================================
